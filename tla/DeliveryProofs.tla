--------------------------- MODULE DeliveryProofs ---------------------------
(***************************************************************************)
(* What holds of Delivery for every number of batches, descriptors,        *)
(* failures and starts.                                                    *)
(*                                                                         *)
(* The first part, ClientInv, holds in every environment: what the client  *)
(* keeps by itself, its descriptors, its UUID file and the batch in hand.  *)
(*                                                                         *)
(* The second, Inv, is about what the backend answered, and holds in an    *)
(* orderly environment: connections are reset, answers are late or         *)
(* refusals, the process is killed at any point, and outages last as long  *)
(* as they like; but no backend closes a connection and no answer comes in *)
(* two pieces (in both cases the code is wrong, see the README), and       *)
(* buffers start out as zero.                                              *)
(***************************************************************************)
EXTENDS Delivery, TLAPS

Labels == {"socket", "connect", "hello", "auth", "authAnswer", "register",
           "registerAnswer", "truncate", "write", "window", "post", "answer",
           "close", "exited"}

(* The loop of main.c:206-251, with the reconnections it makes.            *)
Sending ==
    \/ pc \in {"window", "post", "answer", "close"}
    \/ pc \in {"socket", "connect"} /\ batch # 0

-----------------------------------------------------------------------------
(* What holds in every environment: nothing of it depends on what the      *)
(* backend says, or on when.                                               *)

ControlTypes ==
    /\ pc \in Labels
    /\ socketfd \in BOOLEAN /\ timed \in BOOLEAN /\ up \in BOOLEAN
    /\ open_fds \in 0..MaxFds /\ failed \in Nat
    /\ failures \in 0..MaxFailures /\ starts \in 1..MaxStarts

(* What TCP may hold for the client, and what it may find in a buffer.     *)
Pieces == [status : {"ok", "refused", "body"}, uuid : Int]
Readable == {Unset, Garbled} \cup [status : {"ok", "refused"}, uuid : Int]

StreamTypes ==
    /\ conn \in {"none", "open", "fin", "reset"}
    /\ inbox \in Seq(Pieces) /\ requests \in Seq(Requests) /\ transit \in Seq(Int)
    /\ recv_buffer \in Readable

DataTypes ==
    /\ uuid \in Int /\ uuid_file \in Int /\ issued \in Nat
    /\ batch \in 0..MaxBatches /\ taken \in 0..MaxBatches /\ inherited \in 0..taken
    /\ completed \subseteq 1..MaxBatches /\ accepted \subseteq 1..MaxBatches
    /\ rejected \subseteq 1..MaxBatches /\ late \subseteq 1..MaxBatches

(* A batch is sent only when there is one in hand.                         *)
Requested ==
    \A i \in DOMAIN requests : requests[i].kind = "ingest" => requests[i].batch # 0

InLoop ==
    /\ pc \in {"hello", "auth", "authAnswer", "window"} => batch = 0
    /\ pc \in {"post", "answer", "close"} => batch # 0

(* The UUID presented is the one of the file, when the file is whole.      *)
Presented ==
    (Sending \/ pc \in {"auth", "authAnswer"}) /\ uuid_file # Empty => uuid = uuid_file

Descriptors ==
    /\ pc = "socket" => ~socketfd
    /\ pc # "exited" => open_fds = failed + (IF socketfd THEN 1 ELSE 0)

ClientInv ==
    /\ ControlTypes /\ StreamTypes /\ DataTypes
    /\ Requested
    /\ InLoop
    /\ Presented
    /\ Descriptors

LEMMA ClientTypes ==
    ASSUME ClientInv
    PROVE  TypeOK
  <1>1. {completed, accepted, rejected, late} \subseteq SUBSET (1..MaxBatches)
    BY Zenon DEF ClientInv, DataTypes
  <1>2. Pieces \subseteq Answers
    BY SMT DEF Pieces, Answers
  <1>3. inbox \in Seq(Answers)
    <2>1. inbox \in Seq(Pieces)
      BY Zenon DEF ClientInv, StreamTypes
    <2> HIDE DEF Pieces, Answers
    <2> QED  BY <1>2, <2>1, SMT
  <1>4. Readable \subseteq Answers
    BY SMT DEF Readable, Unset, Garbled, Answers, Junk
  <1> QED  BY <1>1, <1>3, <1>4, Zenon DEF ClientInv, ControlTypes, StreamTypes,
              DataTypes, Labels, TypeOK

(* What recv hands over is an answer, or the rest of one.                  *)
LEMMA ReceivedReadable ==
    ASSUME ClientInv, inbox # <<>>
    PROVE  Received \in Readable
  <1>1. inbox \in Seq(Pieces)
    BY Zenon DEF ClientInv, StreamTypes
  <1>2. inbox[1] \in Pieces
    <2> HIDE DEF Pieces
    <2> QED  BY <1>1, SMT
  <1>3. Len(inbox) > 1 => inbox[2] \in Pieces
    <2> HIDE DEF Pieces
    <2> QED  BY <1>1, SMT
  <1>4. inbox[1].status \in {"ok", "refused", "body"} /\ inbox[1].uuid \in Int
    BY <1>2, SMT DEF Pieces
  <1>5. Len(inbox) > 1 => inbox[2].uuid \in Int
    BY <1>3, SMT DEF Pieces
  <1> DEFINE body == IF inbox[1].uuid = None /\ Len(inbox) > 1 THEN inbox[2].uuid
                     ELSE inbox[1].uuid
  <1>6. body \in Int
    BY <1>4, <1>5, Zenon
  <1>7. inbox[1].status # "body" =>
            [status |-> inbox[1].status, uuid |-> body] \in Readable
    <2> HIDE DEF body
    <2> QED  BY <1>4, <1>6, SMT DEF Readable
  <1>8. Garbled \in Readable
    BY Zenon DEF Readable
  <1> QED  BY <1>7, <1>8, Zenon DEF Received

(* extract_status_code finds 200, another status, or crashes.              *)
LEMMA CodesAre ==
    ASSUME NEW answer \in Readable
    PROVE  Codes(answer) \subseteq {"ok", "refused", "crash"}
  <1>1. answer \in {Unset, Garbled} \/ answer.status \in {"ok", "refused"}
    BY SMT DEF Readable
  <1> QED  BY <1>1, Zenon DEF Codes

(* So does client_auth or register with what it received, if anything.     *)
LEMMA BufferReadable ==
    ASSUME ClientInv
    PROVE  (IF inbox # <<>> THEN Received ELSE Unset) \in Readable
  <1>1. Unset \in Readable
    BY Zenon DEF Readable
  <1> QED  BY <1>1, ReceivedReadable, Zenon

(* The client receives: only what TCP holds for it changes.                *)
LEMMA ReceiveKeeps ==
    ASSUME ClientInv, RecvBytes \/ RecvZero \/ RecvFails
    PROVE  inbox' \in Seq(Pieces) /\ UNCHANGED <<conn, requests, late, transit>>
  <1>1. inbox \in Seq(Pieces)
    BY Zenon DEF ClientInv, StreamTypes
  <1>2. <<>> \in Seq(Pieces)
    <2> HIDE DEF Pieces
    <2> QED  BY SMT
  <1> QED  BY <1>1, <1>2, Zenon DEF RecvBytes, RecvZero, RecvFails, stream

(* The connection goes away: the batches it leaves behind were taken.      *)
LEMMA SeverKeeps ==
    ASSUME ClientInv, NEW state \in {"none", "fin", "reset"}, Sever(state)
    PROVE  /\ conn' \in {"none", "open", "fin", "reset"}
           /\ requests' \in Seq(Requests) /\ transit' \in Seq(Int) /\ Requested'
           /\ late' \subseteq 1..MaxBatches
  <1>1. conn' = state /\ transit' = <<>> /\ requests' = <<>>
        /\ late' = late \cup {r.batch : r \in {q \in Range(requests) : q.kind = "ingest"}}
    BY Zenon DEF Sever
  <1>2. ASSUME NEW q \in Range(requests), q.kind = "ingest"
        PROVE  q.batch \in 1..MaxBatches
    <2>1. PICK i \in DOMAIN requests : q = requests[i]
      BY <1>2, Zenon DEF Range
    <2>2. requests \in Seq(Requests)
      BY Zenon DEF ClientInv, StreamTypes
    <2>3. q \in Requests
      <3> HIDE DEF Requests
      <3> QED  BY <2>1, <2>2, SMT
    <2>4. q.batch \in 0..MaxBatches
      BY <2>3, SMT DEF Requests
    <2>5. q.batch # 0
      BY <1>2, <2>1, Zenon DEF ClientInv, Requested
    <2> QED  BY <2>4, <2>5, DeliveryAssumption, SMT
  <1>3. late \subseteq 1..MaxBatches
    BY Zenon DEF ClientInv, DataTypes
  <1>4. late' \subseteq 1..MaxBatches
    BY <1>1, <1>2, <1>3, Zenon
  <1>5. requests' \in Seq(Requests) /\ transit' \in Seq(Int) /\ Requested'
    <2> HIDE DEF Requests
    <2> QED  BY <1>1, SMT DEF Requested
  <1> QED  BY <1>1, <1>4, <1>5, Zenon

(* The client sends.                                                       *)
LEMMA SendKeeps ==
    ASSUME ClientInv, NEW kind \in {"auth", "register", "ingest"}, Send(kind),
           kind = "ingest" => batch # 0
    PROVE  /\ requests' \in Seq(Requests) /\ Requested'
           /\ UNCHANGED <<conn, inbox, late, transit>>
  <1> DEFINE request == [kind |-> kind, batch |-> batch, uuid |-> uuid]
  <1>1. requests \in Seq(Requests)
    BY Zenon DEF ClientInv, StreamTypes
  <1>2. request \in Requests
    BY SMT DEF ClientInv, DataTypes, Requests
  <1>3. request.kind = "ingest" => request.batch # 0
    OBVIOUS
  <1>4. requests' = requests \/ requests' = Append(requests, request)
    BY Zenon DEF Send
  <1>5. requests' \in Seq(Requests) /\ Requested'
    <2> HIDE DEF request, Requests
    <2> QED  BY <1>1, <1>2, <1>3, <1>4, SMT DEF ClientInv, Requested
  <1> QED  BY <1>5, Zenon DEF Send

(* A new socket takes the descriptor it says it takes.                     *)
LEMMA NewSocketKeeps ==
    ASSUME ClientInv, NewSocket
    PROVE  /\ socketfd' \in BOOLEAN /\ timed' \in BOOLEAN
           /\ open_fds' \in 0..MaxFds
           /\ open_fds' = open_fds + (IF socketfd' THEN 1 ELSE 0)
  <1>1. open_fds \in 0..MaxFds /\ MaxFds \in Nat
    BY DeliveryAssumption DEF ClientInv, ControlTypes
  <1>2. timed' \in BOOLEAN
    BY Zenon DEF NewSocket
  <1>3. CASE open_fds < MaxFds
    <2>1. (open_fds < MaxFds) = TRUE
      BY <1>3, Zenon
    <2>2. socketfd' = TRUE /\ open_fds' = open_fds + 1
      BY <1>3, <2>1, Zenon DEF NewSocket
    <2>3. open_fds' \in 0..MaxFds
      BY <1>1, <1>3, <2>2, SMT
    <2> QED  BY <1>2, <2>2, <2>3, Zenon
  <1>4. CASE ~(open_fds < MaxFds)
    <2>1. (open_fds < MaxFds) = FALSE
      BY <1>1, <1>4, SMT
    <2>2. socketfd' = FALSE /\ open_fds' = open_fds
      BY <1>4, <2>1, Zenon DEF NewSocket
    <2>3. open_fds' = open_fds + 0
      BY <1>1, <2>2, SMT
    <2> QED  BY <1>1, <1>2, <2>2, <2>3, Zenon
  <1> QED  BY <1>3, <1>4

LEMMA OpenSocketClient ==
    ASSUME ClientInv, OpenSocket \/ ConnectFails
    PROVE  ClientInv'
  <1>1. /\ socketfd' \in BOOLEAN /\ timed' \in BOOLEAN
        /\ open_fds' \in 0..MaxFds
        /\ open_fds' = open_fds + (IF socketfd' THEN 1 ELSE 0)
    BY NewSocketKeeps, Zenon DEF OpenSocket, ConnectFails
  <1>2. (StreamTypes /\ DataTypes /\ Requested)'
    BY Zenon DEF ClientInv, OpenSocket, ConnectFails, stream, identity, progress,
       backend, runs, StreamTypes, DataTypes, Requested
  <1>3. (InLoop /\ Presented)'
    BY SMT DEF ClientInv, OpenSocket, ConnectFails, identity, progress, InLoop,
       Presented, Sending
  <1>4. pc' = "connect"
    BY Zenon DEF OpenSocket, ConnectFails
  <1>5. failed' \in Nat /\ open_fds' = failed' + (IF socketfd' THEN 1 ELSE 0)
    BY <1>1, SMT DEF ClientInv, ControlTypes, Descriptors, OpenSocket, ConnectFails
  <1>6. failures' \in 0..MaxFailures /\ starts' \in 1..MaxStarts /\ up' \in BOOLEAN
    BY Zenon DEF ClientInv, ControlTypes, OpenSocket, ConnectFails, backend, runs
  <1>7. ControlTypes'
    BY <1>1, <1>4, <1>5, <1>6, Zenon DEF ControlTypes, Labels
  <1>8. Descriptors'
    BY <1>4, <1>5, SMT DEF Descriptors
  <1> QED  BY <1>2, <1>3, <1>7, <1>8, Zenon DEF ClientInv

LEMMA ConnectClient ==
    ASSUME ClientInv, Connect
    PROVE  ClientInv'
  <1>1. /\ conn' = "open"
        /\ UNCHANGED <<inbox, requests, transit, late, recv_buffer>>
        /\ timed' = (batch = 0) /\ socketfd
        /\ pc' = IF batch = 0 THEN "hello" ELSE "post"
        /\ UNCHANGED <<socketfd, open_fds, failed, identity, progress, backend, runs>>
    BY Zenon DEF Connect
  <1>2. (StreamTypes /\ DataTypes /\ Requested)'
    BY <1>1, Zenon DEF ClientInv, identity, progress, backend, runs,
       StreamTypes, DataTypes, Requested
  <1>3. (InLoop /\ Presented)'
    BY SMT DEF ClientInv, Connect, identity, progress, InLoop, Presented, Sending
  <1>4. timed' \in BOOLEAN
    <2>1. (batch = 0) = TRUE \/ (batch = 0) = FALSE
      BY Zenon
    <2> QED  BY <1>1, <2>1, Zenon
  <1>5. ControlTypes'
    BY <1>1, <1>4, Zenon DEF ClientInv, ControlTypes, Labels, backend, runs
  <1>6. Descriptors'
    BY SMT DEF ClientInv, Connect, Descriptors
  <1> QED  BY <1>2, <1>3, <1>5, <1>6, Zenon DEF ClientInv

LEMMA ReadUuidClient ==
    ASSUME ClientInv, ReadUuid
    PROVE  ClientInv'
  <1>1. (ControlTypes /\ StreamTypes /\ Requested)'
    BY Zenon DEF ClientInv, ReadUuid, socket, stream, backend, runs, ControlTypes,
       Labels, StreamTypes, Requested
  <1>2. uuid' \in Int
    BY SMT DEF ClientInv, DataTypes, ReadUuid, Junk
  <1>3. DataTypes'
    BY <1>2, Zenon DEF ClientInv, ReadUuid, stream, progress, backend, runs, DataTypes
  <1>4. (InLoop /\ Presented /\ Descriptors)'
    BY SMT DEF ClientInv, ReadUuid, socket, progress, InLoop, Presented, Sending,
       Descriptors
  <1> QED  BY <1>1, <1>3, <1>4, Zenon DEF ClientInv

(* exit(1), a crash or a kill.                                             *)
LEMMA DieClient ==
    ASSUME ClientInv, Die
    PROVE  ClientInv'
  <1>1. Sever("none") /\ inbox' = <<>> /\ pc' = "exited"
        /\ UNCHANGED <<socket, recv_buffer, identity, progress, backend, runs>>
    BY Zenon DEF Die, Disconnect
  <1>2. /\ conn' \in {"none", "open", "fin", "reset"}
        /\ requests' \in Seq(Requests) /\ transit' \in Seq(Int) /\ Requested'
        /\ late' \subseteq 1..MaxBatches
    BY <1>1, SeverKeeps
  <1>3. inbox' \in Seq(Pieces)
    <2> HIDE DEF Pieces
    <2> QED  BY <1>1, SMT
  <1>4. StreamTypes'
    BY <1>1, <1>2, <1>3, Zenon DEF ClientInv, StreamTypes
  <1>5. DataTypes'
    BY <1>1, <1>2, Zenon DEF ClientInv, DataTypes, identity, progress, backend, runs
  <1>6. ControlTypes'
    BY <1>1, Zenon DEF ClientInv, ControlTypes, Labels, socket, backend, runs
  <1>7. (InLoop /\ Presented /\ Descriptors)'
    BY <1>1, SMT DEF InLoop, Presented, Sending, Descriptors
  <1> QED  BY <1>2, <1>4, <1>5, <1>6, <1>7, Zenon DEF ClientInv

LEMMA SendingClient ==
    ASSUME ClientInv, SendAuth \/ SendRegister \/ Post
    PROVE  ClientInv'
  <1>1. CASE Die
    BY <1>1, DieClient
  <1>2. CASE /\ \/ /\ Send("auth") /\ pc = "auth" /\ pc' = "authAnswer"
                \/ /\ Send("register") /\ pc = "register" /\ pc' = "registerAnswer"
                \/ /\ Send("ingest") /\ pc = "post" /\ pc' = "answer"
                \/ /\ UNCHANGED stream /\ pc = "post" /\ pc' = "close"
             /\ UNCHANGED <<socket, recv_buffer, identity, progress, backend, runs>>
    <2>1. /\ requests' \in Seq(Requests) /\ Requested'
          /\ UNCHANGED <<conn, inbox, late, transit>>
      <3>1. CASE Send("auth")
        BY <3>1, SendKeeps
      <3>2. CASE Send("register")
        BY <3>2, SendKeeps
      <3>3. CASE Send("ingest") /\ pc = "post"
        <4>1. batch # 0
          BY <3>3, Zenon DEF ClientInv, InLoop
        <4> QED  BY <3>3, <4>1, SendKeeps
      <3>4. CASE UNCHANGED stream
        BY <3>4, Zenon DEF ClientInv, StreamTypes, Requested, stream
      <3> QED  BY <1>2, <3>1, <3>2, <3>3, <3>4, Zenon
    <2>2. (ControlTypes /\ StreamTypes /\ DataTypes)'
      BY <1>2, <2>1, Zenon DEF ClientInv, ControlTypes, Labels, StreamTypes,
         DataTypes, socket, identity, progress, backend, runs
    <2>3. (InLoop /\ Presented /\ Descriptors)'
      BY <1>2, SMT DEF ClientInv, InLoop, Presented, Sending, Descriptors, socket,
         identity, progress
    <2> QED  BY <2>1, <2>2, <2>3, Zenon DEF ClientInv
  <1> QED  BY <1>1, <1>2, Zenon DEF SendAuth, SendRegister, Post

LEMMA AuthAnswerClient ==
    ASSUME ClientInv, AuthAnswer
    PROVE  ClientInv'
  <1>1. PICK code \in Codes(IF inbox # <<>> THEN Received ELSE Unset) :
            /\ RecvBytes \/ RecvZero \/ RecvFails
            /\ pc' = CASE code = "ok" -> "window"
                       [] code = "refused" -> "register"
                       [] code = "crash" -> "exited"
    BY Zenon DEF AuthAnswer
  <1>2. inbox' \in Seq(Pieces) /\ UNCHANGED <<conn, requests, late, transit>>
    BY <1>1, ReceiveKeeps
  <1>3. pc = "authAnswer"
        /\ UNCHANGED <<socket, recv_buffer, identity, progress, backend, runs>>
    BY Zenon DEF AuthAnswer
  <1>4. code \in {"ok", "refused", "crash"}
    BY <1>1, CodesAre, BufferReadable, Zenon
  <1>5. pc' \in {"window", "register", "exited"}
    BY <1>1, <1>4
  <1>6. (ControlTypes /\ StreamTypes /\ DataTypes /\ Requested)'
    BY <1>2, <1>3, <1>5, Zenon DEF ClientInv, ControlTypes, Labels, StreamTypes,
       DataTypes, Requested, socket, identity, progress, backend, runs
  <1>7. (InLoop /\ Presented /\ Descriptors)'
    BY <1>3, <1>5, SMT DEF ClientInv, InLoop, Presented, Sending, Descriptors, socket,
       identity, progress
  <1> QED  BY <1>6, <1>7, Zenon DEF ClientInv

LEMMA RegisterAnswerClient ==
    ASSUME ClientInv, RegisterAnswer
    PROVE  ClientInv'
  <1> DEFINE answer == IF inbox # <<>> THEN Received ELSE Unset
  <1>1. PICK code \in Codes(answer), id \in Uuids(answer) :
            /\ RecvBytes \/ RecvZero \/ RecvFails
            /\ IF code = "ok" THEN uuid' = id /\ pc' = "truncate"
               ELSE pc' = "exited" /\ UNCHANGED uuid
    BY Zenon DEF RegisterAnswer
  <1>2. inbox' \in Seq(Pieces) /\ UNCHANGED <<conn, requests, late, transit>>
    BY <1>1, ReceiveKeeps
  <1>3. pc = "registerAnswer"
        /\ UNCHANGED <<socket, recv_buffer, uuid_file, progress, backend, runs>>
    BY Zenon DEF RegisterAnswer
  <1>4. answer \in Readable
    BY BufferReadable, Zenon
  <1>5. id \in Int
    <2>1. answer.uuid \in Int
      BY <1>4, SMT DEF Readable, Unset, Garbled, Junk
    <2> HIDE DEF answer
    <2> QED  BY <1>1, <2>1, SMT DEF Uuids, Junk
  <1>6. uuid' \in Int /\ pc' \in {"truncate", "exited"}
    BY <1>1, <1>5, Zenon DEF ClientInv, DataTypes
  <1>7. (ControlTypes /\ StreamTypes /\ DataTypes /\ Requested)'
    BY <1>2, <1>3, <1>6, Zenon DEF ClientInv, ControlTypes, Labels, StreamTypes,
       DataTypes, Requested, socket, progress, backend, runs
  <1>8. (InLoop /\ Presented /\ Descriptors)'
    BY <1>3, <1>6, SMT DEF ClientInv, InLoop, Presented, Sending, Descriptors, socket,
       progress
  <1> QED  BY <1>7, <1>8, Zenon DEF ClientInv

LEMMA TruncateUuidClient ==
    ASSUME ClientInv, TruncateUuid
    PROVE  ClientInv'
  <1>1. Empty \in Int
    BY SMT DEF Empty
  <1>2. (ControlTypes /\ StreamTypes /\ DataTypes /\ Requested)'
    BY <1>1, Zenon DEF ClientInv, TruncateUuid, ControlTypes, Labels, StreamTypes,
       DataTypes, Requested, socket, stream, progress, backend, runs
  <1>3. (InLoop /\ Presented /\ Descriptors)'
    BY SMT DEF ClientInv, TruncateUuid, InLoop, Presented, Sending, Descriptors, socket,
       progress
  <1> QED  BY <1>2, <1>3, Zenon DEF ClientInv

(* set_UUID closes the file: it holds the UUID that is in use from here.   *)
LEMMA WriteUuidClient ==
    ASSUME ClientInv, WriteUuid
    PROVE  ClientInv'
  <1>1. batch' \in 0..MaxBatches /\ completed' \subseteq 1..MaxBatches
    BY DeliveryAssumption, SMT DEF ClientInv, DataTypes, WriteUuid
  <1>2. (ControlTypes /\ StreamTypes /\ DataTypes /\ Requested)'
    BY <1>1, Zenon DEF ClientInv, WriteUuid, ControlTypes, Labels, StreamTypes,
       DataTypes, Requested, socket, stream, backend, runs
  <1>3. (InLoop /\ Presented /\ Descriptors)'
    BY SMT DEF ClientInv, WriteUuid, InLoop, Presented, Sending, Descriptors, socket
  <1> QED  BY <1>2, <1>3, Zenon DEF ClientInv

LEMMA TakeBatchClient ==
    ASSUME ClientInv, TakeBatch
    PROVE  ClientInv'
  <1>1. /\ batch' \in 0..MaxBatches /\ batch' # 0
        /\ taken' \in 0..MaxBatches /\ inherited' \in 0..taken'
    BY DeliveryAssumption, SMT DEF ClientInv, DataTypes, TakeBatch, runs
  <1>2. (ControlTypes /\ StreamTypes /\ DataTypes /\ Requested)'
    BY <1>1, Zenon DEF ClientInv, TakeBatch, ControlTypes, Labels, StreamTypes,
       DataTypes, Requested, socket, stream, identity, backend, runs
  <1>3. (InLoop /\ Presented /\ Descriptors)'
    BY <1>1, SMT DEF ClientInv, TakeBatch, InLoop, Presented, Sending, Descriptors,
       socket, identity
  <1> QED  BY <1>2, <1>3, Zenon DEF ClientInv

(* The descriptor of the connection is given back.                         *)
LEMMA CloseClient ==
    ASSUME ClientInv, Close
    PROVE  ClientInv'
  <1>1. Sever("none") /\ inbox' = <<>>
    BY Zenon DEF Close, Disconnect
  <1>2. /\ conn' \in {"none", "open", "fin", "reset"}
        /\ requests' \in Seq(Requests) /\ transit' \in Seq(Int) /\ Requested'
        /\ late' \subseteq 1..MaxBatches
    BY <1>1, SeverKeeps
  <1>3. inbox' \in Seq(Pieces)
    <2> HIDE DEF Pieces
    <2> QED  BY <1>1, SMT
  <1>4. (StreamTypes /\ DataTypes)'
    BY <1>2, <1>3, Zenon DEF ClientInv, Close, StreamTypes, DataTypes, identity,
       progress, backend, runs
  <1>5. /\ socketfd' = FALSE /\ pc' = "socket"
        /\ open_fds' \in 0..MaxFds /\ open_fds' = failed'
    BY DeliveryAssumption, SMT DEF ClientInv, ControlTypes, Descriptors, Close
  <1>6. ControlTypes'
    BY <1>5, Zenon DEF ClientInv, Close, ControlTypes, Labels, backend, runs
  <1>7. Descriptors'
    <2>1. failed' \in Nat /\ open_fds' = failed'
      BY <1>5, <1>6, Zenon DEF ControlTypes
    <2>2. \A n \in Nat : n + 0 = n
      BY SMT
    <2> QED  BY <1>5, <2>1, <2>2, Zenon DEF Descriptors
  <1>8. (InLoop /\ Presented)'
    BY SMT DEF ClientInv, Close, InLoop, Presented, Sending, identity, progress
  <1> QED  BY <1>2, <1>4, <1>6, <1>7, <1>8, Zenon DEF ClientInv

LEMMA AnswerFailsClient ==
    ASSUME ClientInv, AnswerFails
    PROVE  ClientInv'
  <1>1. (ControlTypes /\ StreamTypes /\ DataTypes /\ Requested)'
    BY Zenon DEF ClientInv, AnswerFails, RecvFails, ControlTypes, Labels, StreamTypes,
       DataTypes, Requested, socket, stream, identity, progress, backend, runs
  <1>2. (InLoop /\ Presented /\ Descriptors)'
    BY SMT DEF ClientInv, AnswerFails, InLoop, Presented, Sending, Descriptors, socket,
       identity, progress
  <1> QED  BY <1>1, <1>2, Zenon DEF ClientInv

LEMMA AnswerClient ==
    ASSUME ClientInv, Answer
    PROVE  ClientInv'
  <1>1. inbox' \in Seq(Pieces) /\ UNCHANGED <<conn, requests, late, transit>>
    BY ReceiveKeeps, Zenon DEF Answer
  <1>2. recv_buffer' \in Readable
    <2>1. CASE RecvBytes /\ recv_buffer' = Received
      BY <2>1, ReceivedReadable, Zenon DEF RecvBytes
    <2>2. CASE UNCHANGED recv_buffer
      BY <2>2, Zenon DEF ClientInv, StreamTypes
    <2> QED  BY <2>1, <2>2, Zenon DEF Answer
  <1>3. /\ pc = "answer"
        /\ UNCHANGED <<socket, identity, taken, backend, runs>>
        /\ \/ pc' = "window" /\ batch' = 0 /\ completed' = completed \cup {batch}
           \/ pc' \in {"register", "exited"} /\ UNCHANGED <<completed, batch>>
    BY Zenon DEF Answer
  <1>4. batch # 0
    BY <1>3, Zenon DEF ClientInv, InLoop
  <1>5. batch' \in 0..MaxBatches /\ completed' \subseteq 1..MaxBatches
    <2>1. batch \in 1..MaxBatches /\ 0 \in 0..MaxBatches
      BY <1>4, DeliveryAssumption, SMT DEF ClientInv, DataTypes
    <2> QED  BY <1>3, <2>1, Zenon DEF ClientInv, DataTypes
  <1>6. (ControlTypes /\ StreamTypes /\ DataTypes /\ Requested)'
    BY <1>1, <1>2, <1>3, <1>5, Zenon DEF ClientInv, ControlTypes, Labels, StreamTypes,
       DataTypes, Requested, socket, identity, backend, runs
  <1>7. (InLoop /\ Presented /\ Descriptors)'
    BY <1>3, SMT DEF ClientInv, InLoop, Presented, Sending, Descriptors, socket, identity
  <1> QED  BY <1>6, <1>7, Zenon DEF ClientInv

(* A new process knows only what is in the file.                           *)
LEMMA RestartClient ==
    ASSUME ClientInv, Restart
    PROVE  ClientInv'
  <1>1. Sever("none") /\ inbox' = <<>>
    BY Zenon DEF Restart, Disconnect
  <1>2. /\ conn' \in {"none", "open", "fin", "reset"}
        /\ requests' \in Seq(Requests) /\ transit' \in Seq(Int) /\ Requested'
        /\ late' \subseteq 1..MaxBatches
    BY <1>1, SeverKeeps
  <1>3. inbox' \in Seq(Pieces)
    <2> HIDE DEF Pieces
    <2> QED  BY <1>1, SMT
  <1>4. recv_buffer' \in Readable
    BY Zenon DEF Restart, Readable
  <1>5. StreamTypes'
    BY <1>2, <1>3, <1>4, Zenon DEF StreamTypes
  <1>6. /\ open_fds' \in 0..MaxFds /\ failed' \in Nat /\ starts' \in 1..MaxStarts
        /\ inherited' \in 0..taken' /\ batch' \in 0..MaxBatches /\ uuid' \in Int
    BY DeliveryAssumption, SMT DEF ClientInv, ControlTypes, DataTypes, Restart, None
  <1>7. (ControlTypes /\ DataTypes)'
    BY <1>2, <1>6, Zenon DEF ClientInv, ControlTypes, Labels, DataTypes, Restart, backend
  <1>8. (InLoop /\ Presented /\ Descriptors)'
    BY SMT DEF Restart, InLoop, Presented, Sending, Descriptors
  <1> QED  BY <1>2, <1>5, <1>7, <1>8, Zenon DEF ClientInv

LEMMA HandleClient ==
    ASSUME ClientInv, Handle
    PROVE  ClientInv'
  <1>1. /\ requests # <<>> /\ requests' = Tail(requests)
        /\ UNCHANGED <<pc, socket, conn, late, recv_buffer, identity, progress,
                       up, failures, runs>>
    BY Zenon DEF Handle
  <1>2. PICK status \in Statuses(Head(requests)),
              split \in {FALSE} \cup (IF "split" \in Environment THEN {TRUE} ELSE {}) :
             LET new == status = "ok" /\ Head(requests).kind = "register"
                 body == IF new THEN issued + 1 ELSE Junk
             IN  /\ issued' = IF new THEN issued + 1 ELSE issued
                 /\ IF Head(requests).kind = "ingest"
                    THEN Decide(Head(requests).batch, status)
                    ELSE UNCHANGED <<accepted, rejected>>
                 /\ inbox' = Append(inbox, [status |-> status,
                                            uuid |-> IF split THEN None ELSE body])
                 /\ transit' = IF split THEN Append(transit, body) ELSE transit
    BY Zenon DEF Handle
  <1> DEFINE new == status = "ok" /\ Head(requests).kind = "register"
             body == IF new THEN issued + 1 ELSE Junk
             piece == [status |-> status, uuid |-> IF split THEN None ELSE body]
  <1>3. /\ inbox \in Seq(Pieces) /\ requests \in Seq(Requests) /\ transit \in Seq(Int)
        /\ issued \in Nat
    BY Zenon DEF ClientInv, StreamTypes, DataTypes
  <1>4. body \in Int /\ issued' \in Nat
    BY <1>2, <1>3, SMT DEF Junk
  <1>5. status \in {"ok", "refused"}
    BY <1>2, Zenon DEF Statuses, Refusals
  <1>6. piece \in Pieces
    <2>1. (IF split THEN None ELSE body) \in Int
      BY <1>4, SMT DEF None
    <2> HIDE DEF body
    <2> QED  BY <1>5, <2>1, Zenon DEF Pieces
  <1>7. inbox' = Append(inbox, piece) /\ (transit' = transit \/ transit' = Append(transit, body))
    BY <1>2, Zenon
  <1>8. inbox' \in Seq(Pieces) /\ transit' \in Seq(Int)
    <2> HIDE DEF Pieces, piece, body
    <2>1. inbox' \in Seq(Pieces)
      BY <1>3, <1>6, <1>7, SMT
    <2>2. transit' = transit \/ transit' = Append(transit, body)
      BY <1>7, Zenon
    <2>3. Append(transit, body) \in Seq(Int)
      BY <1>3, <1>4, SMT
    <2>4. transit' \in Seq(Int)
      BY <1>3, <2>2, <2>3, Zenon
    <2> QED  BY <2>1, <2>4
  <1>9. requests' \in Seq(Requests) /\ Requested'
    <2>1. Requested
      BY Zenon DEF ClientInv
    <2> HIDE DEF Requests
    <2> QED  BY <1>1, <1>3, <2>1, SMT DEF Requested
  <1>10. StreamTypes'
    BY <1>1, <1>8, <1>9, Zenon DEF ClientInv, StreamTypes
  <1>11. Head(requests) \in Requests /\ Head(requests) = requests[1] /\ 1 \in DOMAIN requests
    <2> HIDE DEF Requests
    <2> QED  BY <1>1, <1>3, SMT
  <1>12. Head(requests).kind = "ingest" => Head(requests).batch \in 1..MaxBatches
    <2>1. Head(requests).batch \in 0..MaxBatches
      BY <1>11, SMT DEF Requests
    <2>2. Head(requests).kind = "ingest" => Head(requests).batch # 0
      BY <1>11, Zenon DEF ClientInv, Requested
    <2> HIDE DEF Requests
    <2> QED  BY <2>1, <2>2, DeliveryAssumption, SMT
  <1>13. accepted' \subseteq 1..MaxBatches /\ rejected' \subseteq 1..MaxBatches
    BY <1>2, <1>12, Zenon DEF ClientInv, DataTypes, Decide
  <1>14. (ControlTypes /\ DataTypes)'
    BY <1>1, <1>4, <1>13, Zenon DEF ClientInv, ControlTypes, Labels, DataTypes, socket,
       identity, progress, runs
  <1>15. (InLoop /\ Presented /\ Descriptors)'
    BY <1>1, SMT DEF ClientInv, InLoop, Presented, Sending, Descriptors, socket,
       identity, progress
  <1> QED  BY <1>9, <1>10, <1>14, <1>15, Zenon DEF ClientInv

LEMMA BodyArrivesClient ==
    ASSUME ClientInv, BodyArrives
    PROVE  ClientInv'
  <1> DEFINE piece == [status |-> "body", uuid |-> Head(transit)]
  <1>1. /\ transit # <<>> /\ transit' = Tail(transit) /\ inbox' = Append(inbox, piece)
        /\ UNCHANGED <<pc, socket, conn, requests, late, recv_buffer, identity,
                       progress, backend, runs>>
    BY Zenon DEF BodyArrives
  <1>2. inbox \in Seq(Pieces) /\ transit \in Seq(Int)
    BY Zenon DEF ClientInv, StreamTypes
  <1>3. Head(transit) \in Int /\ transit' \in Seq(Int)
    BY <1>1, <1>2, SMT
  <1>4. piece \in Pieces
    BY <1>3, SMT DEF Pieces
  <1>5. inbox' \in Seq(Pieces)
    <2> HIDE DEF Pieces, piece
    <2> QED  BY <1>1, <1>2, <1>4, SMT
  <1>6. (ControlTypes /\ StreamTypes /\ DataTypes /\ Requested)'
    BY <1>1, <1>3, <1>5, Zenon DEF ClientInv, ControlTypes, Labels, StreamTypes,
       DataTypes, Requested, socket, identity, progress, backend, runs
  <1>7. (InLoop /\ Presented /\ Descriptors)'
    BY <1>1, SMT DEF ClientInv, InLoop, Presented, Sending, Descriptors, socket,
       identity, progress
  <1> QED  BY <1>6, <1>7, Zenon DEF ClientInv

(* The connection, or the backend, without the client.                     *)
LEMMA DisturbanceClient ==
    ASSUME ClientInv, HandleLate \/ Break \/ ResetClosed \/ BackendUp
    PROVE  ClientInv'
  <1>1. UNCHANGED <<pc, socket, inbox, recv_buffer, identity, progress, issued, runs>>
    BY Zenon DEF HandleLate, Break, ResetClosed, BackendUp, Sever, stream, backend
  <1>2. /\ conn' \in {"none", "open", "fin", "reset"}
        /\ requests' \in Seq(Requests) /\ transit' \in Seq(Int) /\ Requested'
        /\ late' \subseteq 1..MaxBatches
    <2>1. CASE Sever("reset") \/ Sever("fin")
      BY <2>1, SeverKeeps
    <2>2. CASE /\ UNCHANGED <<requests, transit>> /\ late' \subseteq late
               /\ conn' = conn \/ conn' = "reset"
      BY <2>2, Zenon DEF ClientInv, StreamTypes, DataTypes, Requested
    <2> QED  BY <2>1, <2>2, Zenon DEF HandleLate, Break, ResetClosed, BackendUp, stream
  <1>3. accepted' \subseteq 1..MaxBatches /\ rejected' \subseteq 1..MaxBatches
    <2>1. CASE HandleLate
      BY <2>1, Zenon DEF ClientInv, DataTypes, HandleLate, Decide
    <2>2. CASE Break \/ ResetClosed \/ BackendUp
      BY <2>2, Zenon DEF ClientInv, DataTypes, Break, ResetClosed, BackendUp, backend
    <2> QED  BY <2>1, <2>2
  <1>4. up' \in BOOLEAN /\ failures' \in 0..MaxFailures
    <2>1. CASE Break
      BY <2>1, DeliveryAssumption, SMT DEF ClientInv, ControlTypes, Break
    <2>2. CASE HandleLate \/ ResetClosed \/ BackendUp
      BY <2>2, Zenon DEF ClientInv, ControlTypes, HandleLate, ResetClosed, BackendUp,
         backend
    <2> QED  BY <2>1, <2>2
  <1>5. (ControlTypes /\ StreamTypes /\ DataTypes)'
    BY <1>1, <1>2, <1>3, <1>4, Zenon DEF ClientInv, ControlTypes, Labels, StreamTypes,
       DataTypes, socket, identity, progress, runs
  <1>6. (InLoop /\ Presented /\ Descriptors)'
    BY <1>1, SMT DEF ClientInv, InLoop, Presented, Sending, Descriptors, socket,
       identity, progress
  <1> QED  BY <1>2, <1>5, <1>6, Zenon DEF ClientInv

LEMMA StutterClient ==
    ASSUME ClientInv, UNCHANGED vars
    PROVE  ClientInv'
  BY Zenon DEF vars, ClientInv, ControlTypes, StreamTypes, DataTypes, Requested, InLoop,
     Presented, Sending, Descriptors, socket, stream, identity, progress, backend, runs

LEMMA InitClient ==
    ASSUME Init
    PROVE  ClientInv
  <1>1. /\ open_fds \in 0..MaxFds /\ failed \in Nat /\ failures \in 0..MaxFailures
        /\ starts \in 1..MaxStarts /\ uuid \in Int /\ uuid_file \in Int /\ issued \in Nat
        /\ batch \in 0..MaxBatches /\ taken \in 0..MaxBatches /\ inherited \in 0..taken
    BY DeliveryAssumption, SMT DEF Init, None
  <1>2. ControlTypes /\ DataTypes
    BY <1>1, Zenon DEF Init, ControlTypes, Labels, DataTypes
  <1>3. StreamTypes /\ Requested
    <2>1. recv_buffer \in Readable
      BY Zenon DEF Init, Readable
    <2>2. /\ inbox \in Seq(Pieces) /\ requests \in Seq(Requests) /\ transit \in Seq(Int)
          /\ Requested
      <3> HIDE DEF Pieces, Requests
      <3> QED  BY SMT DEF Init, Requested
    <2> QED  BY <2>1, <2>2, Zenon DEF Init, StreamTypes
  <1>4. InLoop /\ Presented /\ Descriptors
    BY SMT DEF Init, InLoop, Presented, Sending, Descriptors
  <1> QED  BY <1>2, <1>3, <1>4, Zenon DEF ClientInv

LEMMA NextClient ==
    ASSUME ClientInv, [Next]_vars
    PROVE  ClientInv'
  <1>1. CASE ExchangeStep
    BY <1>1, OpenSocketClient, ConnectClient, ReadUuidClient, SendingClient,
       AuthAnswerClient, RegisterAnswerClient, TruncateUuidClient, WriteUuidClient,
       CloseClient, AnswerFailsClient, AnswerClient, Zenon DEF ExchangeStep
  <1>2. CASE TakeBatch
    BY <1>2, TakeBatchClient
  <1>3. CASE BackendStep \/ HandleLate \/ Break \/ ResetClosed
    BY <1>3, HandleClient, BodyArrivesClient, DisturbanceClient, Zenon DEF BackendStep
  <1>4. CASE Kill \/ Restart
    BY <1>4, DieClient, RestartClient, Zenon DEF Kill
  <1>5. CASE Stopped \/ UNCHANGED vars
    BY <1>5, StutterClient, Zenon DEF Stopped
  <1> QED  BY <1>1, <1>2, <1>3, <1>4, <1>5, Zenon DEF Next, ClientStep

LEMMA ClientInvariance == Spec => []ClientInv
  <1>1. Init => ClientInv
    BY InitClient
  <1>2. ClientInv /\ [Next]_vars => ClientInv'
    BY NextClient
  <1> QED  BY <1>1, <1>2, PTL DEF Spec

(* The state has its type (main.c:68-252), whatever the environment.       *)
THEOREM TypeCorrect == Spec => []TypeOK
  <1>1. ClientInv => TypeOK
    BY ClientTypes
  <1> QED  BY <1>1, ClientInvariance, PTL

(* Reconnecting leaks no descriptor but those of failed connects           *)
(* (main.c:74-78, 223-231), whatever the environment.                      *)
THEOREM NoDescriptorLost == Spec => []DescriptorsAccounted
  <1>1. ClientInv => DescriptorsAccounted
    BY Zenon DEF ClientInv, Descriptors, DescriptorsAccounted
  <1> QED  BY <1>1, ClientInvariance, PTL

(* A restart presents the UUID that was last given, wherever in set_UUID   *)
(* or in the exchanges the process was killed, and whatever the backend    *)
(* answers (security.c:193-217, main.c:115-127, 184-203).                  *)
THEOREM FileHoldsUuid == Spec => []IdentityPersisted
  <1>1. ClientInv => IdentityPersisted
    BY Zenon DEF ClientInv, Presented, Sending, IdentityPersisted
  <1> QED  BY <1>1, ClientInvariance, PTL

-----------------------------------------------------------------------------
(* What holds in an orderly environment.                                   *)
Orderly == Environment \cap {"close", "split", "dirty"} = {}

(* Places from which a request may be on its way.                          *)
Waiting == {"authAnswer", "registerAnswer", "answer", "close", "exited"}

Connection == conn \in {"none", "open", "reset"} /\ transit = <<>>

(* There is one request or one answer at most, and none where none is      *)
(* waited for.                                                             *)
Outstanding ==
    /\ requests = <<>> \/ (requests = <<requests[1]>> /\ inbox = <<>>)
    /\ pc \notin Waiting => requests = <<>> /\ inbox = <<>>

(* The request is the one that was sent last.                              *)
RequestsRight ==
    requests # <<>> =>
        /\ requests[1].kind = "ingest" => requests[1].batch \in 1..taken
        /\ pc = "authAnswer" => requests[1].kind = "auth" /\ requests[1].uuid = uuid
        /\ pc = "registerAnswer" => requests[1].kind = "register"
        /\ pc = "answer" => requests[1].kind = "ingest" /\ requests[1].batch = batch

(* The answer is the one to that request.                                  *)
AnswersRight ==
    inbox # <<>> =>
        /\ inbox = <<inbox[1]>>
        /\ inbox[1].status \in {"ok", "refused"}
        /\ pc = "authAnswer" /\ inbox[1].status = "ok" => uuid \in 1..issued
        /\ pc = "registerAnswer" /\ inbox[1].status = "ok" => inbox[1].uuid \in 1..issued
        /\ pc = "answer" => batch \in Answered

(* Of the batches this process took, all but the one in hand are answered. *)
Batches ==
    /\ taken \in Nat /\ inherited \in Nat /\ inherited <= taken
    /\ batch = 0 \/ batch = taken
    /\ Answered \subseteq 1..taken /\ late \subseteq 1..taken
    /\ \A b \in 1..taken : b > inherited => b = batch \/ b \in Answered

(* Where there is a batch in hand, and where it was answered already.      *)
AtHand ==
    /\ InLoop
    /\ pc \in {"register", "registerAnswer", "truncate", "write"} /\ batch # 0 =>
           batch \in Answered

Identity ==
    /\ issued \in Nat
    /\ Sending \/ pc \in {"truncate", "write"} => uuid \in 1..issued

Inv ==
    /\ pc \in Labels
    /\ Connection
    /\ Outstanding
    /\ RequestsRight
    /\ AnswersRight
    /\ Batches
    /\ AtHand
    /\ Identity
    /\ CompletedAreAnswered

-----------------------------------------------------------------------------
(* What the client reads.  A buffer that nothing was written to crashes    *)
(* atoi; an answer has the status the backend gave it.                     *)
LEMMA UnsetCrashes ==
    ASSUME Orderly
    PROVE  Codes(Unset) = {"crash"}
  <1>1. "dirty" \notin Environment
    BY DEF Orderly
  <1> QED  BY <1>1, Zenon DEF Codes

LEMMA ReceivedIs ==
    ASSUME Inv, inbox # <<>>
    PROVE  Received = [status |-> inbox[1].status, uuid |-> inbox[1].uuid]
  <1>1. inbox = <<inbox[1]>> /\ inbox[1].status \in {"ok", "refused"}
    BY Zenon DEF Inv, AnswersRight
  <1>2. ~(Len(inbox) > 1)
    <2>1. PICK a : inbox = <<a>>
      BY <1>1
    <2> QED  BY <2>1, SMT
  <1>3. inbox[1].status # "body"
    BY <1>1
  <1> QED  BY <1>2, <1>3, Zenon DEF Received

LEMMA CodeReceived ==
    ASSUME Inv, inbox # <<>>
    PROVE  Codes(Received) = {inbox[1].status}
  <1>1. Received.status = inbox[1].status
    BY ReceivedIs
  <1>2. inbox[1].status \in {"ok", "refused"}
    BY Zenon DEF Inv, AnswersRight
  <1>3. Unset.status = "unset" /\ Garbled.status = "garbled"
    BY DEF Unset, Garbled
  <1>4. Received # Unset /\ Received # Garbled
    BY <1>1, <1>2, <1>3
  <1> QED  BY <1>1, <1>4, Zenon DEF Codes

(* The batches that a connection leaves behind were taken.                 *)
LEMMA SeverLate ==
    ASSUME Inv, NEW state, Sever(state)
    PROVE  late' \subseteq 1..taken
  <1>1. late \subseteq 1..taken
    BY DEF Inv, Batches
  <1>2. ASSUME NEW q \in Range(requests), q.kind = "ingest"
        PROVE  q.batch \in 1..taken
    <2>1. PICK i \in DOMAIN requests : q = requests[i]
      BY <1>2 DEF Range
    <2>2. requests # <<>>
      BY <2>1, SMT
    <2>3. requests = <<requests[1]>>
      BY <2>2, Zenon DEF Inv, Outstanding
    <2>4. i = 1
      BY <2>1, <2>3, SMT
    <2> QED  BY <1>2, <2>1, <2>2, <2>4, Zenon DEF Inv, RequestsRight
  <1>3. late' = late \cup {r.batch : r \in {q \in Range(requests) : q.kind = "ingest"}}
    BY DEF Sever
  <1> QED  BY <1>1, <1>2, <1>3, Zenon

(* The answer to client_auth is one that was read, or ends the process.    *)
LEMMA AuthAnswerReads ==
    ASSUME Inv, AuthAnswer, Orderly
    PROVE  /\ pc = "authAnswer"
           /\ UNCHANGED <<conn, requests, late, transit, socket, recv_buffer, identity,
                          progress, backend, runs>>
           /\ \/ pc' = "exited" /\ (inbox' = inbox \/ inbox' = <<>>)
              \/ /\ inbox # <<>> /\ inbox' = <<>>
                 /\ \/ inbox[1].status = "ok" /\ pc' = "window"
                    \/ inbox[1].status = "refused" /\ pc' = "register"
  <1>1. PICK code \in Codes(IF inbox # <<>> THEN Received ELSE Unset) :
            /\ RecvBytes \/ RecvZero \/ RecvFails
            /\ pc' = CASE code = "ok" -> "window"
                       [] code = "refused" -> "register"
                       [] code = "crash" -> "exited"
    BY Zenon DEF AuthAnswer
  <1>2. inbox' = inbox \/ inbox' = <<>>
    BY <1>1, Zenon DEF RecvBytes, RecvZero, RecvFails, stream
  <1>3. /\ pc = "authAnswer"
        /\ UNCHANGED <<conn, requests, late, transit, socket, recv_buffer, identity,
                       progress, backend, runs>>
    BY <1>1, Zenon DEF AuthAnswer, RecvBytes, RecvZero, RecvFails, stream
  <1>4. CASE inbox = <<>>
    <2>1. code = "crash"
      BY <1>1, <1>4, UnsetCrashes
    <2>2. pc' = "exited"
      BY <1>1, <2>1
    <2> QED  BY <1>2, <1>3, <2>2, Zenon
  <1>5. CASE inbox # <<>>
    <2>1. code = inbox[1].status /\ code \in {"ok", "refused"}
      BY <1>1, <1>5, CodeReceived, Zenon DEF Inv, AnswersRight
    <2>2. inbox' = <<>>
      BY <1>1, <1>5, Zenon DEF RecvBytes, RecvZero, RecvFails
    <2>3. (code = "ok" => pc' = "window") /\ (code = "refused" => pc' = "register")
      BY <1>1
    <2> QED  BY <1>5, <1>3, <2>1, <2>2, <2>3, Zenon
  <1> QED  BY <1>4, <1>5

(* So is the answer to a registration, whose UUID is then in use.          *)
LEMMA RegisterAnswerReads ==
    ASSUME Inv, RegisterAnswer, Orderly
    PROVE  \/ pc' = "exited" /\ (inbox' = inbox \/ inbox' = <<>>)
           \/ /\ inbox # <<>> /\ inbox' = <<>> /\ inbox[1].status = "ok"
              /\ pc' = "truncate"
              /\ uuid' = (IF inbox[1].uuid = None THEN Junk ELSE inbox[1].uuid)
  <1> DEFINE answer == IF inbox # <<>> THEN Received ELSE Unset
  <1>1. PICK code \in Codes(answer), id \in Uuids(answer) :
            /\ RecvBytes \/ RecvZero \/ RecvFails
            /\ IF code = "ok" THEN uuid' = id /\ pc' = "truncate"
               ELSE pc' = "exited" /\ UNCHANGED uuid
    BY Zenon DEF RegisterAnswer
  <1>2. inbox' = inbox \/ inbox' = <<>>
    BY <1>1, Zenon DEF RecvBytes, RecvZero, RecvFails, stream
  <1>3. CASE code # "ok"
    BY <1>1, <1>2, <1>3, Zenon
  <1>4. CASE code = "ok"
    <2>1. inbox # <<>>
      BY <1>1, <1>4, UnsetCrashes
    <2>2. inbox' = <<>>
      BY <1>1, <2>1, Zenon DEF RecvBytes, RecvZero, RecvFails
    <2>3. inbox[1].status = "ok"
      BY <1>1, <1>4, <2>1, CodeReceived
    <2>4. answer.uuid = inbox[1].uuid
      BY <2>1, ReceivedIs
    <2>5. id = IF inbox[1].uuid = None THEN Junk ELSE inbox[1].uuid
      <3>1. "dirty" \notin Environment
        BY DEF Orderly
      <3> HIDE DEF answer
      <3> QED  BY <1>1, <2>4, <3>1, Zenon DEF Uuids
    <2> QED  BY <1>1, <1>4, <2>1, <2>2, <2>3, <2>5, Zenon
  <1> QED  BY <1>3, <1>4

(* A request is sent on a connection that carries nothing else.            *)
LEMMA SendsOne ==
    ASSUME Inv, pc \notin Waiting, NEW kind, Send(kind)
    PROVE  \/ requests' = <<>>
           \/ requests' = <<[kind |-> kind, batch |-> batch, uuid |-> uuid]>>
  <1>1. requests = <<>>
    BY Zenon DEF Inv, Outstanding
  <1> DEFINE request == [kind |-> kind, batch |-> batch, uuid |-> uuid]
  <1>2. Append(<<>>, request) = <<request>>
    <2> HIDE DEF request
    <2> QED  BY SMT
  <1> QED  BY <1>1, <1>2, Zenon DEF Send

(* The answer to a batch is read when the batch was answered.              *)
LEMMA AnswerReads ==
    ASSUME Inv, Answer, Orderly
    PROVE  /\ pc = "answer" /\ batch \in Answered /\ inbox' = <<>>
           /\ UNCHANGED <<conn, requests, late, transit>>
           /\ \/ pc' = "window" /\ batch' = 0 /\ completed' = completed \cup {batch}
              \/ pc' \in {"register", "exited"} /\ UNCHANGED <<completed, batch>>
  <1>1. pc = "answer"
    BY DEF Answer
  <1>2. ~RecvZero
    BY Zenon DEF Inv, Connection, RecvZero
  <1>3. RecvBytes
    BY <1>2, Zenon DEF Answer
  <1>4. /\ inbox # <<>> /\ inbox' = <<>>
        /\ UNCHANGED <<conn, requests, late, transit>>
    BY <1>3, Zenon DEF RecvBytes
  <1>5. batch \in Answered
    BY <1>1, <1>4, Zenon DEF Inv, AnswersRight
  <1>6. \/ pc' = "window" /\ batch' = 0 /\ completed' = completed \cup {batch}
        \/ pc' \in {"register", "exited"} /\ UNCHANGED <<completed, batch>>
    BY Zenon DEF Answer
  <1> QED  BY <1>1, <1>4, <1>5, <1>6, Zenon

(* A request is answered in one piece, and what it asked for is done.      *)
LEMMA HandleDoes ==
    ASSUME Inv, Handle, Orderly
    PROVE  /\ requests = <<requests[1]>> /\ inbox = <<>> /\ conn = "open"
           /\ requests' = <<>> /\ transit' = transit
           /\ \E status \in Statuses(requests[1]) :
                 /\ issued' = IF status = "ok" /\ requests[1].kind = "register"
                              THEN issued + 1 ELSE issued
                 /\ IF requests[1].kind = "ingest"
                    THEN Decide(requests[1].batch, status)
                    ELSE UNCHANGED <<accepted, rejected>>
                 /\ inbox' = <<[status |-> status,
                                uuid |-> IF status = "ok" /\ requests[1].kind = "register"
                                         THEN issued + 1 ELSE Junk]>>
  <1>1. requests # <<>> /\ conn = "open"
    BY DEF Handle
  <1>2. requests = <<requests[1]>> /\ inbox = <<>>
    BY <1>1, Zenon DEF Inv, Outstanding
  <1>3. PICK a : requests = <<a>>
    BY <1>2
  <1>4. Head(requests) = requests[1] /\ Tail(requests) = <<>>
    BY <1>3, SMT
  <1>5. "split" \notin Environment
    BY DEF Orderly
  <1>6. PICK status \in Statuses(Head(requests)),
              split \in {FALSE} \cup (IF "split" \in Environment THEN {TRUE} ELSE {}) :
             LET new == status = "ok" /\ Head(requests).kind = "register"
                 body == IF new THEN issued + 1 ELSE Junk
             IN  /\ issued' = IF new THEN issued + 1 ELSE issued
                 /\ IF Head(requests).kind = "ingest"
                    THEN Decide(Head(requests).batch, status)
                    ELSE UNCHANGED <<accepted, rejected>>
                 /\ inbox' = Append(inbox, [status |-> status,
                                            uuid |-> IF split THEN None ELSE body])
                 /\ transit' = IF split THEN Append(transit, body) ELSE transit
    BY DEF Handle
  <1>7. split = FALSE
    BY <1>5
  <1> DEFINE body == IF status = "ok" /\ requests[1].kind = "register" THEN issued + 1 ELSE Junk
             answer == [status |-> status, uuid |-> body]
  <1>8. /\ issued' = IF status = "ok" /\ requests[1].kind = "register"
                     THEN issued + 1 ELSE issued
        /\ IF requests[1].kind = "ingest"
           THEN Decide(requests[1].batch, status)
           ELSE UNCHANGED <<accepted, rejected>>
        /\ transit' = transit
    BY <1>4, <1>6, <1>7, Zenon
  <1>9. inbox' = Append(<<>>, answer)
    BY <1>2, <1>4, <1>6, <1>7, Zenon
  <1>10. Append(<<>>, answer) = <<answer>>
    <2> HIDE DEF answer
    <2> QED  BY SMT
  <1>11. requests' = <<>>
    BY <1>4 DEF Handle
  <1> QED  BY <1>1, <1>2, <1>4, <1>6, <1>8, <1>9, <1>10, <1>11, Zenon

(* A batch once answered stays so.                                         *)
LEMMA DecideKeeps ==
    ASSUME NEW b, NEW status, Decide(b, status)
    PROVE  Answered' = Answered \cup {b}
  BY Zenon DEF Decide, Answered

-----------------------------------------------------------------------------
(* Every action preserves the invariant: what its step has to say of the   *)
(* parts it is about, and the rest, which it leaves as they were.          *)
LEMMA OpenSocketInv ==
    ASSUME Inv, OpenSocket, Orderly
    PROVE  Inv'
  BY SMT DEF Inv, OpenSocket, stream, identity, progress, backend, runs,
     Labels, Connection, Outstanding, Waiting, AnswersRight, RequestsRight, Batches,
     AtHand, InLoop, InLoop, Answered, CompletedAreAnswered, Identity, Sending

LEMMA ConnectInv ==
    ASSUME Inv, Connect, Orderly
    PROVE  Inv'
  <1>1. ((pc \in Labels) /\ Connection /\ Outstanding /\ RequestsRight
          /\ AnswersRight /\ Batches /\ CompletedAreAnswered)'
    BY SMT DEF Inv, Connect, progress, backend, runs, Labels, Connection,
       Outstanding, Waiting, AnswersRight, RequestsRight, Batches, Answered,
       CompletedAreAnswered
  <1>2. AtHand'
    BY SMT DEF Inv, Connect, progress, AtHand, InLoop
  <1>3. Identity'
    BY SMT DEF Inv, Connect, identity, backend, Identity, Sending
  <1> QED  BY <1>1, <1>2, <1>3 DEF Inv

LEMMA ConnectFailsInv ==
    ASSUME Inv, ConnectFails, Orderly
    PROVE  Inv'
  BY SMT DEF Inv, ConnectFails, stream, identity, progress, backend, runs,
     Labels, Connection, Outstanding, Waiting, AnswersRight, RequestsRight, Batches,
     AtHand, InLoop, InLoop, Answered, CompletedAreAnswered, Identity, Sending

LEMMA ReadUuidInv ==
    ASSUME Inv, ReadUuid, Orderly
    PROVE  Inv'
  <1>1. ((pc \in Labels) /\ Connection /\ Outstanding /\ RequestsRight /\ AnswersRight
          /\ Batches /\ AtHand /\ CompletedAreAnswered)'
    BY SMT DEF Inv, ReadUuid, socket, stream, progress, backend, runs, Labels,
       Connection, Outstanding, Waiting, AnswersRight, RequestsRight, Batches,
       AtHand, InLoop, Answered, CompletedAreAnswered
  <1>2. Identity'
    BY SMT DEF Inv, ReadUuid, backend, Identity, Sending
  <1> QED  BY <1>1, <1>2 DEF Inv

LEMMA SendAuthInv ==
    ASSUME Inv, SendAuth, Orderly
    PROVE  Inv'
  <1>1. late' \subseteq 1..taken
    BY SeverLate, Zenon DEF Inv, Batches, stream, SendAuth, Send, Die, Disconnect
  <1>2. requests' = <<>> \/ requests' = <<[kind |-> "auth", batch |-> batch, uuid |-> uuid]>>
    BY SendsOne, SMT DEF Waiting, SendAuth, Die, Disconnect, Sever
  <1>3. ((pc \in Labels) /\ Connection /\ AnswersRight /\ AtHand
          /\ Identity /\ CompletedAreAnswered)'
    BY SMT DEF Inv, SendAuth, Send, Die, Disconnect, Sever, socket, identity,
       progress, backend, Labels, Connection, AnswersRight, Answered,
       Outstanding, AtHand, InLoop, Waiting, Identity, Sending,
       CompletedAreAnswered
  <1>4. Outstanding'
    BY <1>2, SMT DEF Inv, SendAuth, Send, Die, Disconnect, Outstanding, Waiting
  <1>5. RequestsRight'
    BY <1>2, SMT DEF Inv, SendAuth, Die, identity, RequestsRight
  <1>6. Batches'
    BY <1>1, SMT DEF Inv, SendAuth, Die, progress, backend, runs, Batches,
       Answered
  <1> QED  BY <1>3, <1>4, <1>5, <1>6 DEF Inv

LEMMA AuthAnswerInv ==
    ASSUME Inv, AuthAnswer, Orderly
    PROVE  Inv'
  <1>1. /\ pc = "authAnswer"
        /\ UNCHANGED <<conn, requests, late, transit, socket, recv_buffer, identity,
                       progress, backend, runs>>
        /\ \/ pc' = "exited" /\ (inbox' = inbox \/ inbox' = <<>>)
           \/ /\ inbox # <<>> /\ inbox' = <<>>
              /\ \/ inbox[1].status = "ok" /\ pc' = "window"
                 \/ inbox[1].status = "refused" /\ pc' = "register"
    BY AuthAnswerReads, Zenon
  <1>2. ((pc \in Labels) /\ Connection /\ RequestsRight /\ AnswersRight
          /\ Batches /\ CompletedAreAnswered)'
    BY <1>1, SMT DEF Inv, socket, progress, backend, runs, Labels, Connection,
       RequestsRight, Batches, AnswersRight, Answered, CompletedAreAnswered
  <1>3. Outstanding'
    BY <1>1, SMT DEF Inv, Outstanding, Waiting
  <1>4. AtHand'
    BY <1>1, SMT DEF Inv, progress, AtHand, InLoop
  <1>5. Identity'
    BY <1>1, SMT DEF Inv, identity, backend, Identity, Sending, AnswersRight
  <1> QED  BY <1>2, <1>3, <1>4, <1>5 DEF Inv

LEMMA SendRegisterInv ==
    ASSUME Inv, SendRegister, Orderly
    PROVE  Inv'
  <1>1. late' \subseteq 1..taken
    BY SeverLate, Zenon DEF Inv, Batches, stream, SendRegister, Send, Die, Disconnect
  <1>2. requests' = <<>> \/ requests' = <<[kind |-> "register", batch |-> batch, uuid |-> uuid]>>
    BY SendsOne, SMT DEF Waiting, SendRegister, Die, Disconnect, Sever
  <1>3. ((pc \in Labels) /\ Connection /\ AnswersRight /\ AtHand
          /\ Identity /\ CompletedAreAnswered)'
    BY SMT DEF Inv, SendRegister, Send, Die, Disconnect, Sever, socket, progress,
       backend, Labels, Connection, AnswersRight, Answered, Outstanding, AtHand, InLoop,
       Waiting, Identity, Sending, CompletedAreAnswered
  <1>4. Outstanding'
    BY <1>2, SMT DEF Inv, SendRegister, Send, Die, Disconnect, Outstanding,
       Waiting
  <1>5. RequestsRight'
    BY <1>2, SMT DEF Inv, SendRegister, Die, RequestsRight
  <1>6. Batches'
    BY <1>1, SMT DEF Inv, SendRegister, Die, progress, backend, runs, Batches,
       Answered
  <1> QED  BY <1>3, <1>4, <1>5, <1>6 DEF Inv

LEMMA RegisterAnswerInv ==
    ASSUME Inv, RegisterAnswer, Orderly
    PROVE  Inv'
  <1>1. \/ pc' = "exited" /\ (inbox' = inbox \/ inbox' = <<>>)
        \/ /\ inbox # <<>> /\ inbox' = <<>> /\ inbox[1].status = "ok"
           /\ pc' = "truncate"
           /\ uuid' = (IF inbox[1].uuid = None THEN Junk ELSE inbox[1].uuid)
    BY RegisterAnswerReads, Zenon
  <1>2. ((pc \in Labels) /\ Connection /\ RequestsRight /\ AnswersRight
          /\ Batches /\ CompletedAreAnswered)'
    BY SMT DEF Inv, RegisterAnswer, RecvBytes, RecvZero, RecvFails, socket,
       stream, progress, backend, runs, Labels, Connection, RequestsRight,
       Batches, AnswersRight, Answered, CompletedAreAnswered
  <1>3. Outstanding'
    BY <1>1, SMT DEF Inv, RegisterAnswer, RecvBytes, RecvZero, RecvFails, stream,
       Outstanding, Waiting
  <1>4. AtHand'
    BY SMT DEF Inv, RegisterAnswer, progress, backend, AtHand, InLoop, Answered
  <1>5. Identity'
    BY <1>1, SMT DEF Inv, RegisterAnswer, backend, Identity, Sending,
       AnswersRight, None
  <1> QED  BY <1>2, <1>3, <1>4, <1>5 DEF Inv

LEMMA TruncateUuidInv ==
    ASSUME Inv, TruncateUuid, Orderly
    PROVE  Inv'
  <1>1. ((pc \in Labels) /\ Connection /\ Outstanding /\ RequestsRight /\ AnswersRight
          /\ Batches /\ AtHand /\ CompletedAreAnswered)'
    BY SMT DEF Inv, TruncateUuid, socket, stream, progress, backend, runs,
       Labels, Connection, Outstanding, Waiting, AnswersRight, RequestsRight,
       Batches, AtHand, InLoop, Answered, CompletedAreAnswered
  <1>2. Identity'
    BY SMT DEF Inv, TruncateUuid, backend, Identity
  <1> QED  BY <1>1, <1>2 DEF Inv

LEMMA WriteUuidInv ==
    ASSUME Inv, WriteUuid, Orderly
    PROVE  Inv'
  <1>1. ((pc \in Labels) /\ Connection /\ Outstanding /\ RequestsRight
          /\ AnswersRight /\ AtHand)'
    BY SMT DEF Inv, WriteUuid, socket, stream, Labels, Connection, Outstanding,
       Waiting, AnswersRight, RequestsRight, AtHand, InLoop
  <1>2. Batches'
    BY SMT DEF Inv, WriteUuid, stream, backend, runs, Batches, Answered, AtHand, InLoop
  <1>3. Identity'
    BY SMT DEF Inv, WriteUuid, backend, Identity
  <1>4. CompletedAreAnswered'
    BY SMT DEF Inv, WriteUuid, backend, CompletedAreAnswered, Answered, AtHand, InLoop
  <1> QED  BY <1>1, <1>2, <1>3, <1>4 DEF Inv

LEMMA TakeBatchInv ==
    ASSUME Inv, TakeBatch, Orderly
    PROVE  Inv'
  <1>1. ((pc \in Labels) /\ Connection /\ Outstanding /\ RequestsRight
          /\ AnswersRight /\ CompletedAreAnswered)'
    BY SMT DEF Inv, TakeBatch, socket, stream, backend, Labels, Connection,
       Outstanding, Waiting, AnswersRight, RequestsRight, Answered,
       CompletedAreAnswered
  <1>2. Batches'
    BY SMT DEF Inv, TakeBatch, stream, backend, runs, Batches, Answered, AtHand, InLoop
  <1>3. AtHand'
    BY SMT DEF Inv, TakeBatch, AtHand, InLoop, Batches
  <1>4. Identity'
    BY SMT DEF Inv, TakeBatch, identity, backend, Identity, Sending
  <1> QED  BY <1>1, <1>2, <1>3, <1>4 DEF Inv

LEMMA PostInv ==
    ASSUME Inv, Post, Orderly
    PROVE  Inv'
  <1>1. requests' = <<>> \/ requests' = <<[kind |-> "ingest", batch |-> batch, uuid |-> uuid]>>
    BY SendsOne, SMT DEF Waiting, Post, stream, Inv, Outstanding
  <1>2. ((pc \in Labels) /\ Connection /\ AnswersRight /\ Batches
          /\ AtHand /\ Identity /\ CompletedAreAnswered)'
    BY SMT DEF Inv, Post, Send, socket, stream, identity, progress, backend,
       runs, Labels, Connection, AnswersRight, Answered, Outstanding, AtHand, InLoop,
       Waiting, Batches, CompletedAreAnswered, Identity, Sending
  <1>3. Outstanding'
    BY SMT DEF Inv, Post, Send, stream, Outstanding, Waiting
  <1>4. RequestsRight'
    BY <1>1, SMT DEF Inv, Post, progress, RequestsRight, Batches, AtHand, InLoop
  <1> QED  BY <1>2, <1>3, <1>4 DEF Inv

LEMMA CloseInv ==
    ASSUME Inv, Close, Orderly
    PROVE  Inv'
  <1>1. late' \subseteq 1..taken
    BY SeverLate, Zenon DEF Inv, Batches, stream, Close, Disconnect
  <1>2. ((pc \in Labels) /\ Connection /\ RequestsRight /\ AnswersRight
          /\ AtHand /\ Identity /\ CompletedAreAnswered)'
    BY SMT DEF Inv, Close, Disconnect, Sever, identity, progress, backend,
       Labels, Connection, RequestsRight, AtHand, InLoop, AnswersRight, Answered,
       Identity, Sending, CompletedAreAnswered
  <1>3. Outstanding'
    BY SMT DEF Inv, Close, Disconnect, Sever, Outstanding
  <1>4. Batches'
    BY <1>1, SMT DEF Inv, Close, progress, backend, runs, Batches, Answered
  <1> QED  BY <1>2, <1>3, <1>4 DEF Inv

LEMMA AnswerFailsInv ==
    ASSUME Inv, AnswerFails, Orderly
    PROVE  Inv'
  <1>1. ((pc \in Labels) /\ Connection /\ Outstanding /\ RequestsRight /\ AnswersRight
          /\ Batches /\ AtHand /\ Identity /\ CompletedAreAnswered)'
    BY SMT DEF Inv, AnswerFails, RecvFails, socket, stream, identity, progress,
       backend, runs, Labels, Connection, Outstanding, Waiting, AnswersRight,
       RequestsRight, Batches, AtHand, InLoop, Answered, CompletedAreAnswered, Identity,
       Sending
  <1> QED  BY <1>1 DEF Inv

LEMMA AnswerInv ==
    ASSUME Inv, Answer, Orderly
    PROVE  Inv'
  <1>1. ((pc \in Labels) /\ Connection /\ RequestsRight
          /\ AnswersRight /\ Identity)'
    BY AnswerReads, SMT DEF Inv, Answer, socket, identity, backend, Labels,
       Connection, RequestsRight, AnswersRight, Identity, Sending
  <1>2. Outstanding'
    BY SMT DEF Inv, Answer, RecvBytes, RecvZero, Outstanding, Connection
  <1>3. Batches'
    BY AnswerReads, SMT DEF Inv, Answer, backend, runs, Batches, Answered,
       AnswersRight
  <1>4. AtHand'
    BY AnswerReads, SMT DEF Inv, Answer, backend, AtHand, InLoop, Answered
  <1>5. CompletedAreAnswered'
    BY AnswerReads, SMT DEF Inv, Answer, backend, CompletedAreAnswered, Answered
  <1> QED  BY <1>1, <1>2, <1>3, <1>4, <1>5 DEF Inv

LEMMA KillInv ==
    ASSUME Inv, Kill, Orderly
    PROVE  Inv'
  <1>1. late' \subseteq 1..taken
    BY SeverLate, Zenon DEF Inv, Batches, stream, Kill, Die, Disconnect
  <1>2. ((pc \in Labels) /\ Connection /\ RequestsRight /\ AnswersRight
          /\ AtHand /\ Identity /\ CompletedAreAnswered)'
    BY SMT DEF Inv, Kill, Die, Disconnect, Sever, socket, progress, backend,
       Labels, Connection, RequestsRight, AtHand, InLoop, AnswersRight, Answered,
       Identity, Sending, CompletedAreAnswered
  <1>3. Outstanding'
    BY SMT DEF Inv, Kill, Die, Disconnect, Sever, Outstanding
  <1>4. Batches'
    BY <1>1, SMT DEF Inv, Kill, Die, progress, backend, runs, Batches, Answered
  <1> QED  BY <1>2, <1>3, <1>4 DEF Inv

LEMMA RestartInv ==
    ASSUME Inv, Restart, Orderly
    PROVE  Inv'
  <1>1. late' \subseteq 1..taken
    BY SeverLate, Zenon DEF Inv, Batches, stream, Restart, Disconnect
  <1>2. ((pc \in Labels) /\ Connection /\ RequestsRight /\ AnswersRight
          /\ AtHand /\ Identity /\ CompletedAreAnswered)'
    BY SMT DEF Inv, Restart, Disconnect, Sever, backend, Labels, Connection,
       RequestsRight, AtHand, InLoop, AnswersRight, Answered, Identity, Sending,
       CompletedAreAnswered
  <1>3. Outstanding'
    BY SMT DEF Inv, Restart, Disconnect, Sever, Outstanding
  <1>4. Batches'
    BY <1>1, SMT DEF Inv, Restart, backend, Batches, Answered
  <1> QED  BY <1>2, <1>3, <1>4 DEF Inv

LEMMA HandleInv ==
    ASSUME Inv, Handle, Orderly
    PROVE  Inv'
  <1>1. /\ requests = <<requests[1]>> /\ inbox = <<>> /\ conn = "open"
        /\ requests' = <<>> /\ transit' = transit
    BY HandleDoes, Zenon
  <1>2. UNCHANGED <<pc, socket, conn, late, recv_buffer, uuid, uuid_file, batch, taken,
                    completed, up, failures, runs>>
    BY DEF Handle, identity, progress
  <1>3. PICK status \in Statuses(requests[1]) :
            /\ issued' = IF status = "ok" /\ requests[1].kind = "register"
                         THEN issued + 1 ELSE issued
            /\ IF requests[1].kind = "ingest"
               THEN Decide(requests[1].batch, status)
               ELSE UNCHANGED <<accepted, rejected>>
            /\ inbox' = <<[status |-> status,
                           uuid |-> IF status = "ok" /\ requests[1].kind = "register"
                                    THEN issued + 1 ELSE Junk]>>
    BY HandleDoes, Zenon
  <1>4. /\ status \in {"ok", "refused"}
        /\ status = "ok" => requests[1].kind = "register" \/ requests[1].uuid \in 1..issued
    BY <1>3, Zenon DEF Statuses, Refusals
  <1>5. requests # <<>>
    BY <1>1, SMT
  <1>6. ((pc \in Labels) /\ RequestsRight /\ AtHand)'
    BY SMT DEF Inv, Handle, Decide, socket, progress, RequestsRight, Outstanding,
       AtHand, InLoop, Answered
  <1>7. Connection'
    BY <1>1, <1>2, Zenon DEF Inv, Connection
  <1>8. Outstanding'
    BY SMT DEF Inv, Handle, Outstanding
  <1>9. AnswersRight'
    <2>1. /\ inbox'[1].status = status
          /\ inbox'[1].uuid = IF status = "ok" /\ requests[1].kind = "register"
                              THEN issued + 1 ELSE Junk
          /\ inbox' = <<inbox'[1]>>
      BY <1>3
    <2>2. ASSUME pc = "authAnswer", status = "ok"
          PROVE  uuid' \in 1..issued'
      <3>1. requests[1].kind = "auth" /\ requests[1].uuid = uuid
        BY <1>5, <2>2, Zenon DEF Inv, RequestsRight
      <3> QED  BY <1>2, <1>3, <1>4, <2>2, <3>1, Zenon
    <2>3. ASSUME pc = "registerAnswer", status = "ok"
          PROVE  inbox'[1].uuid \in 1..issued'
      <3>1. requests[1].kind = "register"
        BY <1>5, <2>3, Zenon DEF Inv, RequestsRight
      <3>2. issued' = issued + 1 /\ inbox'[1].uuid = issued + 1
        BY <1>3, <2>1, <2>3, <3>1, Zenon
      <3> QED  BY <3>2, SMT DEF Inv, Identity
    <2>4. ASSUME pc = "answer"
          PROVE  batch' \in Answered'
      <3>1. requests[1].kind = "ingest" /\ requests[1].batch = batch
        BY <1>5, <2>4, Zenon DEF Inv, RequestsRight
      <3>2. Decide(batch, status)
        BY <1>3, <3>1, Zenon
      <3> QED  BY <1>2, <3>2, DecideKeeps, Zenon
    <2> QED  BY <1>2, <1>4, <2>1, <2>2, <2>3, <2>4, Zenon DEF AnswersRight
  <1>10. Batches'
    BY SMT DEF Inv, Handle, Decide, progress, runs, Batches, Answered,
       RequestsRight
  <1>11. Identity'
    BY SMT DEF Inv, Handle, identity, progress, Identity, Sending
  <1>12. CompletedAreAnswered'
    BY SMT DEF Inv, Handle, Decide, progress, CompletedAreAnswered, Answered
  <1> QED  BY <1>6, <1>7, <1>8, <1>9, <1>10, <1>11, <1>12 DEF Inv

LEMMA BodyArrivesInv ==
    ASSUME Inv, BodyArrives, Orderly
    PROVE  Inv'
  <1>1. ((pc \in Labels) /\ Connection /\ Outstanding /\ RequestsRight /\ AnswersRight
          /\ Batches /\ AtHand /\ Identity /\ CompletedAreAnswered)'
    BY SMT DEF Inv, BodyArrives, Connection
  <1> QED  BY <1>1 DEF Inv

LEMMA HandleLateInv ==
    ASSUME Inv, HandleLate, Orderly
    PROVE  Inv'
  <1>1. ((pc \in Labels) /\ Connection /\ Outstanding
          /\ RequestsRight /\ Identity)'
    BY SMT DEF Inv, HandleLate, socket, identity, progress, Connection,
       Outstanding, RequestsRight, Identity, Sending
  <1>2. AnswersRight'
    BY SMT DEF Inv, HandleLate, Decide, identity, progress, AnswersRight,
       Answered
  <1>3. Batches'
    BY SMT DEF Inv, HandleLate, Decide, progress, runs, Batches, Answered
  <1>4. AtHand'
    BY SMT DEF Inv, HandleLate, Decide, progress, AtHand, InLoop, Answered
  <1>5. CompletedAreAnswered'
    BY SMT DEF Inv, HandleLate, Decide, progress, CompletedAreAnswered, Answered
  <1> QED  BY <1>1, <1>2, <1>3, <1>4, <1>5 DEF Inv

LEMMA BreakInv ==
    ASSUME Inv, Break, Orderly
    PROVE  Inv'
  <1>1. late' \subseteq 1..taken
    BY SeverLate, Zenon DEF Inv, Batches, stream, Break
  <1>2. ((pc \in Labels) /\ RequestsRight /\ AnswersRight /\ AtHand
          /\ Identity /\ CompletedAreAnswered)'
    BY SMT DEF Inv, Break, Sever, socket, stream, identity, progress,
       RequestsRight, AtHand, InLoop, AnswersRight, Answered, Identity, Sending, CompletedAreAnswered
  <1>3. Connection'
    BY SMT DEF Inv, Orderly, Break, Sever, stream, Connection
  <1>4. Outstanding'
    BY SMT DEF Inv, Break, Sever, stream, Outstanding
  <1>5. Batches'
    BY <1>1, SMT DEF Inv, Break, progress, runs, Batches, Answered
  <1> QED  BY <1>2, <1>3, <1>4, <1>5 DEF Inv

LEMMA ResetClosedInv ==
    ASSUME Inv, ResetClosed, Orderly
    PROVE  Inv'
  <1>1. ((pc \in Labels) /\ Connection /\ Outstanding /\ RequestsRight /\ AnswersRight
          /\ Batches /\ AtHand /\ Identity /\ CompletedAreAnswered)'
    BY SMT DEF Inv, ResetClosed, Connection
  <1> QED  BY <1>1 DEF Inv

LEMMA BackendUpInv ==
    ASSUME Inv, BackendUp, Orderly
    PROVE  Inv'
  <1>1. ((pc \in Labels) /\ Connection /\ Outstanding /\ RequestsRight /\ AnswersRight
          /\ Batches /\ AtHand /\ Identity /\ CompletedAreAnswered)'
    BY SMT DEF Inv, BackendUp, socket, stream, identity, progress, runs,
       Connection, Outstanding, AnswersRight, RequestsRight, Batches, AtHand, InLoop,
       Answered, CompletedAreAnswered, Identity, Sending
  <1> QED  BY <1>1 DEF Inv

-----------------------------------------------------------------------------
(* The invariant.                                                          *)
LEMMA InitInv ==
    ASSUME Init
    PROVE  Inv
  <1>1. pc \in Labels /\ Connection /\ Outstanding /\ RequestsRight /\ AnswersRight
    BY SMT DEF Init, Labels, Connection, Outstanding, RequestsRight, AnswersRight
  <1>2. Batches /\ AtHand /\ Identity /\ CompletedAreAnswered
    BY SMT DEF Init, Batches, AtHand, InLoop, Identity, Sending,
               CompletedAreAnswered, Answered
  <1> QED  BY <1>1, <1>2 DEF Inv

LEMMA StutterInv ==
    ASSUME Inv, UNCHANGED vars
    PROVE  Inv'
  BY SMT DEF Inv, Connection, Outstanding, RequestsRight, AnswersRight, Batches, AtHand, InLoop,
             Identity, Sending, CompletedAreAnswered, Answered,
             vars, socket, stream, identity, progress, backend, runs

LEMMA NextInv ==
    ASSUME Inv, [Next]_vars, Orderly
    PROVE  Inv'
  <1>1. CASE ExchangeStep
    BY <1>1, OpenSocketInv, ConnectInv, ConnectFailsInv, ReadUuidInv, SendAuthInv,
       AuthAnswerInv, SendRegisterInv, RegisterAnswerInv, TruncateUuidInv, WriteUuidInv,
       PostInv, CloseInv, AnswerFailsInv, AnswerInv, Zenon DEF ExchangeStep
  <1>2. CASE TakeBatch
    BY <1>2, TakeBatchInv
  <1>3. CASE BackendStep
    BY <1>3, HandleInv, BodyArrivesInv, BackendUpInv, Zenon DEF BackendStep
  <1>4. CASE HandleLate \/ Break \/ ResetClosed
    BY <1>4, HandleLateInv, BreakInv, ResetClosedInv, Zenon
  <1>5. CASE Kill \/ Restart
    BY <1>5, KillInv, RestartInv, Zenon
  <1>6. CASE Stopped \/ UNCHANGED vars
    BY <1>6, StutterInv, Zenon DEF Stopped
  <1> QED  BY <1>1, <1>2, <1>3, <1>4, <1>5, <1>6, Zenon DEF Next, ClientStep

(* What follows is true of every behaviour of the program in an orderly    *)
(* environment.                                                            *)
THEOREM Invariance == Orderly => (Spec => []Inv)
  <1> SUFFICES ASSUME Orderly PROVE Spec => []Inv
    OBVIOUS
  <1>1. Init => Inv
    BY InitInv
  <1>2. Inv /\ [Next]_vars => Inv'
    BY NextInv
  <1> QED  BY <1>1, <1>2, PTL DEF Spec

(* A batch reported as delivered was answered (main.c:206-243): no answer  *)
(* is taken for that of another batch, for any number of timeouts, resends *)
(* and restarts.                                                           *)
THEOREM CompletedAnswered == Orderly => (Spec => []CompletedAreAnswered)
  <1>1. Inv => CompletedAreAnswered
    BY DEF Inv
  <1> QED  BY <1>1, Invariance, PTL

(* The UUID that the sending loop presents is one the backend issued,      *)
(* wherever in set_UUID or in the exchanges the process was killed         *)
(* (security.c:193-217, main.c:115-127, 184-203).                          *)
THEOREM PresentedUuidIssued == Orderly => (Spec => []UuidIsIssued)
  <1>1. Inv => UuidIsIssued
    BY Zenon DEF Inv, Identity, Sending, UuidIsIssued
  <1> QED  BY <1>1, Invariance, PTL

(* Only the backend adds to what it answered.                              *)
LEMMA WhoAnswers ==
    ASSUME [Next]_vars
    PROVE  Handle \/ HandleLate \/ UNCHANGED <<accepted, rejected>>
  BY Zenon DEF Next, ClientStep, ExchangeStep, OpenSocket, Connect, ConnectFails, ReadUuid,
     SendAuth, AuthAnswer, SendRegister, RegisterAnswer, TruncateUuid, WriteUuid, Post,
     Close, AnswerFails, Answer, TakeBatch, BackendStep, BodyArrives, BackendUp, Break,
     ResetClosed, Kill, Restart, Die, Stopped, vars, backend

(* Of the batches of this process, one that is answered for the first time *)
(* is later than all that were answered before.                            *)
LEMMA FirstAnswer ==
    ASSUME Inv, [Next]_vars, Orderly,
           NEW b \in Answered' \ Answered, NEW a \in Answered, b > inherited
    PROVE  a < b
  <1>1. taken' = taken
    BY WhoAnswers, Zenon DEF Handle, HandleLate, progress, Answered
  <1>2. b \in 1..taken
    BY <1>1, NextInv, Zenon DEF Inv, Batches
  <1>3. b = taken
    BY <1>2, SMT DEF Inv, Batches
  <1>4. a \in 1..taken /\ a # b /\ taken \in Nat
    BY Zenon DEF Inv, Batches
  <1> QED  BY <1>3, <1>4, SMT

(* The backend meets the batches of a process in the order they were taken *)
(* (main.c:214, 221-233), whatever is sent again.                          *)
THEOREM FirstAnswersInOrder == Orderly => (Spec => FirstAnswerInOrder)
  <1> SUFFICES ASSUME Orderly PROVE Spec => FirstAnswerInOrder
    OBVIOUS
  <1>1. Inv /\ [Next]_vars =>
            [\A b \in Answered' \ Answered, a \in Answered : b > inherited => a < b]_vars
    BY FirstAnswer
  <1> QED  BY <1>1, Invariance, PTL DEF Spec, FirstAnswerInOrder
=============================================================================
