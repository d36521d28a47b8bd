------------------------------ MODULE Delivery ------------------------------
(***************************************************************************)
(* The payload thread on the network: start_server, the client_auth and    *)
(* register exchanges, the sending loop of routine_payload, and the UUID   *)
(* file that outlives the process.  A batch is a number; the queues it     *)
(* comes from are Pipeline's business.                                     *)
(*                                                                         *)
(* The backend and TCP are modelled from how the client uses them.         *)
(* Environment names what may happen out there:                            *)
(*   "reset"    a connection breaks and both ends learn it                 *)
(*   "close"    the backend closes a connection in an orderly way          *)
(*   "slow"     an answer takes longer than the receive timeout            *)
(*   "refuse"   the backend answers with a status other than 200           *)
(*   "split"    the body of an answer arrives after its head               *)
(*   "outage"   the backend is away until the descriptor table is full     *)
(*   "dirty"    the buffers on the stack do not start out as zero          *)
(*   "kill"     the process is killed at any point, and started again      *)
(***************************************************************************)
EXTENDS Integers, SequencesExt

CONSTANTS
    Environment,
    MaxFds,        \* size of the descriptor table (RLIMIT_NOFILE)
    MaxBatches,    \* bound: batches taken from the packet queue
    MaxFailures,   \* bound: times the backend breaks or closes a connection
    MaxStarts      \* bound: times the process is started

ASSUME DeliveryAssumption ==
    /\ Environment \subseteq {"reset", "close", "slow", "refuse", "split",
                              "outage", "dirty", "kill"}
    /\ MaxFds \in Nat /\ MaxFds >= 2
    /\ MaxBatches \in Nat /\ MaxFailures \in Nat /\ MaxStarts \in Nat \ {0}

VARIABLES
    pc,            \* where the payload thread is
    socketfd,      \* whether socketfd_server is a descriptor (or -1)
    open_fds,      \* descriptors of the process that are open sockets
    failed,        \* history: sockets of this process that failed to connect
    timed,         \* whether SO_RCVTIMEO was set on socketfd_server
    conn,          \* the connection as TCP knows it at the client
    inbox,         \* what TCP has received for the client
    recv_buffer,   \* what recv_buffer of routine_payload holds
    uuid,          \* the UUID in memory
    uuid_file,     \* what the file .uuid holds
    batch,         \* the batch being delivered, 0 when there is none
    taken,         \* history: the last batch taken
    completed,     \* history: the batches whose delivery was reported
    up,            \* backend: accepts connections
    requests,      \* backend: received on the connection and not yet handled
    late,          \* backend: batches left unhandled by connections now gone
    transit,       \* bodies of answers on their way to the client
    issued,        \* backend: how many UUIDs it issued, which are numbers
    accepted,      \* backend: the batches it took, with a 200
    rejected,      \* backend: the batches it refused
    failures,      \* how many times the backend broke a connection
    starts,        \* how many times the process was started
    inherited      \* history: the batches that earlier processes took

socket == <<socketfd, open_fds, failed, timed>>
stream == <<conn, inbox, requests, late, transit>>
identity == <<uuid, uuid_file>>
progress == <<batch, taken, completed>>
backend == <<up, issued, accepted, rejected, failures>>
runs == <<starts, inherited>>
vars == <<pc, socket, stream, recv_buffer, identity, progress, backend, runs>>

(* UUIDs: a number is one the backend issued.                              *)
None == 0       \* no UUID: the pointer is NULL, the file does not exist
Junk == -1      \* characters that no backend ever issued as a UUID
Empty == -2     \* the file exists and is empty

(* What extract_status_code makes of a buffer.  One that recv never filled *)
(* is zero, and crashes atoi(NULL), or has what the stack held before.     *)
(* One that starts in the middle of an answer may read as anything.        *)
Unset == [status |-> "unset", uuid |-> Junk]
Garbled == [status |-> "garbled", uuid |-> Junk]
Codes(answer) ==
    IF answer = Unset /\ "dirty" \notin Environment THEN {"crash"}
    ELSE IF answer \in {Unset, Garbled} THEN {"ok", "refused", "crash"}
    ELSE {answer.status}

(* recv hands over everything that TCP holds.  Only an answer whose head   *)
(* comes first can be parsed; its body is what follows the empty line.     *)
Received ==
    LET first == inbox[1]
        body == IF first.uuid = None /\ Len(inbox) > 1 THEN inbox[2].uuid
                ELSE first.uuid
    IN  IF first.status = "body" THEN Garbled
        ELSE [status |-> first.status, uuid |-> body]

(* extract_uuid copies from the empty line to the next zero byte, and recv *)
(* does not put one after the answer.                                      *)
Uuids(answer) ==
    IF answer.uuid = None THEN {Junk}
    ELSE {answer.uuid} \cup (IF "dirty" \in Environment THEN {Junk} ELSE {})

Init ==
    /\ pc = "socket"
    /\ socketfd = FALSE /\ open_fds = 0 /\ failed = 0 /\ timed = FALSE
    /\ conn = "none" /\ inbox = <<>> /\ requests = <<>> /\ late = {}
    /\ transit = <<>>
    /\ recv_buffer = Unset
    /\ uuid = None /\ uuid_file = None
    /\ batch = 0 /\ taken = 0 /\ completed = {}
    /\ up = TRUE /\ issued = 0 /\ accepted = {} /\ rejected = {} /\ failures = 0
    /\ starts = 1 /\ inherited = 0

-----------------------------------------------------------------------------
(* The connection goes away, with the answers on their way; the backend    *)
(* may still handle the batches it had received.                           *)
Sever(state) ==
    /\ conn' = state
    /\ transit' = <<>> /\ requests' = <<>>
    /\ late' = late \cup {r.batch : r \in {q \in Range(requests) : q.kind = "ingest"}}

(* The client closes its end, or dies: TCP forgets what it held for it.    *)
Disconnect == Sever("none") /\ inbox' = <<>>

(* exit(1), a crash or a kill: everything in memory is gone.               *)
Die ==
    /\ pc' = "exited"
    /\ Disconnect
    /\ UNCHANGED <<socket, recv_buffer, identity, progress, backend, runs>>

(* socket(): a new descriptor, or -1 when the table is full.               *)
NewSocket ==
    /\ socketfd' = (open_fds < MaxFds)
    /\ open_fds' = IF open_fds < MaxFds THEN open_fds + 1 ELSE open_fds
    /\ timed' = FALSE

(* send() fails on a connection known to be broken.  After an orderly      *)
(* close of the peer it still succeeds, and the bytes are thrown away.     *)
Send(kind) ==
    /\ conn # "reset"
    /\ requests' = IF conn = "open"
                   THEN Append(requests, [kind |-> kind, batch |-> batch, uuid |-> uuid])
                   ELSE requests
    /\ UNCHANGED <<conn, inbox, late, transit>>

SendFails == conn = "reset"

(* recv(): bytes, 0 at the end of the stream, or -1.                       *)
RecvBytes == inbox # <<>> /\ inbox' = <<>> /\ UNCHANGED <<conn, requests, late, transit>>
RecvZero == inbox = <<>> /\ conn = "fin" /\ UNCHANGED stream
RecvFails ==
    /\ inbox = <<>>
    /\ \/ conn = "reset"
       \/ conn = "open" /\ timed /\ "slow" \in Environment
    /\ UNCHANGED stream

-----------------------------------------------------------------------------
(* start_server.                                                           *)

OpenSocket ==
    /\ pc = "socket"
    /\ NewSocket
    /\ pc' = "connect"
    /\ UNCHANGED <<failed, stream, recv_buffer, identity, progress, backend, runs>>

(* The first connection gets its receive timeout in routine_payload; the   *)
(* ones that replace it are made with a batch in hand, and get none.       *)
Connect ==
    /\ pc = "connect"
    /\ socketfd /\ up
    /\ conn' = "open"
    /\ timed' = (batch = 0)
    /\ pc' = IF batch = 0 THEN "hello" ELSE "post"
    /\ UNCHANGED <<socketfd, open_fds, failed, inbox, requests, late, transit,
                   recv_buffer, identity, progress, backend, runs>>

(* The socket that failed is not closed before the next one is opened.     *)
ConnectFails ==
    /\ pc = "connect"
    /\ ~(socketfd /\ up)
    /\ "outage" \in Environment \/ open_fds < MaxFds
    /\ NewSocket
    /\ failed' = IF socketfd THEN failed + 1 ELSE failed
    /\ UNCHANGED <<pc, stream, recv_buffer, identity, progress, backend, runs>>

-----------------------------------------------------------------------------
(* client_auth, when there is a UUID file.                                 *)

(* get_UUID; from an empty file it reads memory it never wrote.            *)
ReadUuid ==
    /\ pc = "hello"
    /\ \/ /\ uuid_file = None
          /\ pc' = "register"
          /\ UNCHANGED uuid
       \/ /\ uuid_file # None
          /\ uuid' = IF uuid_file = Empty THEN Junk ELSE uuid_file
          /\ pc' = "auth"
       \/ /\ uuid_file = Empty
          /\ pc' = "exited"
          /\ UNCHANGED uuid
    /\ UNCHANGED <<socket, stream, recv_buffer, uuid_file, progress, backend, runs>>

SendAuth ==
    /\ pc = "auth"
    /\ \/ /\ Send("auth")
          /\ pc' = "authAnswer"
          /\ UNCHANGED <<socket, recv_buffer, identity, progress, backend, runs>>
       \/ SendFails /\ Die

(* Mutant: any answer will do.                                             *)
AuthAnswerUnchecked ==
    /\ pc = "authAnswer"
    /\ RecvBytes \/ RecvZero \/ RecvFails
    /\ pc' = "window"
    /\ UNCHANGED <<socket, recv_buffer, identity, progress, backend, runs>>

(* The result of recv is not looked at.                                    *)
AuthAnswer ==
    /\ pc = "authAnswer"
    /\ \E code \in Codes(IF inbox # <<>> THEN Received ELSE Unset) :
          /\ RecvBytes \/ RecvZero \/ RecvFails
          /\ pc' = CASE code = "ok" -> "window"
                     [] code = "refused" -> "register"
                     [] code = "crash" -> "exited"
    /\ UNCHANGED <<socket, recv_buffer, identity, progress, backend, runs>>

-----------------------------------------------------------------------------
(* case_not_ok: a new UUID, asked for without any retry.                   *)

SendRegister ==
    /\ pc = "register"
    /\ \/ /\ Send("register")
          /\ pc' = "registerAnswer"
          /\ UNCHANGED <<socket, recv_buffer, identity, progress, backend, runs>>
       \/ SendFails /\ Die

(* Nor is it looked at here; any status but 200 ends the process.          *)
RegisterAnswer ==
    /\ pc = "registerAnswer"
    /\ LET answer == IF inbox # <<>> THEN Received ELSE Unset
       IN  \E code \in Codes(answer), id \in Uuids(answer) :
              /\ RecvBytes \/ RecvZero \/ RecvFails
              /\ IF code = "ok"
                 THEN uuid' = id /\ pc' = "truncate"
                 ELSE pc' = "exited" /\ UNCHANGED uuid
    /\ UNCHANGED <<socket, recv_buffer, uuid_file, progress, backend, runs>>

(* set_UUID: fopen(.., "w") empties the file, fclose writes it.            *)
TruncateUuid ==
    /\ pc = "truncate"
    /\ uuid_file' = Empty
    /\ pc' = "write"
    /\ UNCHANGED <<socket, stream, recv_buffer, uuid, progress, backend, runs>>

(* Mutant: the UUID is written without its last character.                 *)
WriteUuidShort ==
    /\ pc = "write"
    /\ uuid_file' = Junk
    /\ completed' = completed \cup ({batch} \ {0})
    /\ batch' = 0
    /\ pc' = "window"
    /\ UNCHANGED <<socket, stream, recv_buffer, uuid, taken, backend, runs>>

(* Called from the sending loop, the delivery is then reported.            *)
WriteUuid ==
    /\ pc = "write"
    /\ uuid_file' = uuid
    /\ completed' = completed \cup ({batch} \ {0})
    /\ batch' = 0
    /\ pc' = "window"
    /\ UNCHANGED <<socket, stream, recv_buffer, uuid, taken, backend, runs>>

-----------------------------------------------------------------------------
(* The sending loop of routine_payload.                                    *)

TakeBatch ==
    /\ pc = "window"
    /\ taken < MaxBatches
    /\ taken' = taken + 1
    /\ batch' = taken'
    /\ pc' = "post"
    /\ UNCHANGED <<socket, stream, recv_buffer, identity, completed, backend, runs>>

Post ==
    /\ pc = "post"
    /\ \/ Send("ingest") /\ pc' = "answer"
       \/ SendFails /\ pc' = "close" /\ UNCHANGED stream
    /\ UNCHANGED <<socket, recv_buffer, identity, progress, backend, runs>>

(* Mutants: the socket is closed twice, or not at all.                     *)
CloseTwice ==
    /\ pc = "close"
    /\ open_fds' = IF socketfd THEN open_fds - 2 ELSE open_fds
    /\ socketfd' = FALSE
    /\ Disconnect
    /\ pc' = "socket"
    /\ UNCHANGED <<failed, timed, recv_buffer, identity, progress, backend, runs>>

CloseNothing ==
    /\ pc = "close"
    /\ socketfd' = FALSE
    /\ Disconnect
    /\ pc' = "socket"
    /\ UNCHANGED <<open_fds, failed, timed, recv_buffer, identity, progress,
                   backend, runs>>

(* close(), then start_server() with the same batch.                       *)
Close ==
    /\ pc = "close"
    /\ open_fds' = IF socketfd THEN open_fds - 1 ELSE open_fds
    /\ socketfd' = FALSE
    /\ Disconnect
    /\ pc' = "socket"
    /\ UNCHANGED <<failed, timed, recv_buffer, identity, progress, backend, runs>>

(* Mutants: a recv that fails is taken for an answer, gives the batch up,  *)
(* or is repeated on the same connection.                                  *)
AnswerFailsUnnoticed ==
    /\ pc = "answer"
    /\ RecvFails
    /\ completed' = completed \cup {batch}
    /\ batch' = 0
    /\ pc' = "window"
    /\ UNCHANGED <<socket, recv_buffer, identity, taken, backend, runs>>

AnswerFailsGivingUp ==
    /\ pc = "answer"
    /\ RecvFails
    /\ batch' = 0
    /\ pc' = "window"
    /\ UNCHANGED <<socket, recv_buffer, identity, taken, completed, backend, runs>>

AnswerFailsRepeated ==
    /\ pc = "answer"
    /\ RecvFails
    /\ UNCHANGED <<pc, socket, recv_buffer, identity, progress, backend, runs>>

AnswerFails ==
    /\ pc = "answer"
    /\ RecvFails
    /\ pc' = "close"
    /\ UNCHANGED <<socket, recv_buffer, identity, progress, backend, runs>>

(* A recv that returned 0 leaves recv_buffer as it was.                    *)
Answer ==
    /\ pc = "answer"
    /\ \/ RecvBytes /\ recv_buffer' = Received
       \/ RecvZero /\ UNCHANGED recv_buffer
    /\ \E code \in Codes(recv_buffer') :
          \/ /\ code = "ok"
             /\ completed' = completed \cup {batch}
             /\ batch' = 0
             /\ pc' = "window"
          \/ /\ code = "refused"
             /\ pc' = "register"
             /\ UNCHANGED <<completed, batch>>
          \/ /\ code = "crash"
             /\ pc' = "exited"
             /\ UNCHANGED <<completed, batch>>
    /\ UNCHANGED <<socket, identity, taken, backend, runs>>

-----------------------------------------------------------------------------
(* The process is killed, and started again with an empty memory.          *)

Kill == "kill" \in Environment /\ pc # "exited" /\ Die

Restart ==
    /\ pc = "exited"
    /\ starts < MaxStarts
    /\ starts' = starts + 1 /\ inherited' = taken
    /\ pc' = "socket"
    /\ socketfd' = FALSE /\ open_fds' = 0 /\ failed' = 0 /\ timed' = FALSE
    /\ Disconnect
    /\ recv_buffer' = Unset
    /\ uuid' = None
    /\ batch' = 0
    /\ UNCHANGED <<uuid_file, taken, completed, backend>>

-----------------------------------------------------------------------------
(* The backend and the network.                                            *)

(* A request is handled: accepted when it comes with a UUID that the       *)
(* backend issued, or with none for a registration; or refused.  The       *)
(* answer comes in one piece, or its body comes later.                     *)
Refusals == IF "refuse" \in Environment THEN {"refused"} ELSE {}
Statuses(request) ==
    (IF request.kind = "register" \/ request.uuid \in 1..issued THEN {"ok"} ELSE {"refused"})
        \cup Refusals

Decide(b, status) ==
    /\ accepted' = accepted \cup (IF status = "ok" THEN {b} ELSE {})
    /\ rejected' = rejected \cup (IF status = "ok" THEN {} ELSE {b})

Handle ==
    /\ conn = "open" /\ requests # <<>>
    /\ LET request == Head(requests)
       IN  \E status \in Statuses(request),
              split \in {FALSE} \cup (IF "split" \in Environment THEN {TRUE} ELSE {}) :
             LET new == status = "ok" /\ request.kind = "register"
                 body == IF new THEN issued + 1 ELSE Junk
             IN  /\ issued' = IF new THEN issued + 1 ELSE issued
                 /\ IF request.kind = "ingest"
                    THEN Decide(request.batch, status)
                    ELSE UNCHANGED <<accepted, rejected>>
                 /\ inbox' = Append(inbox, [status |-> status,
                                            uuid |-> IF split THEN None ELSE body])
                 /\ transit' = IF split THEN Append(transit, body) ELSE transit
    /\ requests' = Tail(requests)
    /\ UNCHANGED <<pc, socket, conn, late, recv_buffer, identity, progress,
                   up, failures, runs>>

BodyArrives ==
    /\ transit # <<>>
    /\ inbox' = Append(inbox, [status |-> "body", uuid |-> Head(transit)])
    /\ transit' = Tail(transit)
    /\ UNCHANGED <<pc, socket, conn, requests, late, recv_buffer, identity,
                   progress, backend, runs>>

(* A request of a connection that is gone is handled after all; its answer *)
(* reaches nobody.                                                         *)
HandleLate ==
    /\ \E b \in late, status \in {"ok"} \cup Refusals :
          /\ late' = late \ {b}
          /\ Decide(b, status)
    /\ UNCHANGED <<pc, socket, conn, inbox, requests, transit, recv_buffer,
                   identity, progress, up, issued, failures, runs>>

(* The connection breaks, or is closed, between any two steps; the backend *)
(* may be away for a while after it.                                       *)
Break ==
    /\ failures < MaxFailures
    /\ failures' = failures + 1
    /\ conn \in {"open", "none"}
    /\ \/ "reset" \in Environment /\ conn = "open" /\ Sever("reset") /\ UNCHANGED inbox
       \/ "close" \in Environment /\ conn = "open" /\ Sever("fin") /\ UNCHANGED inbox
       \/ conn = "none" /\ UNCHANGED stream
    /\ up' \in BOOLEAN
    /\ UNCHANGED <<pc, socket, recv_buffer, identity, progress, issued, accepted,
                   rejected, runs>>

(* The reset that answers bytes sent after an orderly close.               *)
ResetClosed ==
    /\ conn = "fin"
    /\ conn' = "reset"
    /\ UNCHANGED <<pc, socket, inbox, requests, late, transit, recv_buffer,
                   identity, progress, backend, runs>>

BackendUp ==
    /\ ~up
    /\ up' = TRUE
    /\ UNCHANGED <<pc, socket, stream, recv_buffer, identity, progress,
                   issued, accepted, rejected, failures, runs>>

-----------------------------------------------------------------------------
(* The payload thread with the server, and with the queue.                 *)
ExchangeStep ==
    \/ OpenSocket \/ Connect \/ ConnectFails
    \/ ReadUuid \/ SendAuth \/ AuthAnswer
    \/ SendRegister \/ RegisterAnswer \/ TruncateUuid \/ WriteUuid
    \/ Post \/ Close \/ AnswerFails \/ Answer

ClientStep == ExchangeStep \/ TakeBatch

BackendStep == Handle \/ BodyArrives \/ BackendUp

(* The payload thread waits for a batch, or nobody starts the process.     *)
Stopped ==
    /\ \/ pc = "window" /\ taken = MaxBatches
       \/ pc = "exited" /\ starts = MaxStarts
    /\ UNCHANGED vars

Next ==
    \/ ClientStep
    \/ BackendStep
    \/ HandleLate \/ Break \/ ResetClosed
    \/ Kill \/ Restart
    \/ Stopped

Spec == Init /\ [][Next]_vars

(* The payload thread keeps running.                                       *)
ClientSpec == Spec /\ WF_vars(ClientStep)

(* The backend comes back, and answers what it receives.                   *)
AnsweredSpec == ClientSpec /\ WF_vars(BackendUp) /\ WF_vars(Handle) /\ WF_vars(BodyArrives)

-----------------------------------------------------------------------------
Answers == [status : {"ok", "refused", "body", "unset", "garbled"}, uuid : Int]
Requests == [kind : {"auth", "register", "ingest"}, batch : 0..MaxBatches, uuid : Int]

TypeOK ==
    /\ pc \in {"socket", "connect", "hello", "auth", "authAnswer", "register",
               "registerAnswer", "truncate", "write", "window", "post",
               "answer", "close", "exited"}
    /\ socketfd \in BOOLEAN /\ timed \in BOOLEAN /\ up \in BOOLEAN
    /\ open_fds \in 0..MaxFds /\ failed \in Nat
    /\ conn \in {"none", "open", "fin", "reset"}
    /\ inbox \in Seq(Answers) /\ requests \in Seq(Requests) /\ transit \in Seq(Int)
    /\ recv_buffer \in Answers
    /\ uuid \in Int /\ uuid_file \in Int /\ issued \in Nat
    /\ batch \in 0..MaxBatches /\ taken \in 0..MaxBatches
    /\ {completed, accepted, rejected, late} \subseteq SUBSET (1..MaxBatches)
    /\ failures \in 0..MaxFailures /\ starts \in 1..MaxStarts
    /\ inherited \in 0..taken

Answered == accepted \cup rejected

(* A batch whose delivery the client reports as complete (main.c:243) was  *)
(* answered by the backend: across timeouts, broken connections, resends   *)
(* and late answers, none is given up and no answer is taken for that of   *)
(* another.  That the answer may be a refusal is README.md:107, not done.  *)
CompletedAreAnswered == completed \subseteq Answered

(* The backend never meets a batch for the first time after it answered a  *)
(* later one: only a duplicate can come out of order, or what a process    *)
(* that was killed had left in the network.                                *)
FirstAnswerInOrder ==
    [][\A b \in Answered' \ Answered, a \in Answered : b > inherited => a < b]_vars

(* Whenever the thread is in its sending loop, a whole UUID file holds the *)
(* UUID in use: a restart presents the identity that was last given.       *)
IdentityPersisted ==
    (pc \in {"window", "post", "answer", "close"} /\ uuid_file # Empty) =>
        uuid = uuid_file

(* The UUID the sending loop presents was issued by the backend, even when *)
(* the process was killed in the middle of set_UUID: an empty file makes   *)
(* it register again.                                                      *)
UuidIsIssued == pc \in {"window", "post", "answer", "close"} => uuid \in 1..issued

(* Every descriptor is the current socket or one that failed to connect:   *)
(* reconnecting after an established connection leaks none.                *)
DescriptorsAccounted ==
    pc # "exited" => open_fds = failed + (IF socketfd THEN 1 ELSE 0)

(* With a backend that comes back and answers, the retries of a batch end: *)
(* the payload thread is done with it, or the process ends, also when      *)
(* connections are closed and answers come in pieces (main.c:220-251).     *)
(* That what it is done with was answered is CompletedAreAnswered, which   *)
(* fails where connections are closed.                                     *)
RetriesEnd == batch # 0 ~> (batch = 0 \/ pc = "exited")

(* A thread waiting for an answer gives up after the timeout it set        *)
(* (main.c:139-144, README.md:109), so a silent backend never blocks it    *)
(* for good.                                                               *)
ReceiveTimesOut == pc = "answer" ~> pc # "answer"

(* The client keeps trying to connect until the backend is back            *)
(* (main.c:80, README.md:113).                                             *)
ReconnectsAfterOutage == pc = "connect" ~> pc # "connect"
=============================================================================
