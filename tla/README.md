# WireSentinel-Client in TLA+

A TLA+ development of WireSentinel-Client, the network agent of WireSentinel:
modules that model its code, TLC configurations that check them on small
instances, and TLAPS proofs of the main results for every value of the
constants. The reference is the code; where a document says something else,
the model follows the code and the difference is a finding (section 7).

Check one run, from this directory:

    tlc -workers 2 -config Pipeline.cfg Pipeline
    tlapm PipelineProofs.tla

## 1. The system

The client captures every Ethernet frame of the host, parses it, collects the
parsed packets and posts them in batches, as JSON over HTTP, to a backend.
`src/main.c` starts three threads, and everything else is called by them.

    recvfrom -> [capture] -> raw list -> [processing] -> packet list -> [payload] -> backend
                   |   signals cond_processing ^                            ^
                   +---- signals cond_payload (window) ---------------------+

| Component | Where | State | Operations |
|---|---|---|---|
| Capture thread | `main`, main.c:255-301 | `buffer`, `secs`, `currsecs` | start up, receive a frame, `add_item`, signal, open a sending window |
| Processing thread | `routine_processing`, main.c:39-66 | `temp`, `node` | wait for a frame, unlink it, parse it, discard it or insert the packet |
| Payload thread | `routine_payload`, main.c:129-252 | `socketfd_server`, `recv_buffer`, `uuid`, `json_payload` | connect, authenticate, wait for packets, serialise and free the list, send, retry, register |
| Raw list | `buffer_list.c` | `inicio_buffer`, `final_buffer`, `nmbr_itens` | `add_item`, `free_item` |
| Packet list | `packet_list.c` | `inicio_packet`, `final_packet`, `nmbr_packets` | `insert_packet_node_on_list`, `free_packet`, `free_list` |
| Shared counter | main.c:32 | `test` | counted by processing, read (with no lock) and reset by capture |
| UUID file | `security.c:176-217` | `.uuid` | exists, read, write |
| Configuration and greeter | `security.c` | `.security` | prompt, validate, write, read url, port and key |
| Frame parser | `packet_service.c` | none (pure) | Ethernet, VLAN, ARP, IPv4, IPv6 with extensions, TCP, UDP, ICMP |
| JSON serialiser | `jsonparser.c` | none (pure) | payload of a packet list, HTTP request |
| Helpers | `misc.c` | none | time, status code, UUID of an answer |
| Services | `services_table.h` | generated table | name of a port |
| Build and leftovers | `CMakeLists.txt`, `start.sh`, `buffer_parsing_thread.h` | - | - |

Interactions. The three threads share the two lists, the counters and `test`
under one mutex, `mutex_processing` (`mutex_payload` is initialised and never
used). Capture wakes processing through `cond_processing` after every frame,
and payload through `cond_payload` when a window opens: 2000 parsed frames, or
four seconds. Payload releases the mutex before it talks to the backend. The
UUID and configuration files outlive the process.

What is hard, and what makes each part correct:

- **Threads.** Two evicting queues between three threads, a counter that
  counts a node already unlinked, a value read without the lock, signals sent
  after unlocking, and a thread that disappears into the network for an
  unbounded time. Correct: critical sections exclude each other, counters
  agree with lists, memory is bounded, no frame is duplicated, reordered or
  lost except by eviction from a full list, no wakeup is lost, and capture
  never waits for the backend.
- **Lists.** Pointers that dangle by design (the tail pointer when a list
  empties), structures allocated by one thread and freed by another. Correct:
  no freed block is followed, no block is lost, the list is a queue.
- **Delivery.** Timeouts, retries on a new connection, a backend that closes
  or breaks the connection, answers that come late, a UUID that the backend
  may stop accepting, a process killed while it writes the UUID. Correct: a
  batch reported complete was answered, batches reach the backend in order,
  retries end when the backend answers, the identity survives a restart.
- **Configuration.** Lines cut by `fgets`, with a remainder that answers the
  next question, a file emptied before it is written, at every start, and read
  back at fixed positions. Correct: every line answers the question it was
  typed for, the file and the running client have what was entered last.
- **Parser.** Offsets that grow with tags, options and extension headers, each
  behind its own length check, over a block whose end was not received.
  Correct: no byte outside the block is read, what is reported was received,
  the transport header is found where it is.
- **Serialiser.** Fixed buffers filled with `strcat`, whose sizes rest on the
  capacity of the list; a length announced before the request is cut to its
  buffer; an application looked up by either port. Correct: no buffer overflows, the
  announced length is that of the body, the text is the document of the list,
  and the two directions of a conversation get the same application.
- **The client as a whole.** Frames cross two evicting queues, a batch that is
  sent again and again, and a process that may die. Correct: a frame taken from
  the packet list is in hand or answered while the process runs, the backend meets
  frames in the order of their capture, and what was taken is answered in the end.

PROJECT.json lists every hazard at its line with the properties that cover it.

## 2. Modules

| Module | What it is |
|---|---|
| `DropOldestQueues` | Abstract: two bounded drop-oldest queues and a batch. No threads, locks, counters or pointers. |
| `Pipeline` | The three threads, one action per step between two synchronisation points. |
| `MCPipeline` | `Pipeline` under the assumptions its liveness needs: an answering backend, endless traffic. |
| `PipelineProofs` | Inductive invariant of `Pipeline` and what follows from it. |
| `PipelineQueueProofs` | The order of frames, and `Pipeline` implements `DropOldestQueues`. |
| `QueueHeap` | The two linked lists with their blocks and pointers. |
| `QueueHeapProofs` | The shape of the heap, and `QueueHeap` implements `DropOldestQueues`. |
| `Delivery` | The payload thread on the network, the UUID file, restarts. |
| `DeliveryProofs` | What holds of `Delivery` in every environment, and in an orderly one. |
| `Agent` | The whole client: the queues of `DropOldestQueues` and `Delivery` composed. |
| `AgentProofs` | What holds of batches holds of the frames in them; the queues. |
| `ConfigFiles` | The greeter's dialogue, the file `.security`, restarts. |
| `MCConfigFiles` | Arrays and lines for TLC. |
| `ConfigFilesProofs` | The dialogue and the file for every array and every line that fits. |
| `FrameParser` | The walk over the headers of one frame, one action per header; what a well laid out frame is. |
| `MCFrameParser` | Frames laid out as the protocols define them, for TLC. |
| `FrameParserProofs` | The parser's bounds for every frame, and that it finds the transport header. |
| `JsonPayload` | The walk of the serialiser over the packet list, and the request around it. |
| `MCJsonPayload` | Packets and tables for TLC. |
| `JsonPayloadProofs` | The serialiser for every list: the sizes of its buffers, the document, the names. |

`Pipeline` treats a list as a sequence and the network as a delay; `QueueHeap`
and `Delivery` open these two boxes. `Pipeline` proves what `QueueHeap`
assumes (list operations run one at a time: `MutualExclusion`), and both lists
and threads are shown to implement the same `DropOldestQueues`. `FrameParser` is
what happens inside `DiscardItem` and `ForwardItem`, under the mutex, on one
frame, and `JsonPayload` inside `TakeBatch`: they share no state with the other
threads. `JsonPayload` takes the capacity of the list, which `Pipeline` shows to
be respected, as its assumption. `Agent` joins the queues with `Delivery` and
follows a frame from its capture to the answer of the backend. `ConfigFiles` runs
before the threads start; it gives `Delivery` the address it connects to.

### Pipeline

`pc[t]` is where thread `t` is; `mutex_processing` is its owner. Locking is an
action of its own (`Lock`), and so is unlocking, because the code signals
after it unlocks. A thread in `pthread_cond_wait` has pc `"wait"`; a signal
(`Signal`) moves it to `"lock"`, where it competes for the mutex again, and
`SpuriousWakeup` does so without a signal, as POSIX allows.

| Action | Code |
|---|---|
| `OpenSocket` | main.c:269-275, with the failure that ends the process |
| `RecvFrame`, `RecvNothing` | main.c:278-280; the time is read here and `due` keeps the result of `currsecs - secs >= 4` |
| `AddItem` | main.c:283, `add_item` with its eviction loop |
| `SignalProcessing`, `CheckWindow`, `ResetTest`, `SignalPayload` | main.c:286-297; `CheckWindow` reads `test` without the mutex |
| `WaitForItem`, `TakeItem` | main.c:42-48 |
| `DiscardItem`, `ForwardItem` | main.c:49-64, the parse and every call that follows it until the unlock |
| `Authenticate` | main.c:134-203, as far as the pipeline sees it: it takes time and may end the process |
| `WaitForPacket`, `TakeBatch` | main.c:207-217 |
| `FinishBatch`, `RefusedByBackend` | main.c:220-251: any time later, done or `exit(1)` |
| `Tick` | time passing; `age` counts seconds since `secs` up to `Window`, where it no longer matters |

A frame is the number of its arrival. `sent` is a history variable, the newest
frame of the batches done with. `Linked` is what an insertion does to a list:
it looks at the list for emptiness, and at the counter for the eviction, as
the code does, so that a counter that disagreed with its list would show.

### QueueHeap

`heap` maps each allocated address to its block; a freed block leaves its
domain. Each action is one allocation, free or group of pointer assignments of
`add_item`, `free_item`, `insert_packet_node_on_list`, `free_packet`,
`free_list` and of the lines of main.c that move the pointers. `op` tells
which operation is under way. `fault` becomes true when an action follows a
pointer to no live block or frees a block that is not live: every action that
reads, writes or frees through a pointer asks first whether the block is live
(`Free`, `FreeFirst`, `Walkable`). `malloc` returns the lowest free address, so that
freed addresses are reused at once; allocation failure is not modelled (the
code does not handle it, and the capacity bounds make it no part of any
property here).

### Delivery

The client side is `start_server` (`OpenSocket`, `Connect`, `ConnectFails`),
the authentication (`ReadUuid`, `SendAuth`, `AuthAnswer`), `case_not_ok`
(`SendRegister`, `RegisterAnswer`), `set_UUID` (`TruncateUuid`, `WriteUuid`)
and the sending loop (`TakeBatch`, `Post`, `AnswerFails`, `Close`, `Answer`).
`pc = "post"` is a `send`, `"answer"` a `recv`; both `while (result == -1)`
loops of main.c:222-234 are the cycle post, close, socket, connect, post.

The backend and TCP are external, modelled by what the client can observe:
a request is handled once, in the order received (`Handle`), or, when its
connection is gone, perhaps later (`HandleLate`); a connection may be reset or
closed (`Break`); after an orderly close `send` still succeeds, `recv` returns
what had arrived and then 0, and a reset may follow (`ResetClosed`). The
constant `Environment` names which of these faults a run allows; each `.cfg`
states its own, so a reader sees under which faults a property holds.

`inherited` is a history variable, the last batch an earlier process took: what
a killed process left in the network may reach the backend at any time, so
`FirstAnswerInOrder` speaks of the batches of the present one.

Undefined behaviour is a choice: an uninitialised stack buffer (`Unset`) makes
`atoi(NULL)` crash, or under `"dirty"` reads as any status; a message parsed
from its middle (`Garbled`) reads as any status or crashes.

### Agent

`Agent` extends `Delivery`, adds the two queues (`raw`, `packets`), the number of
the last frame, and a history variable `contents` with the frames of each batch,
and instantiates `DropOldestQueues` for what happens to the queues. That
abstraction is what `Pipeline` is proved to implement, so that `Agent` need not
have the threads again.

| Action | Code |
|---|---|
| `CaptureFrame`, `ParseFrame` | main.c:278-283 and 42-64; they go on while the payload thread connects, authenticates or sends |
| `TakePackets` | main.c:206-218: `Delivery`'s `TakeBatch` and the queues' at once, under the mutex |
| `Exchange` | every other step of the payload thread; where it is an `exit(1)`, both lists end with the process (`ListsFollow`) |
| `Answering`, `Disturb` | the backend, and faults; a kill empties the lists |

`InHand` is the batch being delivered. A batch that an earlier process held may
still reach the backend; the properties speak of the frames of the present one.

### ConfigFiles

A line is a sequence of characters and `input` what is left of the one typed
last, with its newline. `Taken(size)` is what `fgets(array, size - 1)` takes of
it: the calls pass 255, 79 and 9 for arrays of 256, 80 and 10, and `fgets` keeps
one for the zero. `security` is the file as its lines, and it outlives the
process; `NoFile` is its absence.

| Action | Code |
|---|---|
| `Greet` | security.c:116-126, with `confirm_if_file_exists` and the three readers |
| `Confirm` | security.c:127-147: the answer, one more character, and the file written again unless it was n |
| `AskKey`, `AskUrl`, `AskPort` | security.c:149-157, and the checks of `create_security_file` after the last |
| `Truncate`, `Write` | security.c:49 and 51-58: between `fopen` and `fclose` the file is empty |
| `Serve` | routine_payload reads the file; `start_server` may die of what it says |
| `Type`, `CloseInput` | the operator |
| `Kill`, `Restart` | at any point; the file stays as it is |

`Values` is what the readers return: the line without as many characters as its
name has and without the last one; of an empty file, whatever memory held
(`Garbage`), which is also what an array holds after `fgets` at the end of the
input. `asked`, `entered` and `config` are history variables: the question the
unread line was typed for, the lines of this dialogue, and the configuration
entered last (`Unknown` after a kill between `fopen` and `fclose`, or when the
input ended during the dialogue).

### JsonPayload

A text is its pieces and its number of characters, so that one model tells both
whether a buffer suffices and whether what it holds is a JSON document. `Packet`
is one turn of the loop of `generate_json_payload` (jsonparser.c:17-127): format
the fields, append the flags, the transport protocol, the application, the end,
and a comma when a packet follows. `Cut` is `snprintf`, `Strcat` is `strcat` and
checks nothing. `Header` and `Request` are `generate_json_header` and
`generate_request`. The two tables of `services_table.h` are constants, functions
from the ports that have an entry. The lengths of the literal text of the
formats are constants of the module, counted from the source.

### FrameParser

A frame is a function from offsets to bytes that has only the bytes that steer
the parser; `recvlen` of them were received. `Byte(o)` is the set of values
`buffer[o]` may have: the byte of the frame when it was received, any value of
`Stale` otherwise, since `add_item` copies `recvlen` bytes into a block of
65535 that `malloc` did not clear. `reached` is a history variable, one more
than the last byte read so far; a header copied as a whole is read up to its
last byte. `headers_reached` is the same of the reads outside the extension
headers. There is one action per decision of `fill_fullPacket_node`:
`Ethernet`, `ServiceTag`, `VlanTag`, then `OtherProtocol`, `IPv4` or `IPv6`,
the turns of the loop of `fill_ipv6` (`Extension`, `LastExtension`), then
`Tcp`, `Udp` or `OtherTransport`, and the loopback test of
`routine_processing` (`Result`). Each `free(packetNode); return NULL` is
`Refuse`. The code repeats the switch over the transport protocols after each
version of IP; the model has it once.

`LaidOut(f)` says what a frame is that the protocols allow, without walking over
it: besides its bytes a frame has fields for what it carries (its tags, its
extension headers and where each starts, the transport protocol and where its
header is, where what steers the parser ends), and `LaidOut` relates the bytes
to them. `TransportFound` compares what the parser found in a laid out frame
that was received that far with those fields. `MCFrameParser` builds frames from
what they carry, and has TLC check that each is laid out (`FramesLaidOut`), but
for those whose IPv4 header is shorter than IPv4 allows. Seven or more extension
headers are laid out too, but `TransportFound` does not speak of them: the code's
loop ends at the seventh.

## 3. Runs

| Run | Faults or fairness | What it shows |
|---|---|---|
| `pipeline_safety` | every interleaving | exclusion, counters, capacities, `test`, order, losses, refinement |
| `pipeline_progress` | threads run, nothing assumed of the network | every raw frame is parsed or evicted; capture always returns to `recvfrom`; if traffic goes on and the backend answers, the payload thread comes for the packets although signals are lost while it is away |
| `queue_heap` | - | no dangling use, no leak, refinement |
| `delivery_faults` | reset, slow, refuse, kill | a reported batch was answered; first answers in order; descriptors accounted; the identity in use was issued and is the one in the file |
| `delivery_live` | all but kill, outage, dirty | the retries of a batch end; not that it was answered, which an orderly close may prevent (`delivery_closed`) |
| `delivery_closed`, `delivery_timeout`, `delivery_outage` | one fault each | violated (findings) |
| `parser_frames` | frames cut anywhere, stale bytes | nothing is read that was not received, but bytes of IPv6 extension headers; the transport header is found where it is; the walk stays in the block; ports were received |
| `json_payload` | every list of the sample packets | no overflow; the announced length is that of the body; the text is the document; both directions get the same application |
| `config_files` | the input closes, kills, restarts | every line answers its question; the file and the client have what was entered last; the dialogue ends for an operator who answers |
| `agent_frames` | reset, slow, kill, a restart | while a process runs, frames taken are in hand or answered, and in order; a frame taken is answered in the end, or the process ends |

Every property of a passing run has a mutant of the code (a dropped free, a
wrong signal, an off-by-one in the eviction, ...) that breaks it; the mutants
stand in the modules, next to what they change, marked `Mutant`.

### Bounds

- `Pipeline`: `MaxItens = 3`, `MaxPackets = 2`, six frames. Both lists fill,
  evict, and empty again while a third frame is being parsed, and a batch is
  on the network while the packet list refills and evicts. The capacities are
  1000 in the code; nothing depends on the number once it exceeds 1 (a list
  that is not empty while it evicts), and the proofs hold for all of them.
  `Window = 1` distinguishes "elapsed" from "not yet", which is all the code
  asks of the clock; `MaxTest = 2` is reached and overshot.
- Liveness uses capacities of two, and three frame numbers used again and
  again, so that traffic need not end: enough for a lost signal, a full queue
  and a window that opens while the payload thread is away.
- `QueueHeap`: capacities of two, two frame contents, eight addresses. At most
  2 raw nodes and one being added or taken, 2 packet nodes with their
  structures, and a node and structure being inserted are ever live: eight
  addresses are never exhausted (otherwise `Next` would lose allocations), and
  the lowest-address rule makes every freed address come back.
- `Delivery`: a fault at any point is what matters, so one or two failures;
  two batches, so that an answer can be mistaken for that of an
  earlier or a later batch; three starts, so that a file damaged by one
  process is read by the next and by the one after it; three descriptors, so
  that the table fills during an outage and does not otherwise. Without
  `"outage"` the backend comes back before the table is full.
- `Agent`: queues of two, three frames, up to three batches, two failures, two
  starts. A queue of two evicts with three frames, batches of one and of two
  frames occur, frames are captured while a batch is being sent again, and a
  process dies with frames in each queue and in hand. `"refuse"` is left out: a
  refused batch is done with as an answered one is, and its registration steps,
  which `delivery_faults` has, multiply the states of the liveness check.
- `ConfigFiles`: arrays of 5, 4 and 4 characters, so that the longest lines that
  fit are as long as the shortest ones that could matter; lines that look like
  answers ("n" as key and as port), empty lines, garbage longer than the arrays;
  three starts, so that a file damaged by one process is read by the next and
  rewritten for the one after it.
- `JsonPayload`: lists of up to three of nine packets: with both directions of
  TCP and UDP conversations, both ports named, none named, port 0 and no ports.
  `MAX_JSON_SIZE` is 5462, the least for which `Fits` holds of three packets, and
  header lengths go up to the longest that fits, so that an off-by-one shows. The
  module `MCJsonPayload` also has TLC evaluate `Fits` for the code's own 1000
  packets and 3 MiB.
- `FrameParser`: every length from 1 to 145 bytes; the longest frame has 142, so
  each is cut at every byte and received whole; all tag combinations the
  parser knows; IPv4 headers of 0, 4, 5 and 6 words; all chains of up to two
  of four kinds of extension header, and chains of six, seven and eight of one
  kind, around the loop's limit of seven. A stale byte is 0 (a hop-by-hop
  header), 6 (TCP) or 255 (the longest header), which takes the walk to its
  furthest point.

## 4. Fairness

- Weak fairness of each thread's own steps, and of the clock: threads keep
  running.
- Strong fairness of `Lock(t)`: a thread blocked on the mutex gets it if it is
  released again and again. POSIX does not promise this for the default
  mutex; it is an assumption on the scheduler, and the liveness of section 3
  rests on it. With weak fairness only, one thread may take the mutex back
  for ever (processing does so while the raw list is not empty), and nothing
  could be said.
- Nothing is assumed of the backend in `pipeline_progress`: the point of that
  run is that a silent backend stops neither capture nor processing.
  `PacketsAreTakenInTraffic` assumes, within the property, that a request ends
  (`AnsweringBackend`) and that frames keep coming. `RecvNothing` and spurious
  wakeups are never assumed to happen.
- In `Delivery`, `ClientSpec` is weak fairness of the payload thread and
  `AnsweredSpec` adds that the backend comes back and handles what it
  receives. Faults are never assumed to happen.
- In `ConfigFiles`, weak fairness of the program and of `Type`: the operator
  answers as long as the input is open. Nobody is assumed to close it, to kill
  the process or to start it again.
- In `Agent`, weak fairness of `Exchange` (the payload thread keeps running once
  it has a batch) and of the backend's answers. Captures, parsing and faults are
  not assumed, nor that the payload thread comes for the packets: the code makes
  it come only while traffic goes on (section 6), and that is
  `PacketsAreTakenInTraffic` of `pipeline_progress`.

## 5. Proofs

TLAPS checks, for every capacity of at least 2, every threshold and window of
at least 1 and every number of frames (`PipelineAssumption`):

- `PipelineProofs`: `Invariance`, with `TypeCorrectness`, `Exclusion`,
  `CountersAgree`, `CapacityRespected` and `TestRespected`. None of these
  properties is inductive alone. The invariant `Inv` joins them with
  - `Places`: which labels belong to which thread, that `temp` holds a node
    exactly while processing is at `"parse"`, that payload has a batch in hand
    while it unlocks or sends, that capture holds a frame while it queues it,
    and that an exit ends all threads at once;
  - `TestSlack`: until capture looks at `test` again there is room for one
    more frame (`test + nmbr_itens` is strictly below its bound). Processing
    keeps the sum, capture adds one to it and then, reading `test` without the
    lock, either finds it below the threshold, and then the sum is below the
    bound because `nmbr_itens` is at most the capacity, or resets it.

  The lemmas `SurplusOfFull`, `LinkedProperties`, `AddItemFinds`,
  `TakeItemFinds` and `ForwardItemFinds` say what the list operations return
  on states of the invariant; the eviction loop frees at most one node,
  because the counters agree with the lists.

  Two more theorems, not properties of a run, are the safety half of the
  liveness that TLC checks. `NoSignalLost`: thread 2 sleeps on a list that is not
  empty only while capture is between `add_item` and the signal for it.
  `WaitingPacketsCount`: thread 3 does lose signals while it is away, but when it
  sleeps, all packets in its list count in `test`, or capture is between the reset
  of `test` and the signal: no packet waits that the threshold has forgotten,
  however many windows the thread missed.

- `PipelineQueueProofs`: `ArrivalOrder`. `OrderInv` restates the order of each
  pair of stages over their sets of elements, and adds that no frame in a
  stage is newer than `buffer`, the one capture received last; without that a
  frame just received could not be shown to be newer than those queued.
  Then `Refinement`, that the threads implement `DropOldestQueues` (raw queue =
  the node being parsed followed by the list), and `LossDiscipline`, that a frame
  disappears only from a full list. The step to see is `LinkedIsPush`: linking
  with eviction by counter is `Push`.

For every capacity of at least 2, every finite set of addresses and every set of
frame contents (`QueueHeapAssumption`):

- `QueueHeapProofs`: `TypeCorrect`, `FreedBlocksUnused`, `NothingLeaks` and
  `ListsImplementQueues`. The invariant is that some sequences `s` and `t` are
  the nodes of the two lists (`Inv == \E s, t : Shape(s, t)`):
  - `Blocks`: every live block belongs to exactly one of the raw nodes, the packet
    nodes and the packet structures, and every packet node has a structure of
    its own; nothing is leaked or shared, and a `free` frees what no other
    block points to;
  - `Links`: `s` and `t` are paths from the heads to an end, with no node twice,
    no live block points to a freed one, and the raw node taken still points to
    the head behind it;
  - `Ends`: the tail pointers are right as long as their lists are not empty,
    and only then (they dangle otherwise, and are replaced before they are used);
  - `Counts`: `nmbr_itens` still counts the node taken until `free_item` frees it;
  - `Places`: which pointers are in use during which operation.

  One lemma for each action says which `s'` and `t'` it leaves (`...Keeps`).
  That the lists hold what `Nodes` collects by following pointers is an induction
  along a path. The induction theorems of the library take an operator and
  cannot be used; `SetInduction` says the same of a set of numbers, from the
  library's `NatLessThanWellFounded` and `WFMin`, which take none. From it come
  `PathUnique` and `NodesArePath`. For the refinement, `Copies` (the packet under
  way is a copy of the frame of the raw node taken) joins the invariant, and one
  lemma for each action (`...Queues`) shows which step of the queues it is.
  Where an insertion evicts, the queues change once, when the first node has made
  room.

For every set of frames whose bytes are bytes, every contents of the bytes not
received and every block of at least 65535 bytes (`FramesAssumption`,
`StaleAssumption`, `ContentAssumption`, `LengthsAssumption`):

- `FrameParserProofs`: `BlockRespected`, `ChecksSuffice`,
  `PortsComeFromHeaders` and `TypeCorrect`, from one invariant. It adds
  - `LinkReceived`: the offset of the type and the length of the link header
    grow together, and the header up to the type was received, so that the
    next check counts from the right place;
  - `WalkBounded`: after `n` turns of the loop of `fill_ipv6` the walk has
    gone at most 62 + 2048 n bytes; seven turns end it, so it reads at most
    at byte 12352 although nothing is compared with `recvlen`;
  - `PortsChecked`: ports are only set behind the check for their header.

  One lemma for each action, with one step for each part of the invariant.
- `HeadersFound` (`TransportFound`), with nothing assumed of a frame but that it
  is laid out and received that far. `OnTrack` says of every step that the parser
  is where the frame has its next header and knows what the ones before it said:
  in the chain of extension headers, that the loop counter `k` counts them, the
  offset is `starts[k]` and the next header the one that follows there. One lemma
  for each action (`...Track`); `LinkFacts`, `NetworkFacts`, `ChainFacts` and
  `TransportFacts` say what `LaidOut` means for the bytes each of them reads.

For every list within the capacity, both tables and every buffer that `Fits`
allows (`PacketsAssumption`, `TablesAssumption`, `SizesAssumption`,
`FitsAssumption`, `HeaderAssumption`):

- `JsonPayloadProofs`: `BuffersHold` and `LengthsAgree`. The invariant bounds
  what is written by what was walked: a record is at most `MaxRecord`
  characters (one lemma for each thing that is appended to it), the payload at
  most `Opening` plus `MaxRecord` for each packet behind the pointer. That the
  last `snprintf` cuts nothing follows from the payload's bound and `Fits`.
- `DocumentWritten` (`PayloadIsDocument`), `NamesAgree` (`NamesAgreeBothWays`)
  and `TypeCorrectness`. `PayloadIsDocument` speaks of the end of the walk, so
  the invariant `DocInv` says it of every step: what is left of the list is its
  end (`Rest`), and each packet behind the pointer has its object, in order, with
  a comma exactly when it is not the last (`Frame`, `Objects`). `WrittenIsObject`
  shows that one round of the loop writes the object of its packet; `IsNamed`
  adds that its application is `NameOf` the packet, a function of the two ports
  that does not change when they are exchanged, unless the table names both.

For every number of descriptors, batches, failures and starts
(`DeliveryAssumption`):

- `DeliveryProofs`, in every environment, with orderly closes, answers in pieces
  and dirty stacks as well: `TypeCorrect`, `NoDescriptorLost` and
  `FileHoldsUuid`. The invariant `ClientInv` says only what the client keeps by
  itself, whatever the backend says and whenever:
  - `Descriptors`: every open descriptor is the socket or one that failed to
    connect;
  - `Presented`: from `get_UUID` on, and wherever the client sends, the UUID in
    memory is that of the file unless the file was emptied by a kill;
  - `InLoop`: a batch is in hand exactly where one is posted;
  - `StreamTypes`: what can stand in a buffer, also when it is what was there
    before, or was parsed from its middle.
- `DeliveryProofs`, in an *orderly* environment: resets, late answers, refusals,
  outages and kills, but no orderly close, no split answer and no dirty stack,
  where the code is wrong (sections 6 and 7): `CompletedAnswered`,
  `FirstAnswersInOrder` and `PresentedUuidIssued`, from the invariant `Inv`:
  - `Outstanding`: there is one request or one answer on the connection at most,
    and none where the client does not wait for one. Everything rests on it:
    the protocol has no request numbers, and an answer is taken for that of the
    request in hand because there cannot be another;
  - `RequestsRight`, `AnswersRight`: that request is the one sent last, and
    that answer the one to it; only a connection given up holds another, and
    then the client reads it no more (`Close`);
  - `Batches`, `AtHand`: of the batches of this process all but the one in
    hand were answered, and where one is in hand;
  - `Identity`: from the end of the authentication on the UUID in memory was
    issued by the backend.

  One lemma for each action, with one step for each part it can disturb.
- `AgentProofs`: `AgentDelivers` shows that a step of the client, seen without
  its frames, is a step of `Delivery`, so that `Delivery`'s invariants hold of it.
  `FramesAreAnswered` is then `Batches` about the frames of the batches.
  `FramesInOrder` needs `InSequence`: frames of a batch come before those of a
  later one, these before the packet list, this before the raw list, and all
  before the next capture, each list ascending. `AgentTypeCorrect` holds in every
  environment: it adds `Bounded`, that neither queue outgrows its capacity and no
  batch is empty, to `InSequence` and `Delivery`'s `TypeCorrect`.

For arrays of at least three characters, every set of characters and lines, and
any number of starts (`BuffersAssumption`, `CharactersAssumption`,
`LinesAssumption`), when the lines fit (`LinesFit`):

- `ConfigFilesProofs`: `LinesAnswerTheirQuestion`, `ConfigurationSurvives` and
  `TypeCorrectness`. The invariant says that what is unread is one whole line typed
  for the question on the screen (`LineIsAnswer`), that what was read is what was
  typed as long as the input is open (`ReadIsTyped`), and that the file, and the
  values that were read from it and are being written again, are the configuration
  entered last (`ConfigIsKept`). It rests on two facts about the program's texts:
  `FgetsTakesLine`, that `fgets` takes a line shorter than its array by three with
  its newline, and `WholeFileIsReadBack`, that skipping 10, 4 and 5 characters and
  dropping the last gives back what was written.

With these every invariant, action property and refinement that a passing run
checks is a theorem. Only model-checked are the six liveness properties, which
need fairness and `ENABLED` and so are out of the prover's reach: `RawQueueDrains`,
`CaptureKeepsReceiving`, `PacketsAreTakenInTraffic`, `RetriesEnd`,
`GreeterEnds` and `FramesInHandAreAnswered`. Two limits of what is proved:

- `AgentProofs` takes the queues of `DropOldestQueues` as they are; that the
  threads implement them is `PipelineQueueProofs`, that the lists do is
  `QueueHeapProofs`, and that these results hold of one program together is read
  from the modules, not proved.
- `CompletedAnswered`, `FirstAnswersInOrder`, `PresentedUuidIssued`,
  `FramesAreAnswered` and `FramesInOrder` assume an orderly environment, and the
  theorems of `ConfigFilesProofs` that lines fit. Without these conditions the
  code does not keep the properties (sections 6 and 7).

## 6. What is not modelled

- `services_table.h`: 11705 generated lines, nine tenths of the repository's
  code, with no operation in them. `JsonPayload` takes the tables as constants
  and assumes that a name has at most 63 characters. The share of the
  implementation that the models cover is low for that reason alone: of the lines
  of `src/src/` most are mapped.
- The text of requests and addresses, HMAC, time formatting: data with no
  control.
- A clock set back (`currsecs - secs` negative): the window would open late.
- A silent interface. The window is examined only after `recvfrom` returns
  (main.c:278-298), so packets parsed last wait until another frame arrives,
  although README.md:19 has thread 3 consume the queue periodically. The
  properties assume traffic where they need it.
- Results of `recv` ignored at main.c:120 and 183: after a timeout the status
  is read from an array that was never written. `"dirty"` models what may stand
  in it, and a late answer is then taken for that of the next request; no
  run claims anything of it.
- Bytes of IPv6 extension headers that were not received. The loop of
  `fill_ipv6` (packet_service.c:93-161) does not know `recvlen`; the model reads
  any byte there, and `HeadersReceived` makes an exception of those bytes and of no
  others: the fixed header of IPv6 and the transport header behind the chain are
  checked. The ports are never such bytes (`PortsReceived`); the protocol and the
  total length of a frame cut there may be.
- Lines that do not fit. The prompt of security.c:149 asks for a key shorter than
  256 characters, but `fgets(key_stack, 255, stdin)` keeps 254 of them with the
  newline: a key of 254 characters leaves its newline, which answers the question
  for the URL, and a longer one its end. Keys of up to 253 characters, URLs
  of up to 77 and ports of up to 7 are safe; `LinesFit` is that limit, and the
  checks of `create_security_file` against 256, 80 and 10 can never fail. A first
  answer of two characters is read as a character and the start of the key.
- An input that fails during the greeter's dialogue leaves the arrays as the stack
  had them, and the greeter may ask again; `GreeterEnds` excepts it.
- What a process has in its lists and in hand when it is killed or calls `exit(1)`
  is lost. The properties of `Agent` speak of the process that runs.
- Short `send`s: the code ignores the count, and so does the model.
- Allocation failure and `pthread_create` failure, which the code ignores.
- Which configurations name a host: `getaddrinfo`'s result is ignored
  (main.c:74), so that the process may die of it; `Serve` leaves it open.
- What the backend does with a refused batch. The client reports it complete
  and drops it: README.md:107 lists the handling of error codes as not done,
  so `CompletedAreAnswered` asks for an answer and not for a 200.
- An answer whose body comes in a second segment ends in a wrong UUID
  (misc.c:23). `"split"` models it; only `delivery_live` allows it.
- Fragments of IPv4: `fill_ipv4` does not look at the fragment offset, so the
  payload of a later fragment is read as a transport header. No document says
  what should be reported, and no run claims anything of it.
- The build files, and `buffer_parsing_thread.h`, whose functions nothing
  defines or calls.

## 7. Findings

1. `delivery_closed`: an orderly close makes `recv` return 0, which the loop
   at main.c:228 does not treat as a failure; the status is then read from
   the previous answer and a batch nobody received is reported complete.
2. `delivery_timeout`: `SO_RCVTIMEO` is set on the first socket only
   (main.c:144); after a reconnection a silent backend blocks the thread.
3. `delivery_outage`: the connect loop (main.c:77-78) opens a socket at every
   turn and closes none; once descriptors run out it never connects again.

Section 6 has more places where the code and its documents differ, without a
run of their own.

## 8. Plan

1. Done: `DropOldestQueues`, `Pipeline`, `QueueHeap`, `Delivery`, `FrameParser`,
   `ConfigFiles`, `JsonPayload`, `Agent`, with proofs about all of them, of every
   safety property and every refinement that a run checks.
2. `Agent` over `Pipeline` itself in place of its abstraction, with the threads,
   so that what is proved of both is one theorem.
3. `JsonPayload` takes the capacity of the list as an assumption; a lemma that
   joins it with `CapacityRespected`.
