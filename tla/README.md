# TLA+ models of VehicleScan

VehicleScan lets a driver see, in an Android app, what the ECUs of a car say
over CAN.  This directory holds TLA+ models of its concurrent and
message-passing parts, the TLC configurations that check them on small
instances, and TLAPS proofs about the models for all instances.
`PROJECT.json` maps every definition to the lines it models.

    tlc -workers 2 -config server.cfg MCUdsServer    # any run of PROJECT.json
    tlapm UdsServerProofs.tla                        # any *Proofs module

## 1. The system

| component | source | state | operations | how it meets the others |
|---|---|---|---|---|
| UDS server library | `src/can_uds/server` | `running`, `request_queue`, `queue_mutex`, `queue_cv`, `current_session`, the registered services | `start`, `stop`, `receiver_loop`, `receive_request`, `handle_request`, `send_response` | reads and writes an ISO-TP socket through CAN_TP; a receiver thread and the caller's thread share the queue |
| server process | `src/service_handler` | `keep_running`, set by a signal handler; values of data identifiers | main loop, `read_data_handler` | uses the library; its handler is called by `handle_request` |
| UDS client library | `src/can_uds/client` | `currentSession`, `tx_mutex` | `set_session`, `send_request`, `send_request_no_response` | several threads share one object and one socket |
| ISO-TP wrapper | `src/can_tp` | one socket and what it is bound to | constructor, `send`, `receive`, `set_receive_timeout`, `set_flow_control` | called by both libraries |
| test programs | `src/can_uds/client_test`, `src/can_uds/server_test` | the values of the test server; where the client is in its tests | a sequence of calls; a server loop | use the two libraries on one interface |
| CAN controller driver | `src/can/MCP251x`, `src/can/SPI` | two callbacks; the registers of the chip | `transmit`, `receive`, `onTransmitComplete`, `onReceive`, `poll` | SPI transactions with a chip that sends and receives meanwhile |
| single-frame UDS stack | `src/can/UDS` | two callbacks | `sendRequest`, `sendPositiveResponse`, `sendNegativeResponse`, `checkReceived` | over the driver |
| diagnostic app, trouble codes | `src/Diagnostic_Android_App` | the codes of `UdsData`, the screens, callbacks registered with the car's property service, polling loops, a report file | navigation, polling, clearing, sending a message or a report over Wi-Fi | main thread, property service, threads of `WifiSender` |
| diagnostic app, dashboard | `src/Diagnostic_Android_App` | the flows of `MainActivity`, its callbacks and its polling loop, the dashboard's view, collectors and posts | life cycle, polling, events, showing | main thread, property service |
| boot script, other tests, overlays, gauge library | `src/can_setup`, `src/can_tp_*`, `src/external`, ... | | | see section 8 |

The client and the server meet on an ISO-TP link: requests and responses are
whole messages, in order each way.  The stack of `src/can` is a second, older
way to talk over CAN and shares nothing with the first.  The app asks the car
through Android's vehicle properties, whose other end is not in this
repository.

What is hard about it, with the lines in `PROJECT.json` ("hazards"):

- the server's two threads and their queue, wakeups, and a shutdown that
  depends on who sleeps where;
- reads, writes and handlers that fail in the middle of a round, and a server
  that ends and starts again while clients believe in what it was;
- sessions: which request is judged in which session, and whether the two ends
  agree on it;
- a client whose calls time out while the answer is on its way, shared by
  threads;
- sockets that were never made or bound, with nobody looking, and messages
  longer than a buffer or than the link carries;
- a controller that acts between any two SPI transactions of the driver, and a
  driver that dies between them;
- byte arithmetic of identifiers, lengths and buffers;
- screens that are destroyed while callbacks, loops, posts and threads still
  refer to them, several threads over one file, and values that are missing.

What makes each part correct is stated with its runs in section 4.

## 2. Modules

| module | models | proofs |
|---|---|---|
| `UdsProtocol` | requests, responses, `handle_request`, session control, the read handler: pure operators | `UdsProtocolProofs` |
| `SerialResponder` | what a diagnostic server promises: one request at a time, in order, in the session left by those before it, each answered at most once. Abstract, without threads | |
| `UdsServer` | both threads of the server with main's loop, queue, mutex, condition variable and failures | `UdsServerProofs` |
| `UdsClient` | the three calls of the client, step by step, for any number of threads | |
| `UdsExchange` | `UdsClient` composed with `SerialResponder` over a link that may lose responses, and a server that may start again | `UdsExchangeProofs` |
| `UdsSystem` | `UdsClient` composed with `UdsServer`: callers, link and both server threads, with a process that ends, is killed and starts again | `UdsSystemProofs` |
| `CanTp` | the wrapper of ISO-TP sockets: making, binding, sending, receiving, flow control, every system call failing unnoticed | `TestBenchProofs` |
| `UdsBytes` | requests and responses as bytes: the handlers of both server programs and the client's reading of a response; pure operators, and how they relate to `UdsProtocol` | `TestBenchProofs` |
| `TestBench` | `client_test`, `server_test`, `service_handler` and a reader on one interface, over `CanTp` and `UdsBytes` | `TestBenchProofs` |
| `Mcp251x` | the driver on the nodes of a bus, each SPI transaction a step, and the controllers | `UdsFrameProofs` |
| `UdsFrame` | the single-frame stack on top of `Mcp251x` | `UdsFrameProofs` |
| `WifiSender` | the clicks that send, their threads and the report file | `DiagnosticAppProofs` |
| `DiagnosticApp` | the list of trouble codes with its screens, callbacks and polling loops, the property service, and `WifiSender` | `DiagnosticAppProofs` |
| `Dashboard` | the dashboard: flows, callbacks, collectors, posts of the gauges, the polling loop, over the life cycle of activity and view | `DashboardProofs` |
| `MC...` | model values and small sets for TLC | |

    UdsProtocol <- SerialResponder <- UdsServer      (implements it)
                                   <- UdsExchange <- UdsClient
    UdsServer, UdsClient <- UdsSystem                (implements UdsExchange)
    UdsProtocol <- UdsBytes;  CanTp, UdsBytes <- TestBench
    Mcp251x <- UdsFrame
    WifiSender <- DiagnosticApp
    Dashboard

### The server (`UdsServer`)

`rcvPc` and `mainPc` say where the two threads are.

- Receiver thread, `receiver_loop`: `CheckRunning`, `ReadRequest` or
  `ReadTimeout`, `LockToPush`, `Push` (push and unlock), `Notify`.  `ReadError`
  ends it: every exception but a timeout leaves the loop.
- Main thread, `main`: `Start`, `CheckKeepRunning`, `LockQueue` and
  `TakeRequest` or `Wait` (the predicate under the lock, and the atomic
  unlock-and-sleep of a condition variable), `Handle` or `HandlerThrows`,
  `Send`, and at the end `Stop`, `Join`, `Destroy`.
- Around them: `Arrive` (a request in the socket), `Interrupt` (SIGINT), and
  `SpuriousWakeup`, which a condition variable may have.

A request is its service and the items after it.  The value an identifier
reads as is a function of the identifier, so a positive read response is
represented by the identifiers it answers.  `taken` and `served` are history:
what the receiver thread has read, and what was handled in which session.

### The client (`UdsClient`, `UdsExchange`)

A call is `Begin`, `Lock`, then `Send` and `Receive` or `Timeout`, with
`SendNoResponse`, `SetTimeoutFails` and a failing read beside them.  The
response a call reads is whichever is first in the socket; what it makes of it
is `SetSessionResult` or `SendRequestResult`.  The server is the abstract
responder, with `toServer` as its pending requests and `toClient` as its
replies.  `outOfStep` is history: some call has returned with its response
still to come; `lost` says what the link and the server have lost.

### The whole connection (`UdsSystem`)

`UdsSystem` extends `UdsServer` and takes the steps of the client from an
instance of `UdsClient`: what a call writes is appended to the socket the
receiver thread reads (`rx`), what the main thread writes is what a call reads
(`tx`).  `Killed` ends the server process wherever its threads are;
`StartsAgain` begins a new one with an empty queue, no requests and the
default session.  The refinement maps the requests under way, in socket, hands
and queue, to the `toServer` of `UdsExchange`, and the session the client has
been given, or will be by the response in the main thread's hand, to its
`serverSession`.

### The programs on the bench (`CanTp`, `UdsBytes`, `TestBench`)

Here messages are bytes.  `NewSockets` gives the sockets a constructor may
leave behind: with `socket()` or `ioctl()` failing, the interface index is
whatever lies in `ifr`, and `bind()` may bind to another interface or to none.
`client_test` runs through its script (`Script`), a reader asks
`service_handler` once, clients come and go, interfaces come up after the
programs have started.  The server serves a request at a time, which is what
its threads come to (`ImplementsResponder`).  `BytesFollowProtocol` relates
its steps on bytes to `UdsProtocol` through `Decode`, `Encode` and
`SessionOf`, so the abstract handlers and sessions all other modules use are
checked against the byte-level ones.

### The driver (`Mcp251x`, `UdsFrame`)

`pc[n]` says which SPI transaction node n makes next: `Load` and
`RequestToSend` of `transmit`, `ReadStatus`, `ReadBuffer`, `ClearFlag` of
`receive`, `PollControl`, `EndCallback`, `PollStatus` of `poll`.  `SpiFails` is
a transaction that throws, with or without its effect on the chip
(`TakenAnyway`): the program ends and may start again (`Reset`,
`SetNormalMode`), while the chip goes on.  The chip is external and modelled
from how the driver uses it: `SendOnBus` sends the pending frame to every node
whose receive buffer is free.  Frames are turned into the thirteen registers
and back with the driver's own arithmetic (`RegistersOf`, `FrameOf`, `IdOf`),
including the byte it reads behind the end of a vector, which may be any of
`StrayBytes`.  Four histories say what became of frames: `requested` and
`sent`, what `transmit` asked for and what left the transmit buffer, `stored`
and `received`, what the controller kept and what left the receive buffer; a
frame that a failure or a reset takes away is in `sent` or `received` as lost.
`torn` marks a node that failed while it wrote over a pending frame.
`UdsFrame` adds messages, their framing, with the length in eight bits, and the
dispatch to callbacks.

### The app (`DiagnosticApp`, `WifiSender`, `Dashboard`)

An action of the main thread is one handler, since the main thread runs one at
a time; the writing of the report file is two steps, because other threads may
read the file meanwhile. `rewritten` is history: the reports that a later click
was writing over, or failed to write, before their thread had read them.
`stack` and `saved` are the screens Android's navigation keeps, `registered`
the instances whose callbacks were never unregistered, `loops` the polling
coroutines.

In `Dashboard` the flows (`flow`) and the callbacks (`registered`) outlive
every activity, collectors live while their view is visible (`collecting`),
and the set-up of a gauge is posted and may run after its collector
(`RunPost`).  `Display` and `Posted` say what a gauge or a text shows of a
value, with clipping, units and thresholds as in the code.

Navigation and the property service of the car are external: they are modelled
as this code uses them.  An exception nobody catches ends the process (`alive`
becomes FALSE): that of an event without a value, of a call to the property
service (`PollThrows`, `ClearThrows`), of a callback or thread without a
context.

## 3. Faults

`Faults` names what may go wrong in an instance, so a run can say which faults
it is about: SIGINT and a socket error at any time, writes that fail unnoticed,
a handler that throws (server); a timeout before a late response, a failing
write, a failing read, a lost response, a server that starts anew (client); a
server process that is killed or ends and starts again (`Killed`, `StartsAgain`
of `UdsSystem`, at most `MaxStarts` times); a kernel without ISO-TP
(`no_isotp`) and interfaces that come up late (`CanTp`); failing SPI
transactions, so many on each node (`MaxFailures`), which the chip may have
taken or not: the mode set, part of a frame loaded, the request to send, the
flag cleared; a car that refuses to answer or sends an event without a text
(`MaxFaults`), or has no value (`Missing`).  Calls to the property service
throw, and connections and writes of the Wi-Fi threads fail, whenever they
like.

## 4. Runs

All runs are exhaustive.  Deadlock is not an error in any: each bound lets the
instance stop, and the programs themselves may end.

| run | states | what it shows |
|---|---|---|
| `server` | 132,410 | requests reach the handler once and in order (`FifoService`), no wakeup is lost (`NoLostWakeup`), the queue is touched under its mutex only (`QueueIsGuarded`), data is read out only in a session the client was told it may be (`ReadsOnlyInAllowedSession`), the threads end in an order in which nothing they use is gone (`NoThreadOutlivesServer`), the whole implements `SerialResponder` (`ImplementsResponder`), and each request that is read is handled (`EveryRequestHandled`); told to stop, it stops with the next request (`ShutdownOnNextRequest`) |
| `exchange` | 411,214 | a call's success or refusal is the answer to that very call until some call has given up on its response (`AnswersOwnCall`, `NothingLeftOver`), both ends agree on the session (`SessionAgreement`), after such a call they never get in step again (`OutOfStepForGood`), and every call returns (`EveryCallReturns`) |
| `system` | 101,838 | client, link and threaded server together are an exchange, with a process that is killed or ends and starts again (`ImplementsExchange`); while both ends can agree on the session, the session the client keeps decides what its reads get (`SessionDecidesReads`); a call that waits, waits only for a server that has stopped reading (`EveryCallIsServed`) |
| `test_bench` | 216,095 | tests 2 to 4 of `client_test` come out as its messages say, in every run that meets an idle server, whatever earlier runs left behind (`FirstTestsPass`); a reader that is told of success has the values of all its identifiers, or as many bytes as its buffer holds (`ReadsAreWhole`); a client in touch with the server is answered unless the response is longer than the link carries (`OnlyLongResponsesVanish`), and nobody is told of success over a socket that is not the server's (`SuccessComesOverTheBus`); `service_handler` is, byte by byte, the server of the abstract protocol: what it serves next, what it answers and which session that leaves (`BytesFollowProtocol`) |
| `can_driver` | 452,258 | no frame a controller kept is doubled or overtaken, and none is lost but two for each failed transaction of that node (`NothingReceivedIsLost`); frames go out as and in the order `transmit` asked for them, but one for each failure, until it is called too early (`SentAsAccepted`); they arrive as they were on the bus but for an eighth byte (`ArrivesIntact`); the completion callback comes, and not before the frame is sent (`CompletionMeansSent`, `CompletionIsReported`) |
| `uds_frame` | 3,054,720 | what a callback gets is a message another node was asked to send, whole as far as its length byte counts, and of the callback's kind, although the driver drops the eighth byte (`MessagesArriveWhole`) |
| `diagnostic_app` | 861,476 | all lists that show codes agree with `UdsData` (`ShownIsCurrent`); but for a property service that throws or sends an event without a text, only an instance that is gone can end the app (`OnlyCarAndGoneScreensAreFatal`); a list that stays visible catches up with the car (`ListCatchesUp`), and each click is answered or the app has ended (`EveryClickIsAnswered`) |
| `dashboard` | 1,208,036 | what can be seen of speed and texts is what the flows hold, in every order of posts, collectors, events and life cycle (`ViewFollowsFlows`), and on a dashboard that stays on the screen they show in the end what the car has (`DashboardCatchesUp`) |

The other runs each show one disagreement between the code and what its
comments, messages or layouts say; TLC finds the property violated.

| run | property | what happens |
|---|---|---|
| `server_ctrl_c` | `ShutdownCompletes` | after Ctrl-C on an idle server main sleeps on `queue_cv` for ever: the wait is for a request and nothing else |
| `client_test` | `ClientTestAsAnnounced` | three announcements of `client_test` at once, each false in the last state of the trace: `set_flow_control` passes its structure under another option and after `bind()`, so the socket keeps the default (`FlowControlIsSet`); the "invalid subfunction" of test 5 is confirmed and becomes the session (`InvalidSubfunctionIsRefused`); the request of test 6, "no response expected", is answered (`NoResponseIsSent`) |
| `report_race` | `SentReportIsWhole` | a second click on the report button empties the one report file before the thread of the first has read it: an empty report is sent, and "Report sent via Wi-Fi" is shown |
| `engine_gauge` | `EngineGaugeCatchesUp` | the post of the gauge labelled "x1000 RPM" shows the value undivided, clipped to the end of the gauge, and nothing corrects it while the value stays |

Every property of a passing run has a mutant in `PROJECT.json`: a definition of
the model with one plausible bug (a notify that wakes nobody, a lock not waited
for, a flag cleared too early, a post that shows nothing) for which TLC finds
the property violated. The mutated operators stand next to the steps they are
variants of; no specification uses them.

### Bounds, and why they are enough

- `MaxRequests = 3`, `MCArrivals` (`server`): two requests fill both the queue
  and a hand, the third makes a queue of two; two session switches before a
  read are the least that tells the last from an earlier one.  The arrivals
  differ in what they allow and how they are answered.
- `MaxCalls = 3`, two callers (`exchange`): one call that times out, and two
  that may run against each other after it.
- `MaxCalls = 2`, `MaxStarts = 1`, two callers (`system`): two calls that race
  for the lock or follow each other, one of which may leave its answer behind,
  with an end of the server anywhere between them.  `MaxRequests` is zero
  because the requests come from the callers.
- `BufferSize = 10`, `MaxPdu = 12` (`test_bench`) stand for the 4095 bytes of
  `receive()` and the kernel's bound on a message.  The reader's requests have
  responses shorter than the buffer, of its size, longer, and longer than a
  message may be.  `MaxRuns = 4` clients: what a run leaves behind (a session
  no service allows, a response nobody read) meets both kinds of client twice.
- `MaxTransmits = 2`, one failure of one of two nodes (`can_driver`): a frame
  pending when the next is loaded, in either direction, and one restart at any
  transaction, on the side that sends or that receives.  The frames are the
  longest, with the greatest identifier, and an empty one.  In `uds_frame` the
  messages have no parameters, as many as a frame may take, one more, and so
  many that their length in eight bits is short again; three transmissions let
  a request, its answer and another message pass.
- `MaxScreens = 2`, `MaxLoops = 2`, `MaxPending = 2`, `MaxFaults = 1`, one
  click (`diagnostic_app`): one list under, after or instead of another, with a
  question and an event under way, and a click whose thread outlives its
  screen.  In `report_race` there are two clicks on one screen, and no fault is
  needed for the second to empty the report of the first.  What else two clicks
  can do to each other's report is settled for any number of them by the theorem
  `ReportsArriveWhole`.
- Both gauges and two texts, `MaxPending = 2`, `MaxChanges = 2` (`dashboard`):
  the third text differs from the others in its thresholds only; two changes
  let a value go and come back, or go missing after it has changed.

No symmetry reduction is used where liveness is checked.

### Fairness, and why the code justifies it

- `UdsServer`: weak fairness of both threads, which the scheduler owes them.
  Strong fairness only of the receiver's lock: spurious wakeups alone, each
  with a turn of the main thread at the mutex, do not keep it out for ever.
  Nothing obliges a request to arrive, a signal to come or a fault to happen,
  and a read times out every second.
- `UdsExchange`: weak fairness of each caller's step (a blocked read ends by
  its timeout), strong fairness of its lock, as several threads hand the mutex
  on, and weak fairness of the server.  No thread has to begin a call.
- `UdsSystem`: the fairness of the two above.  Nothing obliges a server that
  has ended to start again.
- `Mcp251x`: weak fairness of a program inside a driver call, and of sending:
  the bus and an acknowledging node are assumed.  Strong fairness of `Poll`
  because a program that waits for a callback polls in a loop, between other
  calls of its own choice.
- `DiagnosticApp`: weak fairness of the property service, event delivery and
  threads.  Strong fairness of each polling loop: a question is asked every
  second while the loop lives, and what disables it again and again in the
  model is only the bound `MaxPending`, or the main thread writing the file,
  which it always finishes.
- `Dashboard`: weak fairness of the property service, of event delivery and of
  posts, which the main thread runs in turn, and strong fairness of the polling
  loop, for the same reason as above.
- `TestBench` states safety only.

## 5. Proofs

TLAPS proves these for every value of the constants that satisfies the named
assumptions (`ProtocolAssumption`, `ServerAssumption`, `ClientAssumption`,
`SystemAssumption`, `FrameAssumption`, `MessageAssumption`, `NoSendAssumption`,
`AppAssumption`, `DashboardAssumption`, `CanTpAssumption`, `BenchAssumption`),
which TLC evaluates in the runs.  Those of the bench say that buffer and
message bound hold more than seven bytes, a message of one frame (the code's
buffer has 4095, and the kernel's bound is no smaller), that a reader asks
something that is a message, and that `KnownDids` are the identifiers
`service_handler` has values for.  They leave open which requests are read and
how long they and their responses are, which bytes foreign sessions are, what
interfaces there are and come up, and how many clients come.

| theorem | module | argument |
|---|---|---|
| `TypeCorrect`, `RequestsInOrder`, `WakeupsAreNotLost`, `MutualExclusion`, `OrderlyEnd` | `UdsServerProofs` | `IInv` = types, `QueueIsGuarded`, `ThreadOrder`, `NoLostWakeup`, `FifoService`. `FifoService` counts the request in each thread's hand, so that each step moves exactly one request from one place to the next; it needs the mutual exclusion, for `Push` and `TakeRequest` both change the queue. `ThreadOrder` says the receiver runs only between start and join |
| `Refinement` | `UdsServerProofs` | the requests of the responder are those in the main thread's hand, the queue and the receiver's hand, in this order (`MainHand`, `ReceiverHand`); `AnswerInHand` says the response about to be sent is the one to the request in hand. `Send` is the abstract answer, everything between two of them a stutter |
| `ReadsAreAllowed` | `UdsServerProofs` | `HandledInToldSession`: each record of the history, and the next request to be handled, is in the session that the positive responses before it tell |
| `TypeCorrect`, `CallsGetTheirOwnAnswers`, `NothingIsLeftOver` | `UdsExchangeProofs` | `LockHeld` (the mutex is held exactly from send to receive), `InStep` (while nothing is out of step, all that is under way is one request or its one answer, for the caller that waits) and `AnswersOwnCall`: the lock makes the waiting caller unique, `InStep` makes the first response its own |
| `StaysOutOfStep` | `UdsExchangeProofs` | more is under way than callers wait for, and no step but a loss makes the difference smaller |
| `SessionsAgree`, `ReadsAsKept` | `UdsExchangeProofs` | `Agreement`: the sessions are the same unless the answer to a call is in the socket, and then the server is where that call takes the client; `AnswerInStep` says as much of the answer itself |
| `SystemRefinement` | `UdsSystemProofs` | `SystemInv` carries `IInv` and `AnswerInHand` over to the composed system; each step of either side is then a step of the exchange or a stutter, an end of the process its `ServerRestarts` |
| `SystemCallsGetTheirOwnAnswers`, `SystemSessionsAgree`, `SystemReadsAsKept` | `UdsSystemProofs` | the theorems of `UdsExchangeProofs`, instantiated under the refinement mapping (`Facts`): what holds of the exchange holds of client and threaded server. The last supposes that only `set_session` changes sessions |
| `TypeCorrect`, `FramesAreNotLost`, `FramesArriveIntact` | `UdsFrameProofs` | `Received`: the frames kept are those delivered or lost, in order (`KeptInOrder`), each has a place on the bus (`Places`), and was delivered intact. `Bounded` is the budget of losses: the losses of a node, and those that the failure it has not restarted from has yet to cost (`Due`), are paid for by its failures; a program that is set up has nothing in its buffers (`Configured`), so a second failure before normal mode costs nothing. Intactness rests on `FrameArrives`: for every standard identifier and all data, decoding the registers gives the frame back but for the eighth byte (`StandardId`: the shifts and masks are inverses) |
| `FramesAreSentInOrder`, `CallbackAfterSending` | `UdsFrameProofs` | `Sent` adds that a frame loaded but not yet sent for is the one being transmitted, with no other pending; `Bounded` as above |
| `MessagesAreWhole` | `UdsFrameProofs` | framing and parsing are inverses for up to five parameters (`BytesOfMessage`, `MessageOfBytes`), no message makes a frame of eight bytes (`Carries`), and every buffer that will be sent or read carries a message that a node, another one where it is received, was asked to send (`FramesCarry`). The driver's lemmas are stated for a step with any frame (`AnyNext`) so that they serve here. A message of any length is covered: what is framed, and comes back, is what its length in eight bits counts (`Counted`), which is all of it below 256 parameters. Only a sender whose failed load wrote over a pending frame (`torn`) is exempt |
| `ReportsArriveWhole` | `DiagnosticAppProofs` | while the main thread writes the file, every thread that had it still to read is in `rewritten` (`Writing`); at any other time it is whole for the readers that are not (`FileIsWhole`); what was read is carried to the network (`CarriesWhole`). For the other direction, a report in `rewritten` is lost for good (`RewrittenAreLost`): the file it finds, what it carries and what it hands over are not whole. `Moves` treats all steps of a thread by what they have in common |
| `TypeCorrect`, `ViewsAreCurrent`, `OnlyGoneScreensEndTheApp` | `DiagnosticAppProofs` | `ListInv`: screens are numbered as they are made (`Numbered`), those of the stack are the attached ones, and whoever has an adapter has its callbacks registered, so that every event reaches every view |
| `TypeCorrect`, `DashboardFollowsFlows` | `DashboardProofs` | `ViewFollowsFlows` is inductive with `CollectorsHaveView` (collectors run only in a view that can be seen). It is about speed and texts; the engine's gauge is what `engine_gauge` is about |
| `BenchInvariant` | `TestBenchProofs` | `BenchInv` = types; `Sockets` (a bound socket has the identifiers of its program, one that is not gets nothing); `Asks` (the call that waits is the one its program makes at this step); `Served` (the last exchange is what the handler of the serving program made of that request in that session); `Runs`: for a client that is in touch with the server, where the call is that waits (`BeforeServer`, `BeforeClient`, `Dropped`) and what those before it were told. Being in touch ends by leaving and begins only with empty boxes, so that what an earlier client left behind cannot come in (`StaysInTouch`, `StartsIdle`) |
| `BenchTypes` | `TestBenchProofs` | `BenchInv` has the types; the handlers make bytes of bytes, whatever the request (`ReadDidIsBytes`, `HandledIsResponse`, `ReceivedBytes`), and the session is one of them |
| `BenchFollowsProtocol` | `TestBenchProofs` | a refinement, step by step: `HandlersFollowProtocol` says that for a request of any length in any session the bytes `service_handler` answers encode what the abstract `HandleRequest` answers to the decoded request, `SessionFollows` the same of the session it leaves, `OthersAsk` that any other step at most adds a request at the end |
| `BenchReadsWhole` | `TestBenchProofs` | `ReadsWhole`: a read that is told of success has all values in the order asked for, or the first bytes of them that the buffer holds |
| `BenchFirstTestsPass` | `TestBenchProofs` | `TestRun` keeps the session at 3 for the reads of the script and the answers at `TestAnswer`; `TestResults` is the outcome of each |
| `BenchSuccessOverTheBus` | `TestBenchProofs` | `BusInv`: while the client waits for a response, only what a server on its own interface has sent can be in its box, and a call on no socket throws; the one call told of success without a response is the last of `client_test` (`NoResponseIsLast`) |
| `BenchOnlyLongVanish` | `TestBenchProofs` | a call in touch is before the server, before the client, or its response was `Dropped`, and then it was longer than `MaxPdu` |

The loops over the identifiers of a request, and the joining of their values,
are recursive functions of the number of rounds.  What they compute for a
request of any length is proved without an induction theorem: a set of numbers
has a least element (`LeastOfSet`), so there is no first round at which the
claim fails (`FunctionByRecursion`, `LoopGrows`, `LoopStops`, `LoopEnds`).

`ExtendedId` is a lemma about a limit rather than a virtue: it states exactly
what survives of an extended identifier, whose encoding and decoding do not
agree on two of its bits.

Only model-checked is liveness (`EveryRequestHandled`, `ShutdownOnNextRequest`,
`EveryCallReturns`, `EveryCallIsServed`, `CompletionIsReported`,
`ListCatchesUp`, `EveryClickIsAnswered`, `DashboardCatchesUp`): the installed
prover reasons neither about ENABLED nor about fairness.

Every invariant and every safety property of a step that a passing run checks
is stated by a theorem, and so are both refinements.  `ReportsArriveWhole` says
more than any run checks: which reports the race of `report_race` spoils, and
that it spoils no other.

## 6. Findings

They are listed with quotations and lines in `PROJECT.json` and shown by the
runs of the second table above.  In short: Ctrl-C does not stop an idle server;
flow control is never set; an invalid session is confirmed, and a request for
which no response is expected is answered; a second click spoils the report of
the first; the engine's gauge shows raw rpm on a scale of thousands (and its
collector divides by 2000, not by 1000).

Two defects are stated by properties that hold, in place of runs that violate
one:

- a response that arrives after its call timed out answers the next call, with
  success if both are reads: `OutOfStepForGood` says that from then on every
  call reads the response to an earlier one, and `AnswersOwnCall` has to
  suppose that no call has given up yet;
- the eighth data byte of a CAN frame is read behind the fourteen bytes
  `receive` has transferred: `ArrivesIntact` has to leave that byte out.

Behaviour met while modelling that no document of the repository denies, and
that is therefore in the models but in no run of its own:

- a `PrintWriter` reports no errors, so a message the network refused is shown
  as sent;
- a poll that follows a callback forgets the callback that one has set;
- a positive response of six bytes or more is not sent, and nobody is told; one
  whose length is at most five modulo 256 is sent cut off (`UDS.cpp:85-90`);
- an event without a value ends the app, in the list of codes and for the texts
  of the dashboard, and so does a property service that throws.

## 7. Plan

Done, in this order, the most important behaviour first: protocol, server and
its abstract specification, client and exchange, driver, single-frame stack,
trouble codes; then the whole connection with restarts, the sockets, bytes and
test programs, the dashboard; then proofs of every invariant, of the steps and
of both refinements; last those of the bench and its bytes.  What could follow:

1. The life cycle of the server library in other orders than its programs
   use: `start` twice, `stop` from a handler, `register_service` while
   requests are served.
2. Filters and masks of the driver, once something calls them.

Runs stay few: a new module shares a run with the one it extends, or
replaces the run it subsumes.

## 8. Not modelled

- What the kernel does of system calls is external and modelled from how the
  wrapper uses them: `CanTp` keeps what a call may leave behind, not why.
- `start`, `stop` and `register_service` called in other orders than by the
  programs of the repository.
- `setRxMask`, `setRxFilter` of the driver: nothing calls them, and they write
  registers the model does not need.  Opening and configuring the SPI device
  happens once, before anything else, and failing ends the program.
- The ISO-TP socket tests and the test programs of the MCP251x driver: manual
  programs whose calls are among those `TestBench` and `Mcp251x` make.
- The boot script: its effects are interfaces that come up late and one that
  goes down under a server (`socket_error`).
- `UdsAdapter`, layout, widgets, overlays, boot animation, build files and the
  vendored gauge library: no logic of this program.
- Logging, formatting and the wording of messages, except where a message
  claims something a run examines.
- Extended frames in TLC's instances: nothing in the repository sends one; the
  lemmas treat both kinds.
