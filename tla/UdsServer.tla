------------------------------ MODULE UdsServer ------------------------------
(***************************************************************************)
(* The diagnostic server process: CAN_UDS_SERVER as main() of              *)
(* service_handler drives it.                                              *)
(*                                                                         *)
(* Two threads.  The receiver thread moves requests from the ISO-TP socket *)
(* into request_queue and notifies; the main thread takes them out, handles*)
(* them and writes the responses.  They share the queue, its mutex and     *)
(* condition variable, and the flag running.  SIGINT clears keep_running.  *)
(* A program counter of each thread names the statement it is about to     *)
(* execute; a thread in "waiting" is blocked on queue_cv.                  *)
(***************************************************************************)
EXTENDS UdsProtocol

CONSTANTS
  Arrivals,     \* the requests clients send
  MaxRequests,  \* bound: how many requests ever reach the socket
  Faults        \* the faults the environment may inject

FaultKinds == {"signal", "socket_error", "write_error", "throw"}

ASSUME ServerAssumption ==
  /\ Arrivals \subseteq Requests
  /\ MaxRequests \in Nat
  /\ Faults \subseteq FaultKinds

VARIABLES
  running,          \* CAN_UDS_SERVER::running
  keep_running,     \* keep_running of service_handler
  rcvPc,            \* where the receiver thread is
  buffer,           \* the request the receiver thread has read
  mainPc,           \* where the main thread is
  request,          \* req, the request in hand of the main thread
  response,         \* resp, what it is to be answered with
  request_queue,
  queue_mutex,      \* the thread that holds it, or "free"
  current_session,
  rx,               \* requests the kernel holds for the socket
  tx,               \* responses written to the socket
  taken,            \* history: the requests read from the socket
  served            \* history: the requests handled, in which session, and how

(* The variables but the program counters, by who works on them. *)
flagVars     == <<running, keep_running>>
queueVars    == <<request_queue, queue_mutex>>
receiverVars == <<buffer, rx, taken>>
mainVars     == <<request, response, current_session, tx, served>>

vars == <<rcvPc, mainPc, flagVars, queueVars, receiverVars, mainVars>>

(* What the history records for a request whose handler threw. *)
NoResponse == Negative(NoService, "NO_ERROR")

ServedRecords ==
  [request : Requests, session : SessionBytes, response : Responses]

TypeOK ==
  /\ running \in BOOLEAN
  /\ keep_running \in BOOLEAN
  /\ rcvPc \in {"none", "check", "read", "lock", "push", "notify", "exited"}
  /\ buffer \in Requests
  /\ mainPc \in {"start", "loop", "lock", "test", "waiting", "handle", "send",
                 "stop", "join", "destroy", "done"}
  /\ request \in Requests
  /\ response \in Responses
  /\ request_queue \in Seq(Requests)
  /\ queue_mutex \in {"free", "main", "receiver"}
  /\ current_session \in SessionBytes
  /\ rx \in Seq(Requests)
  /\ tx \in Seq(Responses)
  /\ taken \in Seq(Requests)
  /\ served \in Seq(ServedRecords)

Init ==
  /\ running = FALSE
  /\ keep_running = TRUE
  /\ rcvPc = "none"
  /\ buffer = EmptyRequest
  /\ mainPc = "start"
  /\ request = EmptyRequest
  /\ response = NoResponse
  /\ request_queue = <<>>
  /\ queue_mutex = "free"
  /\ current_session = "DEFAULT"
  /\ rx = <<>>
  /\ tx = <<>>
  /\ taken = <<>>
  /\ served = <<>>

-----------------------------------------------------------------------------
(* Mutated steps: some of the steps below, each with one plausible bug.    *)
(* No specification uses them; each of them, in the place of the step it   *)
(* is named after, violates a property stated at the end.                  *)

TakeRequestWithoutPop ==
  /\ mainPc = "test"
  /\ request_queue # <<>>
  /\ request' = Head(request_queue)
  /\ queue_mutex' = "free"
  /\ mainPc' = "handle"
  /\ UNCHANGED <<rcvPc, request_queue, flagVars, receiverVars,
                 response, current_session, tx, served>>

PushWithoutNotify ==
  /\ rcvPc = "push"
  /\ request_queue' = Append(request_queue, buffer)
  /\ queue_mutex' = "free"
  /\ rcvPc' = "check"
  /\ UNCHANGED <<mainPc, flagVars, receiverVars, mainVars>>

LockToPushUnchecked ==
  /\ rcvPc = "lock"
  /\ queue_mutex' = "receiver"
  /\ rcvPc' = "push"
  /\ UNCHANGED <<mainPc, request_queue, flagVars, receiverVars, mainVars>>

NotifyNobody ==
  /\ rcvPc = "notify"
  /\ rcvPc' = "check"
  /\ UNCHANGED <<mainPc, flagVars, queueVars, receiverVars, mainVars>>

HandleForgettingSession ==
  /\ mainPc = "handle"
  /\ response' = HandleRequest(request, current_session)
  /\ served' = Append(served, [request  |-> request,
                               session  |-> current_session,
                               response |-> response'])
  /\ mainPc' = "send"
  /\ UNCHANGED <<rcvPc, flagVars, queueVars, receiverVars,
                 request, current_session, tx>>

StopWithoutFlag ==
  /\ mainPc = "stop"
  /\ mainPc' = "join"
  /\ UNCHANGED <<rcvPc, flagVars, queueVars, receiverVars, mainVars>>

JoinWithoutWaiting ==
  /\ mainPc = "join"
  /\ mainPc' = "destroy"
  /\ UNCHANGED <<rcvPc, flagVars, queueVars, receiverVars, mainVars>>

-----------------------------------------------------------------------------
(* The receiver thread.                                                    *)

(* while (running) *)
CheckRunning ==
  /\ rcvPc = "check"
  /\ rcvPc' = IF running THEN "read" ELSE "exited"
  /\ UNCHANGED <<mainPc, flagVars, queueVars, receiverVars, mainVars>>

(* read() returns a request, which may be after running became false. *)
ReadRequest ==
  /\ rcvPc = "read"
  /\ rx # <<>>
  /\ buffer' = Head(rx)
  /\ rx' = Tail(rx)
  /\ taken' = Append(taken, Head(rx))
  /\ rcvPc' = "lock"
  /\ UNCHANGED <<mainPc, flagVars, queueVars, mainVars>>

(* Nothing came for the second SO_RCVTIMEO allows: EAGAIN, try again. *)
ReadTimeout ==
  /\ rcvPc = "read"
  /\ rx = <<>>
  /\ rcvPc' = "check"
  /\ UNCHANGED <<mainPc, flagVars, queueVars, receiverVars, mainVars>>

LockToPush ==
  /\ rcvPc = "lock"
  /\ queue_mutex = "free"
  /\ queue_mutex' = "receiver"
  /\ rcvPc' = "push"
  /\ UNCHANGED <<mainPc, request_queue, flagVars, receiverVars, mainVars>>

(* request_queue.push, and the end of the scope of the lock_guard. *)
Push ==
  /\ rcvPc = "push"
  /\ request_queue' = Append(request_queue, buffer)
  /\ queue_mutex' = "free"
  /\ rcvPc' = "notify"
  /\ UNCHANGED <<mainPc, flagVars, receiverVars, mainVars>>

(* notify_one wakes the main thread if it waits and is lost if it does not. *)
Notify ==
  /\ rcvPc = "notify"
  /\ rcvPc' = "check"
  /\ mainPc' = IF mainPc = "waiting" THEN "lock" ELSE mainPc
  /\ UNCHANGED <<flagVars, queueVars, receiverVars, mainVars>>

ReceiverStep ==
  \/ CheckRunning
  \/ ReadRequest
  \/ ReadTimeout
  \/ LockToPush
  \/ Push
  \/ Notify

-----------------------------------------------------------------------------
(* The main thread.                                                        *)

(* start() finds running false, sets it and creates the receiver thread. *)
Start ==
  /\ mainPc = "start"
  /\ running' = TRUE
  /\ rcvPc' = "check"
  /\ mainPc' = "loop"
  /\ UNCHANGED <<keep_running, queueVars, receiverVars, mainVars>>

(* while (keep_running) *)
CheckKeepRunning ==
  /\ mainPc = "loop"
  /\ mainPc' = IF keep_running THEN "lock" ELSE "stop"
  /\ UNCHANGED <<rcvPc, flagVars, queueVars, receiverVars, mainVars>>

(* The unique_lock of receive_request, and the lock wait() takes back. *)
LockQueue ==
  /\ mainPc = "lock"
  /\ queue_mutex = "free"
  /\ queue_mutex' = "main"
  /\ mainPc' = "test"
  /\ UNCHANGED <<rcvPc, request_queue, flagVars, receiverVars, mainVars>>

(* The predicate of wait() holds: front, pop and the end of the lock. *)
TakeRequest ==
  /\ mainPc = "test"
  /\ request_queue # <<>>
  /\ request' = Head(request_queue)
  /\ request_queue' = Tail(request_queue)
  /\ queue_mutex' = "free"
  /\ mainPc' = "handle"
  /\ UNCHANGED <<rcvPc, flagVars, receiverVars,
                 response, current_session, tx, served>>

(* The predicate does not hold: release the lock and sleep, atomically. *)
Wait ==
  /\ mainPc = "test"
  /\ request_queue = <<>>
  /\ queue_mutex' = "free"
  /\ mainPc' = "waiting"
  /\ UNCHANGED <<rcvPc, request_queue, flagVars, receiverVars, mainVars>>

Record(answer) ==
  served' = Append(served, [request  |-> request,
                            session  |-> current_session,
                            response |-> answer])

(* handle_request, with what it does to current_session. *)
Handle ==
  /\ mainPc = "handle"
  /\ response' = HandleRequest(request, current_session)
  /\ current_session' = SessionAfter(request, current_session)
  /\ Record(response')
  /\ mainPc' = "send"
  /\ UNCHANGED <<rcvPc, flagVars, queueVars, receiverVars, request, tx>>

(* The registered handler throws: main catches, reports and goes on. *)
HandlerThrows ==
  /\ "throw" \in Faults
  /\ mainPc = "handle"
  /\ request.sid = ReadData
  /\ current_session \in AllowedSessions[ReadData]
  /\ Record(NoResponse)
  /\ mainPc' = "loop"
  /\ UNCHANGED <<rcvPc, flagVars, queueVars, receiverVars,
                 request, response, current_session, tx>>

(* send_response; CAN_TP::send drops the result of write(). *)
Send ==
  /\ mainPc = "send"
  /\ \/ tx' = Append(tx, response)
     \/ "write_error" \in Faults /\ tx' = tx
  /\ mainPc' = "loop"
  /\ UNCHANGED <<rcvPc, flagVars, queueVars, receiverVars,
                 request, response, current_session, served>>

(* stop(): running = false, then join() if the thread is joinable. *)
Stop ==
  /\ mainPc = "stop"
  /\ running' = FALSE
  /\ mainPc' = "join"
  /\ UNCHANGED <<rcvPc, keep_running, queueVars, receiverVars, mainVars>>

Join ==
  /\ mainPc = "join"
  /\ rcvPc = "exited"
  /\ mainPc' = "destroy"
  /\ UNCHANGED <<rcvPc, flagVars, queueVars, receiverVars, mainVars>>

(* The destructor stops once more; there is nothing left to join. *)
Destroy ==
  /\ mainPc = "destroy"
  /\ running' = FALSE
  /\ mainPc' = "done"
  /\ UNCHANGED <<rcvPc, keep_running, queueVars, receiverVars, mainVars>>

MainStep ==
  \/ Start
  \/ CheckKeepRunning
  \/ LockQueue
  \/ TakeRequest
  \/ Wait
  \/ Handle
  \/ HandlerThrows
  \/ Send
  \/ Stop
  \/ Join
  \/ Destroy

-----------------------------------------------------------------------------
(* The environment: clients, the kernel and the user at the terminal.      *)

Arrive ==
  /\ mainPc # "done"
  /\ Len(taken) + Len(rx) < MaxRequests
  /\ \E message \in Arrivals : rx' = Append(rx, message)
  /\ UNCHANGED <<rcvPc, mainPc, flagVars, queueVars, buffer, taken, mainVars>>

(* SIGINT runs the handler on the main thread, or on the receiver thread,  *)
(* whose blocked read() then fails with EINTR: a socket with a receive     *)
(* timeout is never restarted.                                             *)
Interrupt ==
  /\ "signal" \in Faults
  /\ mainPc # "done"
  /\ keep_running' = FALSE
  /\ \/ rcvPc' = rcvPc
     \/ rcvPc = "read" /\ rx = <<>> /\ rcvPc' = "exited"
  /\ UNCHANGED <<mainPc, running, queueVars, receiverVars, mainVars>>

(* Any other error of read(), as when the interface goes down. *)
ReadError ==
  /\ "socket_error" \in Faults
  /\ rcvPc = "read"
  /\ rcvPc' = "exited"
  /\ UNCHANGED <<mainPc, flagVars, queueVars, receiverVars, mainVars>>

SpuriousWakeup ==
  /\ mainPc = "waiting"
  /\ mainPc' = "lock"
  /\ UNCHANGED <<rcvPc, flagVars, queueVars, receiverVars, mainVars>>

Environment ==
  \/ Arrive
  \/ Interrupt
  \/ ReadError
  \/ SpuriousWakeup

Next ==
  \/ MainStep
  \/ ReceiverStep
  \/ Environment

Spec == Init /\ [][Next]_vars

(* Both threads are scheduled, and a thread that asks for a mutex which is *)
(* free again and again gets it: spurious wakeups alone, each with a turn  *)
(* of the main thread at the lock, do not keep the receiver thread out.    *)
(* The environment owes nothing.                                           *)
FairSpec ==
  /\ Spec
  /\ WF_vars(MainStep)
  /\ WF_vars(ReceiverStep)
  /\ SF_vars(LockToPush)

-----------------------------------------------------------------------------
(* Safety.                                                                 *)

(* How many requests each thread holds: the receiver thread one it has     *)
(* read and not queued, the main thread one it has taken and not handled.  *)
HeldByReceiver == IF rcvPc \in {"lock", "push"} THEN 1 ELSE 0
HeldByMain     == IF mainPc = "handle" THEN 1 ELSE 0

(* How many requests have left the queue. *)
Gone == Len(served) + HeldByMain

(* No request read from the socket is lost, duplicated or overtaken by     *)
(* another on its way through receiver_loop, request_queue and             *)
(* receive_request to handle_request, whatever the threads interleave and  *)
(* whichever faults happen: the requests read are, in this order, those    *)
(* handled, the one in the hand of the main thread, those in the queue and *)
(* the one in the hand of the receiver thread.                             *)
FifoService ==
  /\ Len(taken) = Gone + Len(request_queue) + HeldByReceiver
  /\ \A i \in 1..Len(served) : served[i].request = taken[i]
  /\ mainPc = "handle" => request = taken[Gone]
  /\ \A i \in 1..Len(request_queue) : request_queue[i] = taken[Gone + i]
  /\ rcvPc \in {"lock", "push"} => buffer = taken[Len(taken)]

(* The main thread sleeps on queue_cv with a request in the queue only     *)
(* while the receiver thread is about to notify it: notify_one after the   *)
(* unlock, and the predicate under the lock, leave no window for a lost    *)
(* wakeup.                                                                 *)
NoLostWakeup ==
  mainPc = "waiting" /\ request_queue # <<>> => rcvPc = "notify"

(* The queue is touched by the thread that holds queue_mutex and by no     *)
(* other: push runs under the lock_guard, the predicate, front and pop     *)
(* under the unique_lock.                                                  *)
QueueIsGuarded ==
  /\ rcvPc = "push" <=> queue_mutex = "receiver"
  /\ mainPc = "test" <=> queue_mutex = "main"

(* Data is read out only while the session a client was last confirmed is  *)
(* one READ_DATA_BY_IDENTIFIER was registered for, the session being what  *)
(* the positive session control responses before say it is and DEFAULT     *)
(* before the first.                                                       *)
ReadsOnlyInAllowedSession ==
  \A i \in 1..Len(served) :
    served[i].response.sid = ReadData /\ IsPositive(served[i].response) =>
      LET switches == {j \in 1..(i - 1) :
                         /\ served[j].response.sid = SessionControl
                         /\ IsPositive(served[j].response)}
          Confirmed(j) == served[j].response.args[1]
      IN IF switches = {}
         THEN "DEFAULT" \in AllowedSessions[ReadData]
         ELSE \E j \in switches :
                /\ \A k \in switches : k <= j
                /\ Confirmed(j) \in AllowedSessions[ReadData]

(* The process ends only when the receiver thread has: the thread uses the *)
(* socket, the queue and its mutex, which the destructor takes away.       *)
(* stop() lets the thread finish what it holds: a request read from the    *)
(* socket is in the queue, or handled, when the server is gone.            *)
NoThreadOutlivesServer ==
  mainPc = "done" =>
    /\ rcvPc = "exited" /\ queue_mutex = "free"
    /\ Len(taken) = Len(served) + Len(request_queue)

-----------------------------------------------------------------------------
(* Liveness, under FairSpec.                                               *)

(* Every request that reaches the socket is handled, unless the server is  *)
(* told to stop or its receiver thread has ended: none is forgotten in the *)
(* socket, in the queue or by a thread that nobody wakes.  What was read   *)
(* before that thread ended is handled all the same: lost responses and    *)
(* throwing handlers keep none waiting.                                    *)
EveryRequestHandled ==
  \A n \in 1..MaxRequests :
    /\ Len(taken) + Len(rx) >= n
         ~> Len(served) >= n \/ ~keep_running \/ rcvPc = "exited"
    /\ Len(taken) >= n ~> Len(served) >= n \/ ~keep_running

(* A server told to stop stops if a request is still in the queue.         *)
ShutdownOnNextRequest ==
  ~keep_running /\ request_queue # <<>> ~> mainPc = "done"

(* "Press Ctrl+C to stop": a server told to stop stops.                    *)
ShutdownCompletes == ~keep_running ~> mainPc = "done"

-----------------------------------------------------------------------------
(* The server implements the abstract responder.  A response counts as     *)
(* given when it is written, so while one waits to be sent its request is  *)
(* still pending and its effect on the session still to come.              *)
Pending ==
  LET InHand(holds, message) == IF holds THEN <<message>> ELSE <<>>
  IN InHand(mainPc \in {"handle", "send"}, request)
       \o request_queue
       \o InHand(rcvPc \in {"lock", "push"}, buffer)

SessionGiven ==
  IF mainPc = "send" THEN served[Len(served)].session ELSE current_session

Responder == INSTANCE SerialResponder
               WITH pending <- Pending,
                    session <- SessionGiven,
                    replies <- tx

(* Requests are answered one at a time, in order, each in the session the  *)
(* previous ones left, at most once each.                                  *)
ImplementsResponder == Responder!Spec
=============================================================================
