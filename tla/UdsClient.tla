------------------------------ MODULE UdsClient ------------------------------
(***************************************************************************)
(* The diagnostic client: CAN_UDS_client, one object that several threads  *)
(* may call.  A call takes tx_mutex, sets the receive timeout, writes its  *)
(* request and, but for send_request_no_response, reads one response from  *)
(* the socket: whichever is there first.                                   *)
(*                                                                         *)
(* The two directions of the connection are sequences; what becomes of a   *)
(* request on its way is in module UdsExchange.                            *)
(***************************************************************************)
EXTENDS UdsProtocol

CONSTANTS
  Callers,      \* the threads that call the client
  Calls,        \* the calls they may make
  MaxCalls,     \* bound: how many calls are ever begun
  Faults        \* what may go wrong, see FaultKinds

(* "late": a call may time out although its response is still to come.     *)
(* "write_error": write() fails, which nobody looks at.  "socket_error":   *)
(* setting the timeout or reading fails.  "lose": a response gets lost.    *)
(* "restart": the server process ends, and starts again.                   *)
FaultKinds == {"late", "write_error", "socket_error", "lose", "restart"}

(* With the server process, the session it was in is lost. *)
Losses == {"request", "response", "session"}

Operations == {"set_session", "send_request", "send_request_no_response"}

CallRecords == [op : Operations, request : Requests]

ASSUME ClientAssumption ==
  /\ Calls \subseteq CallRecords
  /\ MaxCalls \in Nat
  /\ Faults \subseteq FaultKinds
  /\ "free" \notin Callers
  /\ \A made \in Calls :
       made.op = "set_session" => /\ made.request.sid = SessionControl
                                  /\ Len(made.request.args) = 1

VARIABLES
  pc,               \* pc[c]: where caller c is
  call,             \* call[c]: the call c makes, or made last
  result,           \* result[c]: what that call returned
  tx_mutex,         \* the caller that holds it, or "free"
  currentSession,   \* CAN_UDS_client::currentSession
  toServer,         \* requests written and not yet answered
  toClient,         \* responses that wait in the client's socket
  begun,            \* how many calls have begun
  outOfStep,        \* history: a call returned with something still to come
  lost              \* history: what the link and the server have lost

callerVars == <<pc, call, result>>
clientVars ==
  <<callerVars, tx_mutex, currentSession, toServer, toClient, begun, outOfStep,
    lost>>

(* What a call returns: UDS_MSG without the service, or the NRC alone.     *)
Results == [success : BOOLEAN, nrc : NRCs, args : Seq(Items)]

Failure(nrc) == [success |-> FALSE, nrc |-> nrc, args |-> <<>>]

NoResult == [success |-> FALSE, nrc |-> "NO_ERROR", args |-> <<>>]
NoCall   == [op |-> "send_request_no_response", request |-> EmptyRequest]

ClientTypeOK ==
  /\ pc \in [Callers -> {"idle", "lock", "send", "receive"}]
  /\ call \in [Callers -> Calls \union {NoCall}]
  /\ result \in [Callers -> Results]
  /\ tx_mutex \in Callers \union {"free"}
  /\ currentSession \in SessionBytes
  /\ toServer \in Seq(Requests)
  /\ toClient \in Seq(Responses)
  /\ begun \in Nat
  /\ outOfStep \in BOOLEAN
  /\ lost \subseteq Losses

ClientInit ==
  /\ pc = [c \in Callers |-> "idle"]
  /\ call = [c \in Callers |-> NoCall]
  /\ result = [c \in Callers |-> NoResult]
  /\ tx_mutex = "free"
  /\ currentSession = "DEFAULT"
  /\ toServer = <<>>
  /\ toClient = <<>>
  /\ begun = 0
  /\ outOfStep = FALSE
  /\ lost = {}

-----------------------------------------------------------------------------
(* What a response means to a call.                                        *)

(* set_session wants the session it asked for confirmed. *)
SetSessionResult(request, response) ==
  CASE /\ IsPositive(response)
       /\ response.sid = SessionControl
       /\ response.args # <<>> /\ response.args[1] = request.args[1] ->
         [success |-> TRUE, nrc |-> "NO_ERROR", args |-> <<>>]
    [] ~IsPositive(response) /\ response.sid = SessionControl ->
         Failure(response.nrc)
    [] OTHER -> Failure("GENERAL_REJECT")

(* Mutated form of SendRequestResult: the byte of the service identifier   *)
(* taken for the NRC.                                                      *)
SendRequestResultWrongByte(request, response) ==
  CASE IsPositive(response) /\ response.sid = request.sid ->
         [success |-> TRUE, nrc |-> "NO_ERROR", args |-> response.args]
    [] ~IsPositive(response) /\ response.sid = request.sid ->
         Failure(response.sid)
    [] OTHER -> Failure("GENERAL_REJECT")

(* send_request is content with the service identifier. *)
SendRequestResult(request, response) ==
  CASE IsPositive(response) /\ response.sid = request.sid ->
         [success |-> TRUE, nrc |-> "NO_ERROR", args |-> response.args]
    [] ~IsPositive(response) /\ response.sid = request.sid ->
         Failure(response.nrc)
    [] OTHER -> Failure("GENERAL_REJECT")

ResultOf(made, response) ==
  IF made.op = "set_session" THEN SetSessionResult(made.request, response)
                             ELSE SendRequestResult(made.request, response)

-----------------------------------------------------------------------------
(* Parts of the steps.                                                     *)

(* The end of a call: its result, and the end of the lock_guard. *)
Return(c, value) ==
  /\ pc' = [pc EXCEPT ![c] = "idle"]
  /\ result' = [result EXCEPT ![c] = value]
  /\ tx_mutex' = "free"
  /\ UNCHANGED <<call, begun>>

(* Nobody reads any more what the request of this call may still bring. *)
GiveUp == outOfStep' = (outOfStep \/ toServer' # <<>> \/ toClient' # <<>>)

(* CAN_TP::send; the result of write() is dropped. *)
Write(request) ==
  \/ toServer' = Append(toServer, request) /\ lost' = lost
  \/ /\ "write_error" \in Faults
     /\ toServer' = toServer
     /\ lost' = lost \union {"request"}

-----------------------------------------------------------------------------
(* Mutated steps: steps of a call with one plausible bug each.  No         *)
(* specification uses them; each of them, in the place of the step it is   *)
(* named after, violates a property of UdsExchange.                        *)

LockUnchecked(c) ==
  /\ pc[c] = "lock"
  /\ tx_mutex' = c
  /\ pc' = [pc EXCEPT ![c] = "send"]
  /\ UNCHANGED <<call, result, currentSession, toServer, toClient, begun,
                 outOfStep, lost>>

SendTrustingSession(c) ==
  /\ pc[c] = "send"
  /\ call[c].op # "send_request_no_response"
  /\ Write(call[c].request)
  /\ currentSession' = IF call[c].op = "set_session"
                       THEN call[c].request.args[1] ELSE currentSession
  /\ pc' = [pc EXCEPT ![c] = "receive"]
  /\ UNCHANGED <<call, result, tx_mutex, toClient, begun, outOfStep>>

SendDroppingResponses(c) ==
  /\ pc[c] = "send"
  /\ call[c].op # "send_request_no_response"
  /\ Write(call[c].request)
  /\ toClient' = <<>>
  /\ pc' = [pc EXCEPT ![c] = "receive"]
  /\ UNCHANGED <<call, result, tx_mutex, currentSession, begun, outOfStep>>

SetTimeoutFailsAfterWrite(c) ==
  /\ "socket_error" \in Faults
  /\ pc[c] = "send"
  /\ call[c].op # "send_request_no_response"
  /\ Write(call[c].request)
  /\ Return(c, Failure("GENERAL_REJECT"))
  /\ UNCHANGED <<currentSession, toClient, outOfStep>>

TimeoutKeepingLock(c) ==
  /\ pc[c] = "receive"
  /\ toClient = <<>>
  /\ "late" \in Faults \/ toServer = <<>>
  /\ pc' = [pc EXCEPT ![c] = "idle"]
  /\ result' = [result EXCEPT ![c] = Failure("TIMEOUT")]
  /\ UNCHANGED <<call, begun, tx_mutex, currentSession, toServer, toClient,
                 lost>>
  /\ GiveUp

-----------------------------------------------------------------------------
(* The steps of a call by caller c.                                        *)

Begin(c) ==
  /\ pc[c] = "idle"
  /\ begun < MaxCalls
  /\ begun' = begun + 1
  /\ \E made \in Calls : call' = [call EXCEPT ![c] = made]
  /\ result' = [result EXCEPT ![c] = NoResult]
  /\ pc' = [pc EXCEPT ![c] = "lock"]
  /\ UNCHANGED <<tx_mutex, currentSession, toServer, toClient, outOfStep,
                 lost>>

(* The lock_guard on tx_mutex. *)
Lock(c) ==
  /\ pc[c] = "lock"
  /\ tx_mutex = "free"
  /\ tx_mutex' = c
  /\ pc' = [pc EXCEPT ![c] = "send"]
  /\ UNCHANGED <<call, result, currentSession, toServer, toClient, begun,
                 outOfStep, lost>>

Send(c) ==
  /\ pc[c] = "send"
  /\ call[c].op # "send_request_no_response"
  /\ Write(call[c].request)
  /\ pc' = [pc EXCEPT ![c] = "receive"]
  /\ UNCHANGED <<call, result, tx_mutex, currentSession, toClient, begun,
                 outOfStep>>

SendNoResponse(c) ==
  /\ pc[c] = "send"
  /\ call[c].op = "send_request_no_response"
  /\ Write(call[c].request)
  /\ Return(c, NoResult)
  /\ UNCHANGED <<currentSession, toClient>>
  /\ GiveUp

(* set_receive_timeout throws: nothing is written. *)
SetTimeoutFails(c) ==
  /\ "socket_error" \in Faults
  /\ pc[c] = "send"
  /\ call[c].op # "send_request_no_response"
  /\ Return(c, Failure("GENERAL_REJECT"))
  /\ UNCHANGED <<currentSession, toServer, toClient, outOfStep,
                 lost>>

(* receive() returns the first response in the socket, and the call makes  *)
(* of it what it can.                                                      *)
Receive(c) ==
  /\ pc[c] = "receive"
  /\ toClient # <<>>
  /\ toClient' = Tail(toClient)
  /\ LET value == ResultOf(call[c], Head(toClient))
     IN /\ Return(c, value)
        /\ currentSession' =
             IF call[c].op = "set_session" /\ value.success
             THEN call[c].request.args[1]
             ELSE currentSession
  /\ UNCHANGED <<toServer, outOfStep, lost>>

(* "CAN receive timeout".  Without "late" the timeout is long enough for   *)
(* whatever response there will be.                                        *)
Timeout(c) ==
  /\ pc[c] = "receive"
  /\ toClient = <<>>
  /\ "late" \in Faults \/ toServer = <<>>
  /\ Return(c, Failure("TIMEOUT"))
  /\ UNCHANGED <<currentSession, toServer, toClient, lost>>
  /\ GiveUp

(* Any other error of read(), which is no timeout to the caller. *)
ReceiveFails(c) ==
  /\ "socket_error" \in Faults
  /\ pc[c] = "receive"
  /\ Return(c, Failure("GENERAL_REJECT"))
  /\ UNCHANGED <<currentSession, toServer, toClient, lost>>
  /\ GiveUp

CallStep(c) ==
  \/ Lock(c)
  \/ Send(c)
  \/ SendNoResponse(c)
  \/ SetTimeoutFails(c)
  \/ Receive(c)
  \/ Timeout(c)
  \/ ReceiveFails(c)

ClientNext == \E c \in Callers : Begin(c) \/ CallStep(c)
=============================================================================
