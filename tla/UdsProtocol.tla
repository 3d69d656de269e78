----------------------------- MODULE UdsProtocol -----------------------------
(***************************************************************************)
(* What a UDS request and a UDS response are, and what the diagnostic      *)
(* server answers to a request: the pure part of CAN_UDS_SERVER and of the *)
(* handler service_handler/main.cpp registers with it.                     *)
(*                                                                         *)
(* A request is its service identifier and the items that follow it: the   *)
(* session byte of a session control request, the two-byte identifiers of  *)
(* a read request.  What a known identifier reads as is a function of the  *)
(* identifier, so a positive read response is represented by the           *)
(* identifiers it answers.                                                 *)
(***************************************************************************)
EXTENDS Naturals, Sequences

CONSTANTS
  KnownDids,        \* identifiers read_data_handler has a value for
  UnknownDids,      \* identifiers it has none for
  HalfDid,          \* the odd byte that ends a malformed read request
  ForeignSessions   \* session bytes UDS_SESSION does not enumerate

(* UDS_SESSION *)
SupportedSessions ==
  {"DEFAULT", "PROGRAMMING", "EXTENDED", "SAFETY_SYSTEM", "VEHICLE"}

SessionBytes == SupportedSessions \union ForeignSessions

ASSUME ProtocolAssumption ==
  /\ KnownDids \intersect UnknownDids = {}
  /\ HalfDid \notin KnownDids \union UnknownDids
  /\ ForeignSessions \intersect SupportedSessions = {}

SessionControl == "DIAGNOSTIC_SESSION_CONTROL"
ReadData       == "READ_DATA_BY_IDENTIFIER"
EcuReset       == "ECU_RESET"     \* stands for every service nobody registers
NoService      == "0x00"          \* the identifier an empty request is answered with

Services == {SessionControl, ReadData, EcuReset, NoService}
Items    == SessionBytes \union KnownDids \union UnknownDids \union {HalfDid}

Requests ==
  [sid : {SessionControl}, args : Seq(SessionBytes)] \union
  [sid : Services \ {SessionControl}, args : Seq(Items)]

(* The request with no bytes at all, not even a service identifier. *)
EmptyRequest == [sid |-> NoService, args |-> <<>>]

(* UDS_NRC, those the server sends and those the client makes up. *)
NRCs == {"NO_ERROR", "TIMEOUT", "GENERAL_REJECT", "SERVICE_NOT_SUPPORTED",
         "INCORRECT_MESSAGE_LENGTH_OR_INVALID_FORMAT",
         "REQUEST_OUT_OF_RANGE", "SERVICE_NOT_SUPPORTED_IN_ACTIVE_SESSION"}

Responses == [sid : Services, nrc : NRCs, args : Seq(Items)]

Positive(sid, args) == [sid |-> sid, nrc |-> "NO_ERROR", args |-> args]
Negative(sid, nrc)  == [sid |-> sid, nrc |-> nrc, args |-> <<>>]
IsPositive(response) == response.nrc = "NO_ERROR"

-----------------------------------------------------------------------------
(* The sessions each registered service was registered with: session       *)
(* control by the constructor of the server, reading by main.              *)
AllowedSessions ==
  [service \in {SessionControl, ReadData} |->
     IF service = SessionControl THEN {"DEFAULT", "PROGRAMMING", "EXTENDED"}
                                 ELSE {"DEFAULT", "EXTENDED"}]

(* The session byte is taken as it comes: nothing compares it with the     *)
(* sessions the server supports.                                           *)
HandleSessionControl(request) ==
  IF request.args = <<>>
  THEN Negative(SessionControl, "INCORRECT_MESSAGE_LENGTH_OR_INVALID_FORMAT")
  ELSE Positive(SessionControl, <<Head(request.args)>>)

(* read_data_handler answers all the identifiers asked for, or none. *)
ReadDataHandler(request) ==
  LET asked == {request.args[i] : i \in DOMAIN request.args}
  IN CASE asked = {} \/ HalfDid \in asked ->
            Negative(ReadData, "INCORRECT_MESSAGE_LENGTH_OR_INVALID_FORMAT")
       [] asked # {} /\ asked \subseteq KnownDids ->
            Positive(ReadData, request.args)
       [] OTHER -> Negative(ReadData, "REQUEST_OUT_OF_RANGE")

(* Mutated form of HandleRequest: the look at the allowed sessions gone.    *)
HandleRequestInAnySession(request, session) ==
  CASE request.sid = NoService -> Negative(NoService, "GENERAL_REJECT")
    [] request.sid = SessionControl -> HandleSessionControl(request)
    [] request.sid = ReadData -> ReadDataHandler(request)
    [] request.sid = EcuReset -> Negative(EcuReset, "SERVICE_NOT_SUPPORTED")

(* handle_request: session control is dispatched before, and without, the  *)
(* look at the allowed sessions that every other service gets.             *)
HandleRequest(request, session) ==
  CASE request.sid = NoService -> Negative(NoService, "GENERAL_REJECT")
    [] request.sid = SessionControl -> HandleSessionControl(request)
    [] request.sid = ReadData ->
         IF session \in AllowedSessions[ReadData]
         THEN ReadDataHandler(request)
         ELSE Negative(ReadData, "SERVICE_NOT_SUPPORTED_IN_ACTIVE_SESSION")
    [] request.sid = EcuReset -> Negative(EcuReset, "SERVICE_NOT_SUPPORTED")

(* Mutated form of SessionAfter: the session byte stored before dispatch.   *)
SessionAfterAnyService(request, session) ==
  IF request.args # <<>> THEN Head(request.args) ELSE session

(* The value current_session has once the request has been handled. *)
SessionAfter(request, session) ==
  IF request.sid = SessionControl /\ request.args # <<>>
  THEN Head(request.args)
  ELSE session

=============================================================================
