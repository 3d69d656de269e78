------------------------------ MODULE UdsBytes ------------------------------
(***************************************************************************)
(* Requests and responses as the bytes they are on the link: what the      *)
(* handlers of the two server programs make of a request, and what the     *)
(* client library makes of a response.  Module UdsProtocol says the same   *)
(* of the server with names in the place of bytes; Decode and Encode       *)
(* relate the two.                                                         *)
(***************************************************************************)
EXTENDS UdsProtocol, SequencesExt

(* UDS_SERVICE, UDS_SESSION and UDS_NRC: client and server agree on those  *)
(* both have.                                                              *)
SidOf == [DIAGNOSTIC_SESSION_CONTROL |-> \h10, ECU_RESET |-> \h11,
          READ_DATA_BY_IDENTIFIER |-> \h22]

SessionName == <<"DEFAULT", "PROGRAMMING", "EXTENDED", "SAFETY_SYSTEM",
                 "VEHICLE">>

NrcOf == [NO_ERROR |-> \h00, TIMEOUT |-> \h01, GENERAL_REJECT |-> \h10,
          SERVICE_NOT_SUPPORTED |-> \h11,
          INCORRECT_MESSAGE_LENGTH_OR_INVALID_FORMAT |-> \h13,
          REQUEST_OUT_OF_RANGE |-> \h31,
          SERVICE_NOT_SUPPORTED_IN_ACTIVE_SESSION |-> \h7E]

NegativeBytes(sid, nrc) == <<\h7F, sid, NrcOf[nrc]>>

(* What the identifiers of service_handler read as, and of server_test. *)
ServiceValue ==
  [did \in {\h5678, \h1234, \hABCD, \h0123, \h3456} |->
     CASE did = \h5678 -> <<\h0C, \h30>>
       [] did = \h1234 -> <<\h00, \h64>>
       [] did = \hABCD -> <<\h3C>>
       [] did = \h0123 -> <<\h01, \h00>>
       [] did = \h3456 -> <<\h27>>]

TestValue ==
  [did \in {\hF190, \h1234, \h5678} |->
     CASE did = \hF190 -> <<\h01, \h02, \h03, \h04>>
       [] did = \h1234 -> <<\hAA, \hBB>>
       [] did = \h5678 -> <<\h11, \h22, \h33>>]

Did(high, low) == 256 * high + low

-----------------------------------------------------------------------------
(* The handlers of the two programs for READ_DATA_BY_IDENTIFIER.           *)

(* Round k of the loop of read_data_handler, with the response so far; a   *)
(* response that is negative was returned by an earlier round.             *)
ReadDid(request, k, response) ==
  LET high == request[2 * k]
      low  == request[2 * k + 1]
  IN IF response[1] = \h7F THEN response
     ELSE IF Did(high, low) \in DOMAIN ServiceValue
     THEN response \o <<high, low>> \o ServiceValue[Did(high, low)]
     ELSE NegativeBytes(request[1], "REQUEST_OUT_OF_RANGE")

(* All its rounds: one for every two bytes behind the service. *)
ReadDids(request) ==
  LET rounds == (Len(request) - 1) \div 2
      response[k \in 0..rounds] ==
        IF k = 0 THEN <<request[1] + \h40>>
                 ELSE ReadDid(request, k, response[k - 1])
  IN response[rounds]

(* Mutated form of ServiceRead: identifiers read by ones of bytes left out. *)
ServiceReadAnyLength(request) ==
  IF Len(request) < 3
  THEN NegativeBytes(request[1], "INCORRECT_MESSAGE_LENGTH_OR_INVALID_FORMAT")
  ELSE ReadDids(request)

ServiceRead(request) ==
  IF Len(request) < 3 \/ (Len(request) - 1) % 2 # 0
  THEN NegativeBytes(request[1], "INCORRECT_MESSAGE_LENGTH_OR_INVALID_FORMAT")
  ELSE ReadDids(request)

(* server_test reads the first identifier and no other. *)
TestRead(request) ==
  IF Len(request) < 3
  THEN NegativeBytes(request[1], "INCORRECT_MESSAGE_LENGTH_OR_INVALID_FORMAT")
  ELSE LET did == Did(request[2], request[3])
       IN IF did \in DOMAIN TestValue
          THEN <<request[1] + \h40, request[2], request[3]>> \o TestValue[did]
          ELSE NegativeBytes(request[1], "REQUEST_OUT_OF_RANGE")

-----------------------------------------------------------------------------
(* handle_request, with the handler of one program.  Reading is allowed in *)
(* the sessions of AllowedSessions; a session is the byte it was set to.   *)
ReadAllowed(session) ==
  /\ session \in DOMAIN SessionName
  /\ SessionName[session] \in AllowedSessions[ReadData]

(* Mutated form of HandleBytes: every service asked for its sessions. *)
HandleBytesInSession(program, request, session) ==
  CASE request = <<>> -> NegativeBytes(0, "GENERAL_REJECT")
    [] request # <<>> /\ ~ReadAllowed(session) ->
         NegativeBytes(request[1], "SERVICE_NOT_SUPPORTED_IN_ACTIVE_SESSION")
    [] request # <<>> /\ ReadAllowed(session) ->
         IF request[1] = \h10 /\ Len(request) > 1 THEN <<\h50, request[2]>>
         ELSE IF request[1] = \h22 /\ program = "server_test"
              THEN TestRead(request)
         ELSE IF request[1] = \h22 THEN ServiceRead(request)
         ELSE NegativeBytes(request[1], "SERVICE_NOT_SUPPORTED")

HandleBytes(program, request, session) ==
  IF request = <<>> THEN NegativeBytes(0, "GENERAL_REJECT")
  ELSE CASE request[1] = SidOf[SessionControl] ->
              IF Len(request) < 2
              THEN NegativeBytes(request[1],
                     "INCORRECT_MESSAGE_LENGTH_OR_INVALID_FORMAT")
              ELSE <<request[1] + \h40, request[2]>>
         [] request[1] = SidOf[ReadData] ->
              IF ~ReadAllowed(session)
              THEN NegativeBytes(request[1],
                     "SERVICE_NOT_SUPPORTED_IN_ACTIVE_SESSION")
              ELSE IF program = "server_test" THEN TestRead(request)
                                              ELSE ServiceRead(request)
         [] OTHER -> NegativeBytes(request[1], "SERVICE_NOT_SUPPORTED")

(* Mutated form of SessionByteAfter: the session kept with its service. *)
SessionWordAfter(request, session) ==
  IF Len(request) >= 2 /\ request[1] = SidOf[SessionControl]
  THEN Did(request[1], request[2]) ELSE session

SessionByteAfter(request, session) ==
  IF Len(request) >= 2 /\ request[1] = SidOf[SessionControl]
  THEN request[2] ELSE session

-----------------------------------------------------------------------------
(* What the client library makes of a response.                            *)

Outcome(success, nrc, payload) ==
  [success |-> success, nrc |-> nrc, payload |-> payload]

Rejected == Outcome(FALSE, NrcOf.GENERAL_REJECT, <<>>)
TimedOut == Outcome(FALSE, NrcOf.TIMEOUT, <<>>)

(* Both kinds of call look for the service's own positive response, then   *)
(* for its negative one; set_session wants the session echoed as well, and *)
(* makes no payload of it.                                                 *)
OutcomeOf(op, request, response) ==
  LET confirmed ==
        /\ response # <<>> /\ response[1] = request[1] + \h40
        /\ op = "set_session" =>
             Len(response) >= 2 /\ response[2] = request[2]
      refused == /\ Len(response) >= 3
                 /\ response[1] = \h7F /\ response[2] = request[1]
  IN CASE confirmed -> Outcome(TRUE, NrcOf.NO_ERROR,
                         IF op = "set_session" THEN <<>> ELSE Tail(response))
       [] ~confirmed /\ refused -> Outcome(FALSE, response[3], <<>>)
       [] OTHER -> Rejected

-----------------------------------------------------------------------------
(* Bytes and names.                                                        *)

SessionOf(byte) ==
  IF byte \in DOMAIN SessionName THEN SessionName[byte]
  ELSE CHOOSE session \in ForeignSessions : TRUE

Decode(request) ==
  LET args == IF request = <<>> THEN <<>> ELSE Tail(request)
      pairs == Len(args) \div 2
      dids  == [i \in 1..pairs |-> Did(args[2 * i - 1], args[2 * i])]
  IN CASE request = <<>> -> EmptyRequest
       [] request # <<>> /\ request[1] = SidOf[SessionControl] ->
            [sid |-> SessionControl,
             args |-> [i \in DOMAIN args |-> SessionOf(args[i])]]
       [] request # <<>> /\ request[1] = SidOf[ReadData] ->
            [sid |-> ReadData,
             args |-> IF Len(args) % 2 = 0 THEN dids ELSE Append(dids, HalfDid)]
       [] OTHER -> [sid |-> EcuReset, args |-> <<>>]

(* The identifiers asked for, each with its value, in their order. *)
ValuesRead(dids) ==
  FlattenSeq([i \in DOMAIN dids |->
                <<dids[i] \div 256, dids[i] % 256>> \o ServiceValue[dids[i]]])

Encode(response, request) ==
  LET sid == IF request = <<>> THEN 0 ELSE request[1]
  IN IF ~IsPositive(response) THEN NegativeBytes(sid, response.nrc)
     ELSE IF response.sid = ReadData
          THEN <<sid + \h40>> \o ValuesRead(response.args)
          ELSE <<sid + \h40, request[2]>>
=============================================================================
