---------------------------- MODULE MCUdsExchange ----------------------------
(* Instances of UdsExchange for TLC. *)
EXTENDS UdsExchange

CONSTANTS rpm, speed, bogus, foreign, t1, t2

ReadCall(did) ==
  [op |-> "send_request", request |-> [sid |-> ReadData, args |-> <<did>>]]
SetSession(session) ==
  [op |-> "set_session",
   request |-> [sid |-> SessionControl, args |-> <<session>>]]
ResetCall ==
  [op |-> "send_request_no_response",
   request |-> [sid |-> EcuReset, args |-> <<>>]]

(* Reads that are answered, and answered differently, and sessions that    *)
(* refuse them and do not.                                                 *)
MCCalls == {ReadCall(rpm), ReadCall(speed), ReadCall(bogus),
            SetSession("PROGRAMMING"), SetSession("EXTENDED")}

(* The same with a call that takes no response.                            *)
MCAllCalls == MCCalls \union {ResetCall}
=============================================================================
