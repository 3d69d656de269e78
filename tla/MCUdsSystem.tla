----------------------------- MODULE MCUdsSystem -----------------------------
(* An instance of UdsSystem for TLC. *)
EXTENDS UdsSystem

CONSTANTS rpm, bogus, t1, t2

MCRead == [sid |-> ReadData, args |-> <<rpm>>]
MCReset == [sid |-> EcuReset, args |-> <<>>]
MCSession(session) == [sid |-> SessionControl, args |-> <<session>>]

MCArrivals == {MCRead, MCReset, MCSession("PROGRAMMING")}

(* A read, a session in which reads are refused, and a request that is     *)
(* answered although nobody waits for the answer.                          *)
MCCalls ==
  {[op |-> "send_request", request |-> MCRead],
   [op |-> "set_session", request |-> MCSession("PROGRAMMING")],
   [op |-> "send_request_no_response", request |-> MCReset]}
=============================================================================
