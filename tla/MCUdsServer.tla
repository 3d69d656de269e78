----------------------------- MODULE MCUdsServer -----------------------------
(* Instances of UdsServer for TLC. *)
EXTENDS UdsServer

CONSTANTS rpm, bogus, foreign

SessionRequest(session) == [sid |-> SessionControl, args |-> <<session>>]
ReadRequestOf(did)      == [sid |-> ReadData, args |-> <<did>>]

(* Sessions that allow reading and do not, one of them outside of          *)
(* UDS_SESSION, and two reads that differ in how they are answered.        *)
MCArrivals ==
  {SessionRequest(foreign), SessionRequest("EXTENDED"),
   ReadRequestOf(rpm), ReadRequestOf(bogus)}

(* For the run that needs order and not variety. *)
MCTwoArrivals == {SessionRequest("PROGRAMMING"), ReadRequestOf(rpm)}
=============================================================================
