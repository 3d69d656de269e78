----------------------------- MODULE MCTestBench -----------------------------
(* Instances of TestBench for TLC. *)
EXTENDS TestBench

CONSTANT foreign

MCKnownDids   == DOMAIN ServiceValue
MCUnknownDids == {\h9988}

(* Reads of one identifier and of several, up to a response of the size of *)
(* the buffer, one longer than it, and one longer than a message can be;   *)
(* unknown identifiers, alone and behind a known one; malformed requests;  *)
(* sessions that allow reading, that do not, and that do not exist; and a  *)
(* service nobody registers.                                               *)
MCReaderRequests ==
  {<<\h22, \h56, \h78>>, <<\h22, \hAB, \hCD, \h34, \h56, \hAB, \hCD>>,
   <<\h22, \h01, \h23, \hAB, \hCD, \h34, \h56>>,
   <<\h22, \h56, \h78, \h12, \h34, \h01, \h23>>,
   <<\h22, \h99, \h88>>, <<\h22, \h56, \h78, \h99, \h88>>,
   <<\h22>>, <<\h22, \h56>>, <<\h22, \h56, \h78, \h12>>,
   <<\h22, \h56, \h78, \h12, \h34, \h99, \h88, \h01>>,
   <<\h10, \h02>>, <<\h10, \h03>>, <<\h10, \h99>>, <<\h10>>, <<\h11>>}
=============================================================================
