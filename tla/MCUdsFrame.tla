---------------------------- MODULE MCUdsFrame ----------------------------
(* Instances of UdsFrame for TLC. *)
EXTENDS UdsFrame

CONSTANTS n1, n2

Session == 16      \* SID::DIAG_SESSION_CTRL, 0x10
Reading == 34      \* SID::READ_DATA, 0x22

(* A request with no parameters, one with as many as it may have and one  *)
(* with one more.                                                          *)
MCRequests ==
  {Message(Session, <<>>), Message(Reading, <<1, 2, 3, 4, 5>>),
   Message(Reading, <<1, 2, 3, 4, 5, 6>>)}

(* An answer that fits, one that is too long, and one so long that its      *)
(* length in eight bits is short again.                                    *)
MCAnswers ==
  {[sid |-> Reading, data |-> <<9>>],
   [sid |-> Reading, data |-> <<1, 2, 3, 4, 5, 6>>],
   [sid |-> Reading, data |-> [i \in 1..257 |-> 7]]}

MCRefusals == {[sid |-> Reading, nrc |-> 49]}

MCStrayBytes == {0, 255}

(* The transactions of one of the two nodes fail. *)
MCMaxFailures == [n \in {n1, n2} |-> IF n = n1 THEN 1 ELSE 0]
=============================================================================
