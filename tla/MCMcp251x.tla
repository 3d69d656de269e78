---------------------------- MODULE MCMcp251x ----------------------------
(* Instances of Mcp251x for TLC. *)
EXTENDS Mcp251x

CONSTANTS n1, n2

Standard(id, data) == [id |-> id, extended |-> FALSE, data |-> data]

(* The frame of the test program of the driver, as long as a frame can be, *)
(* with the greatest identifier, and an empty one.                         *)
MCFrames == {Standard(2047, <<0, 1, 2, 3, 4, 170, 187, 204>>),
             Standard(2016, <<>>)}

MCStrayBytes == {0, 255}

(* The transactions of one of the two nodes fail, or none do. *)
MCMaxFailures == [n \in {n1, n2} |-> IF n = n1 THEN 1 ELSE 0]
=============================================================================
