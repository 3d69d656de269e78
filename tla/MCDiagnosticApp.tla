-------------------------- MODULE MCDiagnosticApp --------------------------
(* Instances of DiagnosticApp for TLC. *)
EXTENDS DiagnosticApp

CONSTANTS code, x1, x2

MCScreens == 1..MaxScreens
=============================================================================
