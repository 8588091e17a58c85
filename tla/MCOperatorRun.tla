---------------------------- MODULE MCOperatorRun ----------------------------
(* Instances of OperatorRun for TLC.                                       *)
EXTENDS OperatorRun

CONSTANTS a, b   \* replicas of the operator

=============================================================================
