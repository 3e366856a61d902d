----------------------------- MODULE MCProcesses -----------------------------
(* Constants of the runs of Processes. *)
EXTENDS Processes, TLC

CONSTANTS p1, p2, w1, w2

=============================================================================
