---------------------------- MODULE MCHostToolRun ----------------------------
(* A small instance of HostToolRun for TLC.                                  *)
EXTENDS HostToolRun

=============================================================================
