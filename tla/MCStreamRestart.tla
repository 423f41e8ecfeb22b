----------------------------- MODULE MCStreamRestart -----------------------------
(* Instances of StreamRestart for TLC.                                            *)
EXTENDS StreamRestart

CONSTANTS c1
================================================================================
