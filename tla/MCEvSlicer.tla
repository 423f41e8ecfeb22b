------------------------------- MODULE MCEvSlicer -------------------------------
(* Instances of EvSlicer for TLC.                                               *)
EXTENDS EvSlicer
================================================================================
