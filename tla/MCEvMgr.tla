-------------------------------- MODULE MCEvMgr --------------------------------
(* The instance of EvMgr that TLC checks: a module the configuration names and  *)
(* one it does not.                                                             *)
EXTENDS EvMgr

CONSTANTS p1, u
================================================================================
