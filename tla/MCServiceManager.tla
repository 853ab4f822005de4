--------------------------- MODULE MCServiceManager ---------------------------
(***************************************************************************)
(* Model-checking instance of ServiceManager.                              *)
(***************************************************************************)
EXTENDS ServiceManager
=============================================================================
