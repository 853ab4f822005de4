----------------------------- MODULE MCLambdaEvents -----------------------------
(***************************************************************************)
(* Model-checking instance of LambdaEvents.                                *)
(***************************************************************************)
EXTENDS LambdaEvents
=============================================================================
