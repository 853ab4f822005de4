------------------------ MODULE MCStepFunctionsCallback ------------------------
(***************************************************************************)
(* Model-checking instance of StepFunctionsCallback.                       *)
(***************************************************************************)
EXTENDS StepFunctionsCallback
=============================================================================
