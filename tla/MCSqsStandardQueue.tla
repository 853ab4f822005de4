-------------------------- MODULE MCSqsStandardQueue --------------------------
(***************************************************************************)
(* Model-checking instance of SqsStandardQueue.                            *)
(***************************************************************************)
EXTENDS SqsStandardQueue, TLC

Perms == Permutations(Msgs) \cup Permutations(Consumers)
=============================================================================
