------------------------- MODULE MCLambdaVersionManager -------------------------
(* Instances of LambdaVersionManager for TLC. *)
EXTENDS LambdaVersionManager, TLC

CONSTANTS p1, p2, u1, u2

\* No provisioned concurrency at all.
NoEnvs == [u \in {} |-> {}]

\* Provisioned concurrency is set to 2 and removed again.
PutAndDelete == u1 :> {p1, p2} @@ u2 :> {}

Perms == Permutations(Invocations)

=============================================================================
