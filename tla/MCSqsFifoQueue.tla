---------------------------- MODULE MCSqsFifoQueue ----------------------------
(***************************************************************************)
(* Model-checking instances of SqsFifoQueue.                               *)
(***************************************************************************)
EXTENDS SqsFifoQueue, TLC

CONSTANTS m1, m2, m3, g1, g2

\* Consumers are interchangeable, and so are messages when there is one group.
Perms == Permutations(Consumers) \cup Permutations(Msgs)

ConsumerPerms == Permutations(Consumers)

OneGroup == [m \in Msgs |-> g1]

\* m1 and m2 in one group, m3 in another.
TwoGroups == [m \in Msgs |-> IF m = m3 THEN g2 ELSE g1]

\* The state, but for the number of messages a call had asked for that looks for no more.
CallView ==
    <<queueVars, messageVars, timeVars, pc,
      [c \in {d \in Consumers : pc[d] \notin {"idle", "settle", "provider", "forward"}} |->
          num[c]],
      zeroReq, group, orphan, successful, dead, results, calls, dlqVars, worldVars>>
=============================================================================
