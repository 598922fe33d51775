------------------------------ MODULE MCCases ------------------------------
(* Small instances of Cases. *)
EXTENDS Cases, TLC

Escalate(threshold, window, action) ==
  [threshold |-> threshold, window |-> window, action |-> action]

(* Two warns within a day, and no escalation. *)
MCPolicies == {Escalate(2, 1, "jail"), Escalate(0, 1, "ban")}

WorkerSymmetry == Permutations(Workers)

=============================================================================
