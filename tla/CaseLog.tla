------------------------------ MODULE CaseLog ------------------------------
(***************************************************************************)
(* What the case system promises each guild: an append-only log, whose     *)
(* n-th entry is case number n (core/src/cases.rs, "Monotonic, never       *)
(* reuses a number").                                                      *)
(***************************************************************************)
EXTENDS Naturals, Sequences

CONSTANTS Guilds, Case

VARIABLE log

Init == log = [g \in Guilds |-> <<>>]

(* The log of g grows by one case at its end; nothing else changes. *)
Write(g) ==
  LET n == Len(log[g]) + 1 IN
  /\ n \in DOMAIN log'[g]
  /\ log'[g][n] \in Case
  /\ log' = [log EXCEPT ![g] = Append(@, log'[g][n])]

Next == \E g \in Guilds : Write(g)

Spec == Init /\ [][Next]_log

=============================================================================
