------------------------------- MODULE MCRaid -------------------------------
(* Small instances of Console, and of the defence behind it. *)
EXTENDS Console, TLC

Set(enabled, screens, threshold, secs) ==
  [enabled |-> enabled, screens |-> screens, threshold |-> threshold, window |-> secs]

(* What an admin may enter: a raid threshold of two joins, with the rules, *)
(* and without them within a longer window; off; and a threshold that is   *)
(* refused.                                                                *)
MCInputs == {Set(TRUE, TRUE, 2, 1), Set(TRUE, FALSE, 2, 2), Set(FALSE, FALSE, 3, 1),
             Set(TRUE, TRUE, 1, 1)}

Symmetry == Permutations(Workers) \cup Permutations(Tokens)

=============================================================================
