----------------------------- MODULE MCAntiNuke -----------------------------
(* Small instances of AntiNuke. *)
EXTENDS AntiNuke, TLC

CONSTANTS boss, rogue, self, mod, booster

Set(enabled, max, width, trusted, dry, modlog) ==
  [enabled |-> enabled, max |-> max, window |-> width, trusted |-> trusted, dry |-> dry,
   modlog |-> modlog]

(* Two actions are a nuke; three are, in a longer window and unheard; a    *)
(* trusted actor; a dry run; off.                                          *)
MCInputs == {Set(TRUE, 2, 1, {}, FALSE, TRUE), Set(TRUE, 3, 2, {}, FALSE, FALSE),
             Set(TRUE, 2, 1, {rogue}, FALSE, TRUE), Set(TRUE, 2, 1, {}, TRUE, TRUE),
             Set(TRUE, 0, 1, {}, FALSE, TRUE), Set(FALSE, 2, 1, {}, FALSE, TRUE)}

WorkerSymmetry == Permutations(Workers)

=============================================================================
