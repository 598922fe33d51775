----------------------------- MODULE MCFilters -----------------------------
(* Small instances of Filters. *)
EXTENDS Filters, TLC

Says(rule, text, chars, flagged, advert) ==
  [rule |-> rule, text |-> text, chars |-> chars, flagged |-> flagged, link |-> advert]

(* A bad word; a flagged text and a short advert, which may be repeated;   *)
(* and an attachment without a text.                                       *)
MCMessages == {Says(TRUE, 0, 2, FALSE, TRUE), Says(FALSE, 1, 2, TRUE, FALSE),
               Says(FALSE, 2, 1, FALSE, TRUE), Says(FALSE, 0, 0, FALSE, FALSE)}

Automoderate(width) ==
  [enabled |-> TRUE, strikes |-> TRUE, duplicates |-> 2, window |-> width]
Classified == [enabled |-> TRUE, strikes |-> TRUE, cap |-> 1, minChars |-> 2]
Links(threshold, decay) == [enabled |-> TRUE, threshold |-> threshold, decay |-> decay]

(* Everything on; automod with a longer window and the link filter, which  *)
(* jails at once.                                                          *)
MCInputs ==
  {[automod |-> Automoderate(1), ai |-> Classified, link |-> Links(2, 1)],
   [automod |-> Automoderate(2),
    ai |-> [Classified EXCEPT !.enabled = FALSE], link |-> Links(1, 0)]}

WorkerSymmetry == Permutations(Workers)

=============================================================================
