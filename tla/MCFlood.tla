------------------------------ MODULE MCFlood ------------------------------
(* Small instances of Flood. *)
EXTENDS Flood, TLC

Set(channels, messages, same, channelWindow, messageWindow, cooldown) ==
  [enabled |-> TRUE, channels |-> channels, messages |-> messages, same |-> same,
   channelWindow |-> channelWindow, messageWindow |-> messageWindow,
   cooldown |-> cooldown, decay |-> 0]

(* Two channels or three messages, without a penalty box; two channels or  *)
(* equal texts, with one; off.  Their wider windows are of two and of      *)
(* three ticks, once the messages' and once the channels'.                 *)
MCInputs == {Set(2, 3, 0, 1, 2, 0), Set(2, 0, 2, 3, 1, 2),
             [Set(2, 2, 0, 2, 2, 1) EXCEPT !.enabled = FALSE]}

WorkerSymmetry == Permutations(Workers)

=============================================================================
