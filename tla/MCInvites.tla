------------------------------ MODULE MCInvites ------------------------------
(* Small instances of Invites. *)
EXTENDS Invites, TLC

CONSTANTS c1, c2, s1

(* Nothing allowed but the own guild; partners, and a listed code. *)
MCInputs == {[listed |-> {}, partners |-> {}], [listed |-> {c2}, partners |-> Guilds]}

(* Two codes, one of which may be listed; both, and a slug. *)
MCTexts == {<<c1, c2>>, <<c1, c2, s1>>}

(* One code, and no allowlist. *)
OneCode == {<<c1>>}
NothingAllowed == {[listed |-> {}, partners |-> {}]}

(* Idle chooses a guild, but nothing reads it: a message overwrites it. *)
Symmetry == Permutations(Workers) \cup Permutations(Guilds)

=============================================================================
