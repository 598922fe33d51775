----------------------------- MODULE GuildStore -----------------------------
(***************************************************************************)
(* What the guild-scoped store promises the handlers: one strike row, one  *)
(* jail row and the config blobs of each guild, changed by the handlers    *)
(* and by nothing else.  The promise lapses, for good, when the store      *)
(* fails during the upgrade.                                               *)
(***************************************************************************)
EXTENDS Naturals

CONSTANTS
  Guilds, Users,
  Bases,       \* the base keys of the config blobs
  Values       \* what a legacy row, a new jail row or a blob may hold

NoRow == 0

VARIABLES
  rows, config,
  intact       \* nothing failed

Init ==
  /\ rows \in [{"strikes", "jails"} -> [Guilds -> [Users -> {NoRow} \cup Values]]]
  /\ config \in [Guilds -> [Bases -> {NoRow} \cup Values]]
  /\ intact = TRUE

(* A strike counts one up. *)
Strike(g, u) ==
  /\ rows' = [rows EXCEPT !["strikes"][g][u] = @ + 1]
  /\ UNCHANGED config

(* A new jail takes a snapshot; one of a jailed user keeps the snapshot. *)
Jail(g, u, v) ==
  /\ rows' = [rows EXCEPT !["jails"][g][u] = IF @ = NoRow THEN v ELSE @]
  /\ UNCHANGED config

Erase(t, g, u) ==
  /\ rows' = [rows EXCEPT ![t][g][u] = NoRow]
  /\ UNCHANGED config

Configure(g, b, v) ==
  /\ config' = [config EXCEPT ![g][b] = v]
  /\ UNCHANGED rows

Write ==
  \/ \E g \in Guilds, u \in Users : Strike(g, u)
  \/ \E g \in Guilds, u \in Users, v \in Values : Jail(g, u, v)
  \/ \E t \in {"strikes", "jails"}, g \in Guilds, u \in Users : Erase(t, g, u)
  \/ \E g \in Guilds, b \in Bases, v \in Values : Configure(g, b, v)

(* From now on anything may happen. *)
Lapse == intact' = FALSE

Next == (Write /\ UNCHANGED intact) \/ Lapse

Spec == Init /\ [][Next]_<<rows, config, intact>>

=============================================================================
