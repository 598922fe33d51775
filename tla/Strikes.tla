------------------------------ MODULE Strikes ------------------------------
(* The strike row of a member and what one more violation makes of it: one *)
(* transaction of the store (store.rs), which every message filter uses.   *)
EXTENDS Integers

NoStrikes == [count |-> 0, last |-> 0]

(* decay 0: strikes never lapse. *)
Lapsed(row, at, decay) == decay # 0 /\ at - row.last > decay

Struck_Early(row, at, decay) ==
  [count |-> IF decay # 0 /\ at - row.last >= decay THEN 1 ELSE row.count + 1, last |-> at]
Struck_Expiry(row, at, decay) ==
  [count |-> IF Lapsed(row, at, decay) THEN 1 ELSE row.count + 1, last |-> at + decay]
Struck(row, at, decay) ==
  [count |-> IF Lapsed(row, at, decay) THEN 1 ELSE row.count + 1, last |-> at]

=============================================================================
