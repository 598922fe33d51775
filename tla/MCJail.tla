------------------------------- MODULE MCJail -------------------------------
(* Jail on a small guild; the tasks of a worker pool are interchangeable.   *)
EXTENDS Jail, TLC

WorkerSymmetry == Permutations(Workers)

=============================================================================
