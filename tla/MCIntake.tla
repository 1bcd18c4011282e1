------------------------------ MODULE MCIntake ------------------------------
(* Intake for TLC: what the files of the runs hold, and symmetry. *)
EXTENDS Intake, TLC

Readable == {"good", "bad"}
Anything == {"good", "bad", "raises"}
GoodOnly == {"good"}
RaisesOnly == {"raises"}

Alike == Permutations(Batches) \cup Permutations(Orgs) \cup Permutations(Files)
=============================================================================
