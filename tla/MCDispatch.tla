----------------------------- MODULE MCDispatch -----------------------------
(* Bounded instances of Dispatch.  Slots and workers are interchangeable:  *)
(* no action names one, so permuting them is sound for the safety runs.    *)
EXTENDS Dispatch, TLC

Symm == Permutations(Slots) \cup Permutations(Workers)

=============================================================================
