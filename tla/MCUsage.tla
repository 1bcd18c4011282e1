------------------------------ MODULE MCUsage ------------------------------
(* Usage for TLC: the output files of the run. *)
EXTENDS Usage

CONSTANTS i1, i2

R(i, n) == [id |-> i, tok |-> n]

\* Empty; two rows, which with Chunk = 1 are two commits; and a row that always
\* raises (any ingestion may raise after its first commit, with Faults).
SmallOutputs == {<<>>, <<R(i1, 1), R(i2, 2)>>, <<R(i1, Poison)>>}
=============================================================================
