------------------------------- MODULE Absent -------------------------------
(* The value of a NULL column, of an unset attribute and of Python's None. *)
CONSTANT None
=============================================================================
