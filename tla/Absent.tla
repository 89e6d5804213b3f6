-------------------------------- MODULE Absent --------------------------------
(* The value of a column that is null, and of a variable that holds nothing. *)
CONSTANT None
=============================================================================
