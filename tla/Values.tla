------------------------------- MODULE Values -------------------------------
(* What the components share: the null of the code and of the database.     *)
CONSTANT NULL
=============================================================================
