------------------------------ MODULE MCDs18b20 ------------------------------
(* Model-checking instance of Ds18b20. *)
EXTENDS Ds18b20

=============================================================================
