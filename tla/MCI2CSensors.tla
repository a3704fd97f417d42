---------------------------- MODULE MCI2CSensors ----------------------------
(* Model-checking instance of I2CSensors. *)
EXTENDS I2CSensors

=============================================================================
