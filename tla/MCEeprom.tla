------------------------------ MODULE MCEeprom ------------------------------
(* Model-checking instance of Eeprom: three pages of four bytes. *)
EXTENDS Eeprom

=============================================================================
