--------------------------- MODULE MC_Msp430System --------------------------
(* Small instances of Msp430System for TLC. *)
EXTENDS Msp430System
=============================================================================
