---------------------------- MODULE MC_Cm0System ----------------------------
(* Small instances of Cm0System for TLC. *)
EXTENDS Cm0System
=============================================================================
