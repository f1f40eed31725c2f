------------------------------ MODULE MC_Cache ------------------------------
(* Small instances of Cache for TLC. *)
EXTENDS Cache
=============================================================================
