---------------------------- MODULE MC_CacheLru ----------------------------
(* A small instance of CacheLru for TLC, and of the arithmetic of addresses. *)
EXTENDS CacheLru, CacheMasks
=============================================================================
