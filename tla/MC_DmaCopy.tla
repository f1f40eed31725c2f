----------------------------- MODULE MC_DmaCopy -----------------------------
(* A small instance of DmaCopy for TLC. *)
EXTENDS DmaCopy

\* A job of each mode that ends; the burst pauses once, and a halted job of two
\* elements can be resumed as one of one.
Copies ==
    [mode : {"Single"}, ie : {FALSE}, sInc : {0}, dInc : {1}, sz : {2}]
    \cup [mode : {"Block"}, ie : {TRUE}, sInc : {1}, dInc : {0}, sz : {2}]
    \cup [mode : {"RepeatedSingle"}, ie : {TRUE}, sInc : {1}, dInc : {-1}, sz : {1, 2}]
    \cup [mode : {"BurstBlock"}, ie : {TRUE}, sInc : {1}, dInc : {0}, sz : {5}]
=============================================================================
