------------------------------- MODULE MC_Dma -------------------------------
(* A small instance of Dma for TLC. *)
EXTENDS Dma

\* Every mode; bursts are long enough to pause once.
EveryMode ==
    [mode : {"Single"}, ie : {FALSE}, sInc : {-1}, dInc : {0}, sz : {2}]
    \cup [mode : {"Block"}, ie : {TRUE}, sInc : {1}, dInc : {-1}, sz : {2}]
    \cup [mode : {"BurstBlock"}, ie : {TRUE}, sInc : {1}, dInc : {0}, sz : {5}]
    \cup [mode : {"RepeatedSingle", "RepeatedBlock", "RepeatedBurstBlock"},
          ie : {TRUE}, sInc : {1}, dInc : {1}, sz : {1}]
=============================================================================
