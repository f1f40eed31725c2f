--------------------------- MODULE MC_PowerSystem ---------------------------
(* Small instances of PowerSystem for TLC. *)
EXTENDS PowerSystem

\* The CPU reports instructions and its state, a memory reports reads.
MCModules == {"cpu", "mem"}
MCEventNames == {<<"cpu", "instruction">>, <<"mem", "read">>}
MCStateNames == {<<"cpu", "off">>, <<"cpu", "on">>}
MCDrawing == {<<"cpu", "on">>}
=============================================================================
