---------------------------- MODULE MC_SensorNode ----------------------------
(* Small instances of SensorNode for TLC. *)
EXTENDS SensorNode

\* A single measurement of one axis, with the interrupt enabled; or standby.
MCValues ==
    {[mode |-> Standby, axes |-> 0, ie |-> FALSE],
     [mode |-> Single, axes |-> 1, ie |-> TRUE]}

\* After a reset, or measuring: three axes again and again, or one axis once.
MCStarts == {Off, [mode |-> Continuous, axes |-> 3, ie |-> TRUE],
             [mode |-> Single, axes |-> 1, ie |-> TRUE]}

\* An interrupt for each byte received; CR2 of a reset asks for none.
MCCR2Values == {[rxneie |-> TRUE, txeie |-> FALSE, frxth |-> 1]}
=============================================================================
