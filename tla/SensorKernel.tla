---------------------------- MODULE SensorKernel ----------------------------
(***************************************************************************)
(* What the parts of the sensor node (boards/Cm0SensorNode.cpp) share: the *)
(* reset line, the bytes that travel on the SPI bus, and the processes     *)
(* that take turns in a delta cycle.  The SystemC kernel runs the methods  *)
(* of a phase before its threads.                                          *)
(***************************************************************************)
EXTENDS Integers, Sequences, FiniteSets

CONSTANTS
    MaxFrames,      \* bound: measurements the accelerometer takes
    Axes            \* the numbers of axes software enables, a subset of 0..3

ASSUME SensorAssumption == MaxFrames \in Nat /\ Axes \subseteq 0..3

VARIABLES
    nReset,     \* the reset line of the board
    chipSelect, \* TRUE: the pin is low and the accelerometer enabled
    run,        \* the processes runnable in this evaluation phase
    soon        \* those runnable in the next delta cycle

kernelVars == <<nReset, chipSelect, run, soon>>

Methods == {"spiReset", "spiIrqControl", "nvicReset", "nvic", "slaveReset",
            "spiInterface", "updateIrq"}
Threads == {"spi", "measurementLoop", "cpu"}

(***************************************************************************)
(* A byte the accelerometer has put into its FIFO is told from all others: *)
(* 'nr' counts them, and a header says how many samples follow it.  Every  *)
(* other response is Nothing.                                              *)
(***************************************************************************)
NotHeader == -1
Nothing == [nr |-> 0, header |-> NotHeader]
DataBytes == [nr : 1..(4 * MaxFrames), header : Axes \cup {0, NotHeader}]
Responses == DataBytes \cup {Nothing}

\* What the program sends: the address of a register to read or to write, the
\* value to write, or a zero to read the next response with.
Settings == [mode : 0..3, axes : Axes \cup {0}, ie : BOOLEAN]
Off == [mode |-> 0, axes |-> 0, ie |-> FALSE]
Command(kind, addr, val) == [kind |-> kind, addr |-> addr, val |-> val]
Zero == Command("zero", "CTRL", Off)
Commands ==
    [kind : {"read"}, addr : {"DATA", "STATUS"}, val : {Off}]
    \cup [kind : {"write"}, addr : {"CTRL", "FIFO_THR"}, val : {Off}]
    \cup [kind : {"value"}, addr : {"CTRL"}, val : Settings]
    \cup [kind : {"value"}, addr : {"FIFO_THR"}, val : {Off}]
    \cup {Command("reset", "CTRL", Off), Zero}

Evaluate(p) ==
    /\ p \in run
    /\ p \in Threads => run \cap Methods = {}
    /\ run' = run \ {p}

Settled == run = {} /\ soon = {}

\* What a change of nReset makes runnable.
Resetters == {"spiReset", "nvicReset", "slaveReset"}

\* The thread that measures is woken only if it waits for that event then; the
\* thread of the SPI, if it waits, by nReset going up.  "nReset" in 'soon' is the
\* change of the line.
NextDelta(listening, spiWaits) ==
    /\ run = {} /\ soon # {}
    /\ nReset' = (nReset # ("nReset" \in soon))
    /\ run' = {p \in soon \ {"nReset"} : p = "measurementLoop" => listening}
              \cup (IF "nReset" \in soon THEN Resetters ELSE {})
              \cup (IF nReset' /\ ~nReset /\ spiWaits THEN {"spi"} ELSE {})
    /\ soon' = {}
    /\ UNCHANGED chipSelect
=============================================================================
