---------------------------- MODULE SupplyCircuit ----------------------------
(***************************************************************************)
(* The circuit that supplies a node, ps/ExternalCircuitry.hpp: a harvester,*)
(* a storage capacitor and a voltage detector that connects the node, with *)
(* an input to keep it connected.  Voltages and the charges that change    *)
(* them are small integers; the harvester delivers what its trace says.    *)
(***************************************************************************)
EXTENDS Integers

CONSTANTS
    Harvest,        \* what a step of the trace may add to the capacitor
    VoltageLimit,   \* m_voltageLimit
    MaxStepSize,    \* m_maxStepSize
    VOn, VOff,      \* m_vOn, m_vOff: above VOn on, and until not above VOff
    Icc             \* m_icc, what the detector itself draws

ASSUME SupplyAssumption ==
    /\ Harvest \subseteq 0..MaxStepSize
    /\ VoltageLimit \in Nat /\ MaxStepSize \in Nat /\ Icc \in Nat
    /\ VOn \in Nat /\ VOff \in 0..VOn

VARIABLES
    vcap,       \* the capacitor, m_crntVoltage
    isOn,       \* m_isOn
    vcc,        \* vcc, the output of the detector
    icc,        \* the current the node draws, i_out
    keepAlive   \* forceOn

supplyVars == <<vcap, isOn, vcc, icc, keepAlive>>

\* The constructor of the detector leaves m_isOn as it finds it.
SupplyInit ==
    /\ vcap = 0 /\ vcc = 0 /\ icc = 0
    /\ isOn \in BOOLEAN /\ keepAlive = FALSE

Harvested == IF vcap + MaxStepSize < VoltageLimit THEN Harvest ELSE {0}

\* Mutant: connects as soon as the voltage is above the lower threshold.
Connected_NoHysteresis == keepAlive \/ vcap > VOff

Connected == keepAlive \/ vcap > VOn \/ (vcap > VOff /\ isOn)

\* Mutant: the voltage goes below zero.
Charged_BelowZero(v) == v

Charged(v) == IF v < 0 THEN 0 ELSE v

\* One step of the three modules: the capacitor's output is delayed by a step.
SupplyStep ==
    /\ isOn' = Connected
    /\ vcc' = IF Connected THEN vcap ELSE 0
    /\ \E i \in Harvested :
           vcap' = Charged(vcap + i - Icc - (IF Connected THEN icc ELSE 0))
    /\ UNCHANGED <<icc, keepAlive>>
=============================================================================
