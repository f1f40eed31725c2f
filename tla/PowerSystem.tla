----------------------------- MODULE PowerSystem -----------------------------
(***************************************************************************)
(* The power loop of a board, as boards/Cm0SensorNode.cpp closes it: the   *)
(* supply circuit drives vcc, the bridge (ps/PowerModelBridge.hpp) turns   *)
(* what the node reported on the channel into the current it draws, and    *)
(* the reset controller (boards/Cm0SensorNode.hpp) starts and stops the    *)
(* node.  The node reports events and states, and drives the keep-alive    *)
(* pin, which keeps its level while the node is off.                       *)
(***************************************************************************)
EXTENDS PowerModelChannel, SupplyCircuit

CONSTANTS
    VCore,      \* CpuCoreVoltage
    Drawing,    \* the states in which a module draws current
    MaxDynamic, \* the largest current of the events of a step
    MaxTime     \* bound: steps of the supply circuit

ASSUME SystemAssumption ==
    /\ VCore \in Nat /\ VCore + MaxStepSize <= VOff /\ Drawing \subseteq StateNames
    /\ MaxDynamic \in Nat \ {0} /\ MaxTime \in Nat

VARIABLES
    now,        \* the time
    due,        \* what is still to run at this time
    logAt,      \* when the wait of logLoop() ends
    nReset,     \* the node runs
    lastRead,   \* m_lastReadTime of the bridge
    reports     \* reports so far, bounded by MaxReports

vars == <<channelVars, supplyVars, now, due, logAt, nReset, lastRead, reports>>

\* A current that was divided by a time of zero.
NaN == -1

Currents == 0..(Cardinality(Modules) + MaxDynamic)

TypeOK ==
    /\ ChannelTypeOK
    /\ vcap \in 0..VoltageLimit /\ vcc \in 0..VoltageLimit /\ icc \in Currents
    /\ isOn \in BOOLEAN /\ keepAlive \in BOOLEAN /\ nReset \in BOOLEAN
    /\ now \in 0..MaxTime /\ lastRead \in 0..MaxTime
    /\ logAt \in 0..(MaxTime + LogStep)
    /\ due \subseteq {"supply", "log", "bridge", "resetCtrl"}
    /\ reports \in 0..MaxReports

\* The supply circuit takes its first step at the start, and the reset
\* controller runs once.
Init ==
    /\ ChannelInit /\ SupplyInit
    /\ now = 0 /\ due = {"supply", "resetCtrl"} /\ logAt = LogStep
    /\ nReset = FALSE /\ lastRead = 0 /\ reports = 0

Elaborate ==
    /\ \/ \E event \in EventNames : RegisterEvent(event)
       \/ \E state \in StateNames : RegisterState(state)
       \/ /\ Registered(events) = EventNames /\ Registered(states) = StateNames
          /\ StartOfSimulation
    /\ UNCHANGED <<supplyVars, now, due, logAt, nReset, lastRead, reports>>

Does(p) == running /\ p \in due

Supply ==
    /\ Does("supply")
    /\ SupplyStep
    /\ due' = (due \ {"supply"})
                \cup (IF vcc' # vcc THEN {"bridge", "resetCtrl"} ELSE {})
    /\ UNCHANGED <<channelVars, now, logAt, nReset, lastRead, reports>>

Log ==
    /\ Does("log")
    /\ LogTurn(now)
    /\ logAt' = now + LogStep
    /\ due' = due \ {"log"}
    /\ UNCHANGED <<supplyVars, now, nReset, lastRead, reports>>

StaticCurrent ==
    Cardinality({m \in Modules : currentStates[m] # 0 /\ states[currentStates[m]] \in Drawing})

\* What the events reported since the last read amount to, over the time since.
DynamicCurrents ==
    IF now = lastRead THEN {NaN}
    ELSE IF \A e \in DOMAIN rates : rates[e] = 0 THEN {0}
    ELSE 0..MaxDynamic

Bridge ==
    /\ Does("bridge")
    /\ due' = due \ {"bridge"}
    /\ IF vcc = 0
       THEN icc' = 0 /\ UNCHANGED <<channelVars, lastRead>>
       ELSE /\ lastRead' = now
            /\ PopDynamicEnergy
            /\ \E i \in DynamicCurrents :
                   icc' = IF i = NaN THEN NaN ELSE StaticCurrent + i
    /\ UNCHANGED <<vcap, isOn, vcc, keepAlive, now, logAt, nReset, reports>>

ResetCtrl ==
    /\ Does("resetCtrl")
    /\ nReset' = (vcc > VCore)
    /\ due' = due \ {"resetCtrl"}
    /\ UNCHANGED <<channelVars, supplyVars, now, logAt, lastRead, reports>>

\* A module reports, in a step of its own at any point of the time step.
Report ==
    /\ running /\ reports < MaxReports
    /\ reports' = reports + 1
    /\ \/ \E e \in DOMAIN events, n \in 1..MaxCount : ReportEvent(e, n)
       \/ \E s \in DOMAIN states : ReportState(s)
    /\ UNCHANGED <<supplyVars, now, due, logAt, nReset, lastRead>>

DriveKeepAlive ==
    /\ running /\ nReset
    /\ keepAlive' \in BOOLEAN
    /\ UNCHANGED <<channelVars, vcap, isOn, vcc, icc, now, due, logAt, nReset,
                   lastRead, reports>>

TimePasses ==
    /\ running /\ due = {} /\ now < MaxTime
    /\ now' = now + 1
    /\ due' = {"supply"}
              \cup (IF Logging /\ now' = logAt THEN {"log"} ELSE {})
    /\ UNCHANGED <<channelVars, supplyVars, logAt, nReset, lastRead, reports>>

Next ==
    \/ Elaborate \/ Supply \/ Log \/ Bridge \/ ResetCtrl
    \/ Report \/ DriveKeepAlive \/ TimePasses

Spec == Init /\ [][Next]_vars

-----------------------------------------------------------------------------
(* Properties *)

\* The channel keeps the ledger's promise (PowerModelChannel.hpp:142, "The event
\* counts for logging are unaffected reset by the channel's reader"), whatever the bridge
\* pops, and whenever the log goes to the file.
Ledger == INSTANCE EventLedger WITH owed <- rates, rows <- file \o log

ImplementsLedger == Ledger!LedgerSpec

\* The node starts only when the capacitor has reached the upper threshold of the
\* detector (ExternalCircuitry.hpp, m_vOn), unless it kept itself connected: the
\* reset controller watches a lower voltage, and m_isOn is not initialised.
StartsCharged == [][~nReset /\ nReset' => vcc > VOn \/ keepAlive]_vars
=============================================================================
