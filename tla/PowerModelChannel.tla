-------------------------- MODULE PowerModelChannel --------------------------
(***************************************************************************)
(* The channel through which the modules of a microcontroller tell the     *)
(* power model what they do, ps/PowerModelChannel.cpp: the registration of *)
(* events and states, the counts of events, the state of each module, and  *)
(* the log.  Time is counted in steps of the supply circuit.               *)
(***************************************************************************)
EXTENDS Integers, Sequences, FiniteSets

CONSTANTS
    Modules,        \* module names
    EventNames,     \* the events to be registered, pairs of a module and a name
    StateNames,     \* the states to be registered, likewise
    LogStep,        \* m_logTimestep
    Logging,        \* there is a log file
    DumpThreshold,  \* m_logDumpThreshold
    MaxCount,       \* bound: the largest n of one report
    MaxReports      \* bound: events and states reported

ASSUME ChannelAssumption ==
    /\ EventNames \subseteq Modules \X STRING /\ StateNames \subseteq Modules \X STRING
    /\ IsFiniteSet(Modules) /\ LogStep \in Nat \ {0} /\ Logging \in BOOLEAN /\ DumpThreshold \in Nat
    /\ MaxCount \in Nat /\ MaxReports \in Nat

VARIABLES
    running,        \* sc_is_running()
    events,         \* m_events; the id of an event is its place
    rates,          \* m_eventRates
    states,         \* m_states; the id of a state is its place
    currentStates,  \* m_currentStates, 0 for none
    log,            \* m_log
    file            \* the rows in the log file

channelVars == <<running, events, rates, states, currentStates, log, file>>

Row == [counts : Seq(Nat), time : Nat]

ChannelTypeOK ==
    /\ running \in BOOLEAN
    /\ events \in Seq(EventNames) /\ rates \in Seq(Nat) /\ Len(rates) = Len(events)
    /\ states \in Seq(StateNames)
    /\ currentStates \in [Modules -> 0..Len(states)]
    /\ log \in Seq(Row) /\ file \in Seq(Row)
    /\ \A i \in DOMAIN log : Len(log[i].counts) = Len(events)
    /\ running => log # <<>>
    /\ ~running => log = <<>> /\ file = <<>>

ChannelInit ==
    /\ running = FALSE
    /\ events = <<>> /\ rates = <<>> /\ states = <<>>
    /\ currentStates = [m \in Modules |-> 0]
    /\ log = <<>> /\ file = <<>>

Registered(seq) == {seq[i] : i \in DOMAIN seq}

\* A name registered before is refused with an exception.
RegisterEvent(event) ==
    /\ ~running /\ event \notin Registered(events)
    /\ events' = Append(events, event)
    /\ rates' = Append(rates, 0)
    /\ UNCHANGED <<running, states, currentStates, log, file>>

\* The first state of a module is its state at the start.
RegisterState(state) ==
    /\ ~running /\ state \notin Registered(states)
    /\ states' = Append(states, state)
    /\ currentStates' = IF currentStates[state[1]] = 0
                        THEN [currentStates EXCEPT ![state[1]] = Len(states) + 1]
                        ELSE currentStates
    /\ UNCHANGED <<running, events, rates, log, file>>

\* A row of zeros and the time at which it ends.
NewRow(time) == [counts |-> [e \in 1..Len(events) |-> 0], time |-> time]

StartOfSimulation ==
    /\ ~running
    /\ running' = TRUE
    /\ log' = <<NewRow(LogStep)>>
    /\ UNCHANGED <<events, rates, states, currentStates, file>>

ReportEvent(e, n) ==
    /\ running
    /\ rates' = [rates EXCEPT ![e] = @ + n]
    /\ log' = [log EXCEPT ![Len(log)].counts[e] = @ + n]
    /\ UNCHANGED <<running, events, states, currentStates, file>>

ReportState(s) ==
    /\ running
    /\ currentStates' = [currentStates EXCEPT ![states[s][1]] = s]
    /\ UNCHANGED <<running, events, rates, states, log, file>>

\* popDynamicEnergy(): every event that was reported since the last time.
PopDynamicEnergy ==
    /\ rates' = [e \in DOMAIN rates |-> 0]
    /\ UNCHANGED <<running, events, states, currentStates, log, file>>

\* Mutant: the rows written to the file stay in memory.
Dumped_NoClear == <<file \o log, log>>

\* dumpEventCsv() and m_log.clear(): the file and the log.
Dumped == <<file \o log, <<>>>>

\* logLoop() after its wait, at time 'now'.
LogTurn(now) ==
    LET kept == IF Len(log) > DumpThreshold THEN Dumped ELSE <<file, log>>
    IN  /\ file' = kept[1]
        /\ log' = Append(kept[2], NewRow(LogStep + now))
        /\ UNCHANGED <<running, events, rates, states, currentStates>>
=============================================================================
