------------------------- MODULE PowerSystem_proofs -------------------------
(***************************************************************************)
(* The power loop is correct for every set of modules, events and states,  *)
(* every harvest and every pair of thresholds that the assumptions admit.  *)
(***************************************************************************)
EXTENDS PowerSystem, SequenceTheorems, FiniteSetTheorems, TLAPS

-----------------------------------------------------------------------------
(* Sequences *)

\* The counts of a new row, ps/PowerModelChannel.cpp:235: as many zeros as asked for.
LEMMA ZerosSeq ==
    ASSUME NEW n \in Nat
    PROVE  /\ [e \in 1..n |-> 0] \in Seq(Nat)
           /\ Len([e \in 1..n |-> 0]) = n
<1>. DEFINE z == [e \in 1..n |-> 0]
<1>1. z \in [1..n -> Nat]
  OBVIOUS
<1>2. DOMAIN z = 1..n
  OBVIOUS
<1>. HIDE DEF z
<1>3. z \in Seq(Nat)
  BY <1>1
<1>4. DOMAIN z = 1..Len(z) /\ Len(z) \in Nat
  BY <1>3, LenProperties
<1>5. Len(z) = n
  <2>1. 1..n = 1..Len(z)
    BY <1>2, <1>4
  <2>2. ASSUME NEW m \in Nat, 1..n = 1..m PROVE n = m
    <3>1. \A i \in Int : (1 <= i /\ i <= n) <=> (1 <= i /\ i <= m)
      BY <2>2
    <3>. QED  BY <3>1
  <2>. QED  BY <1>4, <2>1, <2>2
<1>. QED  BY <1>3, <1>5 DEF z

\* The last row of the file and the memory together is the last one in memory.
LEMMA LastOfConcat ==
    ASSUME NEW S, NEW s \in Seq(S), NEW t \in Seq(S), t # <<>>
    PROVE  /\ s \o t \in Seq(S) /\ s \o t # <<>>
           /\ Len(s \o t) \in 1..Len(s \o t)
           /\ (s \o t)[Len(s \o t)] = t[Len(t)]
<1>1. Len(t) \in Nat \ {0} /\ Len(s) \in Nat
  BY EmptySeq, LenProperties
<1>. QED  BY <1>1, ConcatProperties, EmptySeq

\* The places of a sequence with a row added, as m_log.push_back() adds it.
LEMMA AppendLast ==
    ASSUME NEW S, NEW s \in Seq(S), NEW x \in S
    PROVE  /\ Append(s, x) \in Seq(S) /\ Append(s, x) # <<>>
           /\ Len(Append(s, x)) = Len(s) + 1
           /\ Append(s, x)[Len(Append(s, x))] = x
           /\ \A i \in DOMAIN Append(s, x) :
                  Append(s, x)[i] = x \/ (i \in DOMAIN s /\ Append(s, x)[i] = s[i])
  OBVIOUS

\* Adding a row to the memory adds it to the file and the memory together.
LEMMA ConcatAppend ==
    ASSUME NEW S, NEW s \in Seq(S), NEW t \in Seq(S), NEW x \in S
    PROVE  s \o Append(t, x) = Append(s \o t, x)
  OBVIOUS

\* A sequence with x in its last place, as m_log.back() is written.
Bump(s, x) == [s EXCEPT ![Len(s)] = x]

\* Writing m_log.back() leaves the other rows alone.
LEMMA BumpSeq ==
    ASSUME NEW S, NEW s \in Seq(S), NEW x \in S, s # <<>>
    PROVE  /\ Bump(s, x) \in Seq(S) /\ Len(Bump(s, x)) = Len(s)
           /\ \A j \in 1..Len(s) : Bump(s, x)[j] = IF j = Len(s) THEN x ELSE s[j]
<1>1. Len(s) \in 1..Len(s)
  BY EmptySeq, LenProperties
<1>. QED  BY <1>1, ExceptSeq DEF Bump

\* Writing the last row in memory writes the last row of the file and the memory
\* together.
LEMMA BumpConcat ==
    ASSUME NEW S, NEW s \in Seq(S), NEW t \in Seq(S), NEW x \in S, t # <<>>
    PROVE  s \o Bump(t, x) = Bump(s \o t, x)
<1>. DEFINE u == Bump(t, x)
            w == s \o t
            v == Bump(w, x)
            su == s \o u
<1>1. Len(s) \in Nat /\ Len(t) \in Nat \ {0}
  BY EmptySeq, LenProperties
<1>2. /\ u \in Seq(S) /\ Len(u) = Len(t)
      /\ \A j \in 1..Len(t) : u[j] = IF j = Len(t) THEN x ELSE t[j]
  BY BumpSeq
<1>3. /\ w \in Seq(S) /\ Len(w) = Len(s) + Len(t) /\ w # <<>>
      /\ \A i \in 1..Len(s)+Len(t) : w[i] = IF i <= Len(s) THEN s[i] ELSE t[i - Len(s)]
  BY <1>1, ConcatProperties, EmptySeq
<1>4. /\ v \in Seq(S) /\ Len(v) = Len(w)
      /\ \A j \in 1..Len(w) : v[j] = IF j = Len(w) THEN x ELSE w[j]
  <2>. HIDE DEF w
  <2>. QED  BY <1>3, BumpSeq
<1>5. /\ su \in Seq(S) /\ Len(su) = Len(s) + Len(t)
      /\ \A i \in 1..Len(s)+Len(t) : su[i] = IF i <= Len(s) THEN s[i] ELSE u[i - Len(s)]
  <2>. HIDE DEF u
  <2>1. u \in Seq(S) /\ Len(u) = Len(t)
    BY <1>2
  <2>2. /\ s \o u \in Seq(S) /\ Len(s \o u) = Len(s) + Len(u)
        /\ \A i \in 1..Len(s)+Len(u) : (s \o u)[i] = IF i <= Len(s) THEN s[i] ELSE u[i - Len(s)]
    BY <2>1, ConcatProperties
  <2>. QED  BY <2>1, <2>2
<1>. HIDE DEF u, v, w, su
<1>6. ASSUME NEW i \in 1..Len(su) PROVE su[i] = v[i]
  <2>1. i \in 1..Len(s)+Len(t)
    BY <1>5
  <2>2. CASE i <= Len(s)
    BY <1>1, <1>3, <1>4, <1>5, <2>1, <2>2
  <2>3. CASE ~(i <= Len(s))
    <3>1. i - Len(s) \in 1..Len(t)
      BY <1>1, <2>1, <2>3
    <3>2. su[i] = IF i - Len(s) = Len(t) THEN x ELSE t[i - Len(s)]
      BY <1>2, <1>5, <2>1, <2>3, <3>1
    <3>3. v[i] = IF i = Len(s) + Len(t) THEN x ELSE t[i - Len(s)]
      BY <1>3, <1>4, <2>1, <2>3
    <3>. QED  BY <1>1, <2>1, <3>2, <3>3
  <2>. QED  BY <2>2, <2>3
<1>7. su = v
  BY <1>3, <1>4, <1>5, <1>6, SeqEqual
<1>. QED  BY <1>7 DEF u, v, w, su

-----------------------------------------------------------------------------
(* Type correctness *)

\* The bridge is woken at most once at an instant, after the supply has moved, and
\* never at the instant of its last read (ps/PowerModelBridge.hpp:35).
ReadBefore ==
    /\ lastRead <= now
    /\ "supply" \in due => "bridge" \notin due /\ (lastRead < now \/ (vcap = 0 /\ vcc = 0))
    /\ "bridge" \in due => vcc = 0 \/ lastRead < now

\* A row with n more of an event.
Bumped(row, e, n) == [row EXCEPT !.counts[e] = @ + n]

\* A new row has a count for every registered event.
LEMMA NewRowType ==
    ASSUME events \in Seq(EventNames), NEW time \in Nat
    PROVE  NewRow(time) \in Row /\ Len(NewRow(time).counts) = Len(events)
<1>1. Len(events) \in Nat
  BY LenProperties
<1>. DEFINE z == [e \in 1..Len(events) |-> 0]
<1>2. z \in Seq(Nat) /\ Len(z) = Len(events)
  BY <1>1, ZerosSeq
<1>. HIDE DEF z
<1>3. NewRow(time) = [counts |-> z, time |-> time]
  BY DEF NewRow, z
<1>. QED  BY <1>2, <1>3 DEF Row

\* A count that grows leaves the row a row, and its time alone.
LEMMA BumpedType ==
    ASSUME NEW row \in Row, NEW e \in 1..Len(row.counts), NEW n \in Nat
    PROVE  /\ Bumped(row, e, n) \in Row
           /\ Len(Bumped(row, e, n).counts) = Len(row.counts)
           /\ Bumped(row, e, n).time = row.time
<1>. DEFINE c == row.counts
            d == [c EXCEPT ![e] = c[e] + n]
<1>1. c \in Seq(Nat) /\ row.time \in Nat
  BY DEF Row
<1>2. c[e] + n \in Nat
  BY <1>1, ElementOfSeq
<1>3. d \in Seq(Nat) /\ Len(d) = Len(c)
  BY <1>1, <1>2, ExceptSeq
<1>4. Bumped(row, e, n) = [counts |-> d, time |-> row.time]
  BY DEF Bumped, Row
<1>. QED  BY <1>1, <1>3, <1>4 DEF Row

\* reportEvent() writes the last row, ps/PowerModelChannel.cpp:138.
LEMMA ReportEventBumps ==
    ASSUME ChannelTypeOK, NEW e, NEW n, ReportEvent(e, n)
    PROVE  log' = Bump(log, Bumped(log[Len(log)], e, n))
BY DEF ReportEvent, Bump, Bumped, ChannelTypeOK

\* Registration keeps events and their rates in step, and gives a module the state
\* with the new id (ps/PowerModelChannel.cpp:48 and 91).
LEMMA RegisterTypes ==
    ASSUME ChannelTypeOK,
           \/ \E event \in EventNames : RegisterEvent(event)
           \/ \E state \in StateNames : RegisterState(state)
    PROVE  ChannelTypeOK'
<1>1. CASE \E event \in EventNames : RegisterEvent(event)
  <2>. PICK event \in EventNames : RegisterEvent(event)
    BY <1>1
  <2>. USE DEF RegisterEvent
  <2>1. /\ events' \in Seq(EventNames) /\ Len(events') = Len(events) + 1
        /\ rates' \in Seq(Nat) /\ Len(rates') = Len(rates) + 1
    BY AppendProperties DEF ChannelTypeOK
  <2>2. log' = <<>> /\ file' = <<>> /\ ~running'
    BY DEF ChannelTypeOK
  <2>. QED  BY <2>1, <2>2 DEF ChannelTypeOK
<1>2. CASE \E state \in StateNames : RegisterState(state)
  <2>. PICK state \in StateNames : RegisterState(state)
    BY <1>2
  <2>. USE DEF RegisterState
  <2>1. states \in Seq(StateNames) /\ states' = Append(states, state) /\ Len(states) \in Nat
    BY LenProperties DEF ChannelTypeOK
  <2>2. states' \in Seq(StateNames) /\ Len(states') = Len(states) + 1
    BY <2>1, AppendProperties
  <2>3. currentStates' \in [Modules -> 0..Len(states')]
    <3>. DEFINE k == Len(states)
                k1 == Len(states')
    <3>1. currentStates \in [Modules -> 0..k]
      BY DEF ChannelTypeOK
    <3>2. k \in Nat /\ k1 = k + 1
      BY <2>1, <2>2
    <3>3. currentStates' = currentStates
          \/ currentStates' = [currentStates EXCEPT ![state[1]] = k + 1]
      OBVIOUS
    <3>. HIDE DEF k, k1
    <3>4. currentStates \in [Modules -> 0..k1] /\ k + 1 \in 0..k1
      BY <3>1, <3>2
    <3>5. currentStates' \in [Modules -> 0..k1]
      BY <3>3, <3>4
    <3>. QED  BY <3>5 DEF k1
  <2>. QED  BY <2>2, <2>3 DEF ChannelTypeOK
<1>. QED  BY <1>1, <1>2

\* start_of_simulation() opens the first row.
LEMMA StartTypes ==
    ASSUME ChannelTypeOK, StartOfSimulation
    PROVE  ChannelTypeOK'
<1>. DEFINE r == NewRow(LogStep)
<1>1. r \in Row /\ Len(r.counts) = Len(events)
  BY NewRowType, ChannelAssumption DEF ChannelTypeOK
<1>. HIDE DEF r
<1>2. log' = <<r>> /\ running' /\ UNCHANGED <<events, rates, states, currentStates, file>>
  BY DEF StartOfSimulation, r
<1>3. log' \in Seq(Row) /\ log' # <<>> /\ \A i \in DOMAIN log' : Len(log'[i].counts) = Len(events)
  BY <1>1, <1>2
<1>. QED  BY <1>2, <1>3 DEF ChannelTypeOK

\* reportEvent() keeps the shape of the rates and of the log.
LEMMA ReportEventTypes ==
    ASSUME ChannelTypeOK, NEW e \in DOMAIN events, NEW n \in Nat, ReportEvent(e, n)
    PROVE  ChannelTypeOK'
<1>. DEFINE r == Bumped(log[Len(log)], e, n)
<1>1. /\ log \in Seq(Row) /\ log # <<>> /\ Len(log) \in 1..Len(log) /\ log[Len(log)] \in Row
      /\ Len(log[Len(log)].counts) = Len(events) /\ e \in 1..Len(events)
  <2>1. log \in Seq(Row) /\ log # <<>>
    BY DEF ChannelTypeOK, ReportEvent
  <2>2. Len(log) \in 1..Len(log) /\ DOMAIN log = 1..Len(log)
    BY <2>1, EmptySeq, LenProperties
  <2>3. log[Len(log)] \in Row
    BY <2>1, <2>2, ElementOfSeq
  <2>4. DOMAIN events = 1..Len(events)
    BY LenProperties DEF ChannelTypeOK
  <2>. QED  BY <2>1, <2>2, <2>3, <2>4 DEF ChannelTypeOK
<1>2. r \in Row /\ Len(r.counts) = Len(events)
  BY <1>1, BumpedType
<1>. HIDE DEF r
<1>3. log' = Bump(log, r)
  BY ReportEventBumps DEF r
<1>4. /\ log' \in Seq(Row) /\ Len(log') = Len(log)
      /\ \A i \in 1..Len(log) : log'[i] = r \/ log'[i] = log[i]
  <2>1. log \in Seq(Row) /\ log # <<>> /\ r \in Row
    BY <1>1, <1>2
  <2>2. /\ Bump(log, r) \in Seq(Row) /\ Len(Bump(log, r)) = Len(log)
        /\ \A i \in 1..Len(log) : Bump(log, r)[i] = IF i = Len(log) THEN r ELSE log[i]
    BY <2>1, BumpSeq
  <2>. QED  BY <1>3, <2>2
<1>5. \A i \in DOMAIN log' : Len(log'[i].counts) = Len(events)
  BY <1>1, <1>2, <1>4, LenProperties DEF ChannelTypeOK
<1>6. log' # <<>>
  BY <1>1, <1>4, EmptySeq
<1>7. rates' \in Seq(Nat) /\ Len(rates') = Len(rates)
  <2>1. rates \in Seq(Nat) /\ e \in 1..Len(rates) /\ rates[e] + n \in Nat
    BY <1>1 DEF ChannelTypeOK
  <2>2. rates' = [rates EXCEPT ![e] = rates[e] + n]
    BY DEF ReportEvent
  <2>. QED  BY <2>1, <2>2, ExceptSeq
<1>. QED  BY <1>4, <1>5, <1>6, <1>7 DEF ChannelTypeOK, ReportEvent

\* reportState() gives a module one of the registered states.
LEMMA ReportStateTypes ==
    ASSUME ChannelTypeOK, NEW s \in DOMAIN states, ReportState(s)
    PROVE  ChannelTypeOK'
<1>1. s \in 0..Len(states)
  BY LenProperties DEF ChannelTypeOK
<1>2. currentStates' \in [Modules -> 0..Len(states)]
  BY <1>1 DEF ChannelTypeOK, ReportState
<1>. QED  BY <1>2 DEF ChannelTypeOK, ReportState

\* popDynamicEnergy() leaves a rate for every event.
LEMMA PopTypes ==
    ASSUME ChannelTypeOK, PopDynamicEnergy
    PROVE  ChannelTypeOK'
<1>. DEFINE z == [e \in 1..Len(rates) |-> 0]
<1>1. DOMAIN rates = 1..Len(rates) /\ Len(rates) \in Nat
  BY LenProperties DEF ChannelTypeOK
<1>2. z \in Seq(Nat) /\ Len(z) = Len(rates)
  BY <1>1, ZerosSeq
<1>3. rates' = z
  BY <1>1 DEF PopDynamicEnergy
<1>. QED  BY <1>2, <1>3 DEF ChannelTypeOK, PopDynamicEnergy

\* What a turn of logLoop() does to the rows in the file and in memory.
LEMMA LogTurnRows ==
    ASSUME ChannelTypeOK, NEW t \in Nat, LogTurn(t)
    PROVE  LET r == NewRow(LogStep + t)
           IN  /\ r \in Row /\ Len(r.counts) = Len(events)
               /\ \/ file' = file \o log /\ log' = <<r>>
                  \/ file' = file /\ log' = Append(log, r)
<1>1. LogStep + t \in Nat /\ events \in Seq(EventNames)
  BY ChannelAssumption DEF ChannelTypeOK
<1>2. NewRow(LogStep + t) \in Row /\ Len(NewRow(LogStep + t).counts) = Len(events)
  BY <1>1, NewRowType
<1>. DEFINE r == NewRow(LogStep + t)
<1>. HIDE DEF r
<1>3. \/ file' = file \o log /\ log' = Append(<<>>, r)
      \/ file' = file /\ log' = Append(log, r)
  BY DEF LogTurn, Dumped, r
<1>4. Append(<<>>, r) = <<r>>
  OBVIOUS
<1>. QED  BY <1>2, <1>3, <1>4 DEF r

\* logLoop() leaves at least one row in memory, whether it dumps the log or not.
LEMMA LogTypes ==
    ASSUME ChannelTypeOK, running, NEW t \in Nat, LogTurn(t)
    PROVE  ChannelTypeOK'
<1>. DEFINE r == NewRow(LogStep + t)
<1>. HIDE DEF r
<1>1. /\ r \in Row /\ Len(r.counts) = Len(events)
      /\ \/ file' = file \o log /\ log' = <<r>>
         \/ file' = file /\ log' = Append(log, r)
  BY LogTurnRows DEF r
<1>2. UNCHANGED <<running, events, rates, states, currentStates>>
  BY DEF LogTurn
<1>3. CASE file' = file \o log /\ log' = <<r>>
  <2>1. file' \in Seq(Row)
    BY <1>3, ConcatProperties DEF ChannelTypeOK
  <2>2. log' \in Seq(Row) /\ log' # <<>> /\ \A i \in DOMAIN log' : Len(log'[i].counts) = Len(events)
    BY <1>1, <1>3
  <2>. QED  BY <1>2, <2>1, <2>2 DEF ChannelTypeOK
<1>4. CASE file' = file /\ log' = Append(log, r)
  <2>1. /\ log' \in Seq(Row) /\ log' # <<>>
        /\ \A i \in DOMAIN log' : log'[i] = r \/ (i \in DOMAIN log /\ log'[i] = log[i])
    BY <1>1, <1>4, AppendLast DEF ChannelTypeOK
  <2>. QED  BY <1>1, <1>2, <1>4, <2>1 DEF ChannelTypeOK
<1>. QED  BY <1>1, <1>3, <1>4

\* The bounds of the supply circuit, with a current that is not NaN.
LEMMA SupplyTypes ==
    ASSUME TypeOK, SupplyStep
    PROVE  /\ vcap' \in 0..VoltageLimit /\ vcc' \in 0..VoltageLimit /\ icc' \in Currents
           /\ isOn' \in BOOLEAN /\ keepAlive' \in BOOLEAN
           /\ vcc' = IF isOn' THEN vcap ELSE 0
           /\ isOn' = (keepAlive \/ vcap > VOn \/ (vcap > VOff /\ isOn))
           /\ vcap' <= vcap + MaxStepSize
           /\ UNCHANGED keepAlive
<1>. USE SupplyAssumption
<1>1. /\ vcap \in Nat /\ vcap <= VoltageLimit /\ vcc \in Nat /\ icc \in Nat
      /\ isOn \in BOOLEAN /\ keepAlive \in BOOLEAN /\ icc \in Currents
  <2>1. Cardinality(Modules) \in Nat
    BY ChannelAssumption, FS_CardinalityType
  <2>. QED  BY <2>1, SystemAssumption DEF TypeOK, Currents
<1>2. Connected \in BOOLEAN
  BY <1>1 DEF Connected
<1>3. PICK i \in Harvested : vcap' = Charged(vcap + i - Icc - (IF Connected THEN icc ELSE 0))
  BY DEF SupplyStep
<1>4. i \in 0..MaxStepSize /\ vcap + i <= VoltageLimit
  BY <1>1, <1>3 DEF Harvested
<1>5. vcap' \in 0..VoltageLimit /\ vcap' <= vcap + MaxStepSize
  <2>. DEFINE d == IF Connected THEN icc ELSE 0
  <2>1. d \in Nat
    BY <1>1
  <2>. HIDE DEF d
  <2>2. vcap' = Charged(vcap + i - Icc - d)
    BY <1>3 DEF d
  <2>. QED  BY <1>1, <1>4, <2>1, <2>2 DEF Charged
<1>6. vcc' = IF isOn' THEN vcap ELSE 0
  BY DEF SupplyStep
<1>7. isOn' = Connected /\ icc' = icc /\ keepAlive' = keepAlive
  BY DEF SupplyStep
<1>. QED  BY <1>1, <1>2, <1>5, <1>6, <1>7 DEF Connected

\* A module has one state, so it adds at most one to the static current.
LEMMA StaticCurrentType == StaticCurrent \in 0..Cardinality(Modules)
<1>. DEFINE D == {m \in Modules : currentStates[m] # 0 /\ states[currentStates[m]] \in Drawing}
<1>1. Cardinality(D) <= Cardinality(Modules) /\ IsFiniteSet(D)
  BY ChannelAssumption, FS_Subset
<1>2. Cardinality(D) \in Nat /\ Cardinality(Modules) \in Nat
  BY <1>1, ChannelAssumption, FS_CardinalityType
<1>. QED  BY <1>1, <1>2 DEF StaticCurrent

\* The initial states.
LEMMA InitFacts == Init => TypeOK /\ ReadBefore
<1>. SUFFICES ASSUME Init PROVE TypeOK /\ ReadBefore
  OBVIOUS
<1>1. ChannelTypeOK
  <2>1. /\ running = FALSE /\ events = <<>> /\ rates = <<>> /\ states = <<>>
        /\ currentStates = [m \in Modules |-> 0] /\ log = <<>> /\ file = <<>>
    BY DEF Init, ChannelInit
  <2>2. /\ events \in Seq(EventNames) /\ rates \in Seq(Nat) /\ states \in Seq(StateNames)
        /\ log \in Seq(Row) /\ file \in Seq(Row)
        /\ Len(events) = 0 /\ Len(rates) = 0 /\ Len(states) = 0
    BY <2>1, EmptySeq
  <2>3. currentStates \in [Modules -> 0..Len(states)]
    BY <2>1, <2>2
  <2>4. DOMAIN log = {}
    BY <2>1
  <2>. QED  BY <2>1, <2>2, <2>3, <2>4 DEF ChannelTypeOK
<1>2. icc \in Currents
  <2>1. Cardinality(Modules) \in Nat
    BY ChannelAssumption, FS_CardinalityType
  <2>. QED  BY <2>1, SystemAssumption DEF Currents, Init, SupplyInit
<1>3. /\ vcap = 0 /\ vcc = 0 /\ now = 0 /\ lastRead = 0 /\ reports = 0 /\ logAt = LogStep
      /\ isOn \in BOOLEAN /\ keepAlive = FALSE /\ nReset = FALSE
      /\ due = {"supply", "resetCtrl"}
  BY DEF Init, SupplyInit
<1>4. /\ VoltageLimit \in Nat /\ LogStep \in Nat /\ MaxReports \in Nat /\ MaxTime \in Nat
  BY ChannelAssumption, SupplyAssumption, SystemAssumption
<1>5. TypeOK
  <2>1. /\ vcap \in 0..VoltageLimit /\ vcc \in 0..VoltageLimit
        /\ now \in 0..MaxTime /\ lastRead \in 0..MaxTime /\ reports \in 0..MaxReports
    BY <1>3, <1>4
  <2>2. logAt \in 0..(MaxTime + LogStep)
    BY <1>3, <1>4
  <2>3. isOn \in BOOLEAN /\ keepAlive \in BOOLEAN /\ nReset \in BOOLEAN
    BY <1>3
  <2>4. due \subseteq {"supply", "log", "bridge", "resetCtrl"}
    BY <1>3
  <2>. QED  BY <1>1, <1>2, <2>1, <2>2, <2>3, <2>4 DEF TypeOK
<1>. QED  BY <1>3, <1>5 DEF ReadBefore

\* Every step keeps the types; the bridge's division by the time since the last read
\* is the step that needs ReadBefore.
LEMMA TypeStep == TypeOK /\ ReadBefore /\ [Next]_vars => TypeOK'
<1>. SUFFICES ASSUME TypeOK, ReadBefore, [Next]_vars PROVE TypeOK'
  OBVIOUS
<1>. USE ChannelAssumption, SystemAssumption
<1>1. CASE Elaborate
  <2>1. ChannelTypeOK'
    BY <1>1, RegisterTypes, StartTypes DEF Elaborate, TypeOK
  <2>. QED  BY <1>1, <2>1 DEF Elaborate, TypeOK, supplyVars
<1>2. CASE Supply
  <2>1. ChannelTypeOK'
    BY <1>2 DEF Supply, TypeOK, ChannelTypeOK, channelVars
  <2>2. /\ vcap' \in 0..VoltageLimit /\ vcc' \in 0..VoltageLimit /\ icc' \in Currents
        /\ isOn' \in BOOLEAN /\ keepAlive' \in BOOLEAN
    BY <1>2, SupplyTypes DEF Supply
  <2>3. due' \subseteq {"supply", "log", "bridge", "resetCtrl"}
    BY <1>2 DEF Supply, TypeOK
  <2>. QED  BY <1>2, <2>1, <2>2, <2>3 DEF Supply, TypeOK
<1>3. CASE Log
  <2>1. ChannelTypeOK'
    BY <1>3, LogTypes DEF Log, Does, TypeOK
  <2>2. logAt' \in 0..(MaxTime + LogStep)
    BY <1>3 DEF Log, TypeOK
  <2>. QED  BY <1>3, <2>1, <2>2 DEF Log, TypeOK, supplyVars
<1>4. CASE Bridge
  <2>1. ChannelTypeOK'
    BY <1>4, PopTypes DEF Bridge, TypeOK, ChannelTypeOK, channelVars
  <2>2. icc' \in Currents
    <3>1. Cardinality(Modules) \in Nat /\ 0 \in Currents
      BY FS_CardinalityType DEF Currents
    <3>2. CASE vcc = 0
      BY <1>4, <3>1, <3>2 DEF Bridge
    <3>3. CASE vcc # 0
      <4>1. now # lastRead
        BY <1>4, <3>3 DEF Bridge, Does, ReadBefore, TypeOK
      <4>2. PICK i \in DynamicCurrents : icc' = IF i = NaN THEN NaN ELSE StaticCurrent + i
        BY <1>4, <3>3 DEF Bridge
      <4>3. i \in 0..MaxDynamic
        BY <4>1, <4>2 DEF DynamicCurrents
      <4>4. icc' = StaticCurrent + i
        BY <4>2, <4>3 DEF NaN
      <4>. QED  BY <3>1, <4>3, <4>4, StaticCurrentType DEF Currents
    <3>. QED  BY <3>2, <3>3
  <2>. QED  BY <1>4, <2>1, <2>2 DEF Bridge, TypeOK
<1>5. CASE ResetCtrl
  BY <1>5 DEF ResetCtrl, TypeOK, ChannelTypeOK, channelVars, supplyVars
<1>6. CASE Report
  <2>1. ChannelTypeOK'
    <3>1. CASE \E e \in DOMAIN events, n \in 1..MaxCount : ReportEvent(e, n)
      BY <3>1, ReportEventTypes DEF TypeOK
    <3>2. CASE \E s \in DOMAIN states : ReportState(s)
      BY <3>2, ReportStateTypes DEF TypeOK
    <3>. QED  BY <1>6, <3>1, <3>2 DEF Report
  <2>2. reports' \in 0..MaxReports
    BY <1>6 DEF Report, TypeOK
  <2>. QED  BY <1>6, <2>1, <2>2 DEF Report, TypeOK, supplyVars
<1>7. CASE DriveKeepAlive
  BY <1>7 DEF DriveKeepAlive, TypeOK, ChannelTypeOK, channelVars
<1>8. CASE TimePasses
  <2>1. now' \in 0..MaxTime
    BY <1>8 DEF TimePasses, TypeOK
  <2>2. due' \subseteq {"supply", "log", "bridge", "resetCtrl"}
    BY <1>8 DEF TimePasses
  <2>. QED  BY <1>8, <2>1, <2>2 DEF TimePasses, TypeOK, ChannelTypeOK, channelVars, supplyVars
<1>9. CASE UNCHANGED vars
  BY <1>9 DEF vars, TypeOK, ChannelTypeOK, channelVars, supplyVars
<1>. QED  BY <1>1, <1>2, <1>3, <1>4, <1>5, <1>6, <1>7, <1>8, <1>9 DEF Next

\* Every step keeps the order of wake-ups at an instant.
LEMMA ReadBeforeStep == TypeOK /\ ReadBefore /\ [Next]_vars => ReadBefore'
<1>. SUFFICES ASSUME TypeOK, ReadBefore, [Next]_vars PROVE ReadBefore'
  OBVIOUS
<1>. USE DEF ReadBefore
<1>1. now \in Nat /\ lastRead \in Nat
  BY SystemAssumption DEF TypeOK
<1>2. CASE Supply
  <2>1. vcap = 0 /\ vcc = 0 => vcc' = vcc
    BY <1>2, SupplyTypes DEF Supply
  <2>. QED  BY <1>2, <2>1 DEF Supply, Does
<1>3. CASE Bridge
  BY <1>1, <1>3 DEF Bridge, Does
<1>4. CASE TimePasses
  BY <1>1, <1>4 DEF TimePasses
<1>5. CASE Elaborate \/ Report \/ DriveKeepAlive \/ UNCHANGED vars
  BY <1>5 DEF Elaborate, Report, DriveKeepAlive, vars, supplyVars
<1>6. CASE Log \/ ResetCtrl
  BY <1>6 DEF Log, ResetCtrl, supplyVars
<1>. QED  BY <1>2, <1>3, <1>4, <1>5, <1>6 DEF Next

\* In every behaviour the channel's tables fit together, the voltages stay within the
\* harvester's limit and the current is a number (ps/PowerModelBridge.hpp:41).
THEOREM PowerTypeCorrect == Spec => []TypeOK
<1>1. Spec => [](TypeOK /\ ReadBefore)
  <2>1. Init => TypeOK /\ ReadBefore
    BY InitFacts
  <2>2. TypeOK /\ ReadBefore /\ [Next]_vars => (TypeOK /\ ReadBefore)'
    BY TypeStep, ReadBeforeStep
  <2>. QED  BY <2>1, <2>2, PTL DEF Spec
<1>. QED  BY <1>1, PTL

-----------------------------------------------------------------------------
(* The node starts with a charged capacitor *)

\* The detector's output is at most one step behind the capacitor, and the reset
\* controller has seen it, or is about to.
Followed ==
    /\ IF isOn THEN vcap <= vcc + MaxStepSize ELSE vcc = 0
    /\ "resetCtrl" \in due => "supply" \notin due \/ vcc = 0
    /\ "resetCtrl" \notin due => (nReset <=> vcc > VCore)
    /\ "resetCtrl" \in due /\ ~nReset /\ vcc > VCore => vcc > VOn \/ keepAlive

\* At the start nothing is charged and the node is off, whatever m_isOn is.
LEMMA FollowedInit == Init => Followed
<1>. SUFFICES ASSUME Init PROVE Followed
  OBVIOUS
<1>1. vcap = 0 /\ vcc = 0 /\ due = {"supply", "resetCtrl"} /\ nReset = FALSE
  BY DEF Init, SupplyInit
<1>2. VCore \in Nat /\ MaxStepSize \in Nat
  BY SupplyAssumption, SystemAssumption
<1>. QED  BY <1>1, <1>2 DEF Followed

\* Every step keeps it: that the controller's voltage lies MaxStepSize below the lower
\* threshold is what excludes a start between the two thresholds.
LEMMA FollowedStep == TypeOK /\ Followed /\ [Next]_vars => Followed'
<1>. SUFFICES ASSUME TypeOK, Followed, [Next]_vars PROVE Followed'
  OBVIOUS
<1>1. CASE Supply
  <2>1. /\ vcc' = IF isOn' THEN vcap ELSE 0
        /\ isOn' = (keepAlive \/ vcap > VOn \/ (vcap > VOff /\ isOn))
        /\ vcap' \in Int /\ vcap' <= vcap + MaxStepSize /\ UNCHANGED keepAlive
    BY <1>1, SupplyTypes DEF Supply
  <2>2. /\ vcap \in Nat /\ vcc \in Nat /\ isOn \in BOOLEAN
        /\ VCore \in Nat /\ MaxStepSize \in Nat /\ VOff \in Nat /\ VCore + MaxStepSize <= VOff
    BY SupplyAssumption, SystemAssumption DEF TypeOK
  <2>3. IF isOn' THEN vcap' <= vcc' + MaxStepSize ELSE vcc' = 0
    BY <2>1
  <2>4. UNCHANGED nReset /\ "supply" \in due /\ "supply" \notin due'
    BY <1>1 DEF Supply, Does
  <2>5. CASE vcc' = vcc
    <3>1. "resetCtrl" \in due' <=> "resetCtrl" \in due
      BY <1>1, <2>5 DEF Supply
    <3>2. "resetCtrl" \in due => vcc' = 0
      BY <2>4, <2>5 DEF Followed
    <3>. QED  BY <2>1, <2>2, <2>3, <2>4, <2>5, <3>1, <3>2 DEF Followed
  <2>6. CASE vcc' # vcc
    <3>1. "resetCtrl" \in due'
      BY <1>1, <2>6 DEF Supply
    <3>2. ASSUME ~nReset', vcc' > VCore, ~(vcc' > VOn), ~keepAlive'
          PROVE  FALSE
      <4>1. isOn' /\ vcc' = vcap
        BY <2>1, <2>2, <3>2
      <4>2. vcap > VOff /\ isOn
        BY <2>1, <3>2, <4>1
      <4>3. vcc > VCore
        BY <2>2, <4>2 DEF Followed
      <4>4. "resetCtrl" \notin due
        BY <2>2, <2>4, <4>3 DEF Followed
      <4>. QED  BY <2>4, <3>2, <4>3, <4>4 DEF Followed
    <3>. QED  BY <2>3, <2>4, <3>1, <3>2 DEF Followed
  <2>. QED  BY <2>5, <2>6
<1>2. CASE ResetCtrl
  BY <1>2 DEF ResetCtrl, Followed, supplyVars
<1>3. CASE DriveKeepAlive
  BY <1>3 DEF DriveKeepAlive, Followed
<1>4. CASE TimePasses
  BY <1>4 DEF TimePasses, Followed, supplyVars
<1>5. CASE Elaborate \/ Report \/ UNCHANGED vars
  BY <1>5 DEF Elaborate, Report, vars, supplyVars, Followed
<1>6. CASE Log \/ Bridge
  BY <1>6 DEF Log, Bridge, supplyVars, Followed
<1>. QED  BY <1>1, <1>2, <1>3, <1>4, <1>5, <1>6 DEF Next

\* In every behaviour the node starts only when the capacitor has reached the
\* detector's upper threshold, or the keep-alive pin is high
\* (ps/ExternalCircuitry.hpp:37, boards/Cm0SensorNode.hpp:41).
THEOREM NodeStartsCharged == Spec => StartsCharged
<1>. DEFINE Charged0 == ~nReset /\ nReset' => vcc > VOn \/ keepAlive
<1>1. Init => TypeOK /\ ReadBefore /\ Followed
  BY InitFacts, FollowedInit
<1>2. TypeOK /\ ReadBefore /\ Followed /\ [Next]_vars => (TypeOK /\ ReadBefore /\ Followed)'
  BY TypeStep, ReadBeforeStep, FollowedStep
<1>3. TypeOK /\ Followed /\ [Next]_vars => [Charged0]_vars
  <2>. SUFFICES ASSUME Followed, Next, ~nReset, nReset'
                PROVE  vcc > VOn \/ keepAlive
    OBVIOUS
  <2>1. CASE ResetCtrl
    BY <2>1 DEF ResetCtrl, Does, Followed
  <2>2. CASE Elaborate \/ Supply \/ Log \/ Bridge \/ Report \/ DriveKeepAlive \/ TimePasses
    BY <2>2 DEF Elaborate, Supply, Log, Bridge, Report, DriveKeepAlive, TimePasses
  <2>. QED  BY <2>1, <2>2 DEF Next
<1>. QED  BY <1>1, <1>2, <1>3, PTL DEF Spec, StartsCharged

-----------------------------------------------------------------------------
(* The channel implements the ledger *)

\* The row in use ends when the wait of logLoop() does.
RowEndsOnTime ==
    /\ ~running => logAt = LogStep
    /\ running => logAt = log[Len(log)].time
    /\ "log" \in due => now = logAt

\* Before the start logLoop() waits for the end of the first row.
LEMMA RowEndsInit == Init => RowEndsOnTime
BY DEF Init, ChannelInit, RowEndsOnTime

\* Every step keeps the last row's time: a report writes its counts only, and a new
\* row comes with a new wait.
LEMMA RowEndsStep == TypeOK /\ RowEndsOnTime /\ [Next]_vars => RowEndsOnTime'
<1>. SUFFICES ASSUME TypeOK, RowEndsOnTime, [Next]_vars PROVE RowEndsOnTime'
  OBVIOUS
<1>1. CASE Elaborate
  <2>1. UNCHANGED <<now, due, logAt>>
    BY <1>1 DEF Elaborate
  <2>2. CASE UNCHANGED running
    <3>1. ~running'
      BY <1>1, <2>2 DEF Elaborate, RegisterEvent, RegisterState, StartOfSimulation
    <3>. QED  BY <2>1, <2>2, <3>1 DEF RowEndsOnTime
  <2>3. CASE StartOfSimulation
    <3>1. log' = <<NewRow(LogStep)>> /\ ~running
      BY <2>3 DEF StartOfSimulation
    <3>2. log'[Len(log')].time = LogStep
      BY <3>1 DEF NewRow
    <3>3. logAt = LogStep
      BY <3>1 DEF RowEndsOnTime
    <3>4. running'
      BY <2>3 DEF StartOfSimulation
    <3>. QED  BY <2>1, <3>2, <3>3, <3>4 DEF RowEndsOnTime
  <2>. QED  BY <1>1, <2>2, <2>3 DEF Elaborate, RegisterEvent, RegisterState
<1>2. CASE Log
  <2>. DEFINE r == NewRow(LogStep + now)
  <2>. HIDE DEF r
  <2>1. now \in Nat /\ LogTurn(now) /\ ChannelTypeOK /\ logAt' = now + LogStep
    BY <1>2, SystemAssumption DEF Log, TypeOK
  <2>2. r \in Row /\ (log' = <<r>> \/ log' = Append(log, r))
    BY <2>1, LogTurnRows DEF r
  <2>3. log'[Len(log')] = r
    <3>1. <<r>>[Len(<<r>>)] = r
      OBVIOUS
    <3>2. Append(log, r)[Len(Append(log, r))] = r
      BY <2>1, <2>2, AppendLast DEF ChannelTypeOK
    <3>. QED  BY <2>2, <3>1, <3>2
  <2>4. r.time = now + LogStep
    BY <2>1, ChannelAssumption DEF r, NewRow
  <2>. QED  BY <1>2, <2>1, <2>3, <2>4 DEF Log, Does, LogTurn, RowEndsOnTime
<1>3. CASE Report
  <2>1. CASE \E e \in DOMAIN events, n \in 1..MaxCount : ReportEvent(e, n)
    <3>. PICK e \in DOMAIN events, n \in 1..MaxCount : ReportEvent(e, n)
      BY <2>1
    <3>1. log \in Seq(Row) /\ log # <<>> /\ DOMAIN events = 1..Len(events)
      BY LenProperties DEF ReportEvent, TypeOK, ChannelTypeOK
    <3>2. Len(log) \in 1..Len(log) /\ DOMAIN log = 1..Len(log)
      BY <3>1, EmptySeq, LenProperties
    <3>3. log[Len(log)] \in Row /\ e \in 1..Len(log[Len(log)].counts)
      BY <3>1, <3>2, ElementOfSeq DEF TypeOK, ChannelTypeOK
    <3>. DEFINE r == Bumped(log[Len(log)], e, n)
    <3>4. r \in Row /\ r.time = log[Len(log)].time
      <4>1. n \in Nat
        BY ChannelAssumption
      <4>. QED  BY <3>3, <4>1, BumpedType
    <3>5. log' = Bump(log, r)
      BY ReportEventBumps DEF TypeOK
    <3>. HIDE DEF r
    <3>6. log'[Len(log')] = r
      <4>1. /\ Len(Bump(log, r)) = Len(log)
            /\ \A i \in 1..Len(log) : Bump(log, r)[i] = IF i = Len(log) THEN r ELSE log[i]
        BY <3>1, <3>4, BumpSeq
      <4>. QED  BY <3>2, <3>5, <4>1
    <3>. QED  BY <1>3, <3>4, <3>6 DEF Report, ReportEvent, RowEndsOnTime
  <2>2. CASE \E s \in DOMAIN states : ReportState(s)
    BY <1>3, <2>2 DEF Report, ReportState, RowEndsOnTime
  <2>. QED  BY <1>3, <2>1, <2>2 DEF Report
<1>4. CASE TimePasses
  BY <1>4 DEF TimePasses, channelVars, RowEndsOnTime
<1>5. CASE Supply \/ ResetCtrl \/ DriveKeepAlive \/ UNCHANGED vars
  BY <1>5 DEF Supply, ResetCtrl, DriveKeepAlive, vars, channelVars, RowEndsOnTime
<1>6. CASE Bridge
  BY <1>6 DEF Bridge, PopDynamicEnergy, channelVars, RowEndsOnTime
<1>. QED  BY <1>1, <1>2, <1>3, <1>4, <1>5, <1>6 DEF Next

\* Nothing is registered and no row is open at the start.
LEMMA LedgerInitially == Init => Ledger!LedgerInit
<1>. SUFFICES ASSUME Init PROVE Ledger!LedgerInit
  OBVIOUS
<1>1. rates = <<>> /\ log = <<>> /\ file = <<>>
  BY DEF Init, ChannelInit
<1>2. file \o log = <<>>
  BY <1>1
<1>. QED  BY <1>1, <1>2 DEF Ledger!LedgerInit

\* The rows of the ledger are those in the file and those in memory.
LEMMA RowsOfLedger ==
    ASSUME ChannelTypeOK, running
    PROVE  /\ file \o log \in Seq(Row) /\ file \o log # <<>>
           /\ Len(file \o log) \in 1..Len(file \o log)
           /\ (file \o log)[Len(file \o log)] = log[Len(log)]
BY LastOfConcat DEF ChannelTypeOK

\* reportEvent() counts in the open row and is owed for once.
LEMMA CountStep ==
    ASSUME ChannelTypeOK, NEW e \in DOMAIN events, NEW n \in 1..MaxCount, ReportEvent(e, n)
    PROVE  Ledger!Count
<1>. DEFINE r == Bumped(log[Len(log)], e, n)
            R == file \o log
<1>1. /\ log \in Seq(Row) /\ log # <<>> /\ DOMAIN events = 1..Len(events) /\ file \in Seq(Row)
      /\ running /\ n \in Nat
  BY LenProperties, ChannelAssumption DEF ReportEvent, ChannelTypeOK
<1>2. Len(log) \in 1..Len(log) /\ DOMAIN log = 1..Len(log)
  BY <1>1, EmptySeq, LenProperties
<1>3. log[Len(log)] \in Row /\ e \in 1..Len(log[Len(log)].counts)
  BY <1>1, <1>2, ElementOfSeq DEF ChannelTypeOK
<1>4. r \in Row
  BY <1>1, <1>3, BumpedType
<1>5. log' = Bump(log, r) /\ file' = file
  BY ReportEventBumps DEF ReportEvent
<1>6. R # <<>> /\ R[Len(R)] = log[Len(log)]
  BY <1>1, RowsOfLedger
<1>7. file' \o log' = Bump(R, r)
  <2>. HIDE DEF r
  <2>1. file \o Bump(log, r) = Bump(file \o log, r)
    BY <1>1, <1>4, BumpConcat
  <2>. QED  BY <1>5, <2>1
<1>8. Bump(R, r) = [R EXCEPT ![Len(R)].counts[e] = @ + n]
  <2>. HIDE DEF R
  <2>. QED  BY <1>6 DEF Bump, Bumped
<1>9. rates' = [rates EXCEPT ![e] = @ + n] /\ e \in DOMAIN rates
  BY <1>1, LenProperties DEF ReportEvent, ChannelTypeOK
<1>10. (file \o log)' = [R EXCEPT ![Len(R)].counts[e] = @ + n]
  BY <1>7, <1>8
<1>. QED  BY <1>6, <1>9, <1>10 DEF Ledger!Count

\* logLoop() closes a row at its time, and a dump moves rows without changing them.
LEMMA NewRowStep ==
    ASSUME ChannelTypeOK, RowEndsOnTime, Log, now \in Nat
    PROVE  Ledger!NewRow
<1>. DEFINE r == NewRow(LogStep + now)
            R == file \o log
<1>1. /\ running /\ "log" \in due /\ LogTurn(now) /\ UNCHANGED rates
      /\ log \in Seq(Row) /\ file \in Seq(Row)
  BY DEF Log, Does, LogTurn, ChannelTypeOK
<1>2. /\ R \in Seq(Row) /\ R # <<>> /\ R[Len(R)] = log[Len(log)]
  BY <1>1, RowsOfLedger
<1>3. R[Len(R)].time = now
  BY <1>1, <1>2 DEF RowEndsOnTime
<1>4. r = Ledger!EmptyRow(Len(rates), R[Len(R)].time + LogStep)
  <2>1. Len(rates) = Len(events) /\ LogStep + now = now + LogStep
    BY ChannelAssumption DEF ChannelTypeOK
  <2>. HIDE DEF R
  <2>. QED  BY <1>3, <2>1 DEF NewRow, Ledger!EmptyRow
<1>. HIDE DEF r
<1>5. /\ r \in Row
      /\ \/ file' = R /\ log' = <<r>>
         \/ file' = file /\ log' = Append(log, r)
  BY <1>1, LogTurnRows DEF r
<1>6. file' \o log' = Append(R, r)
  <2>1. CASE file' = R /\ log' = <<r>>
    <3>. HIDE DEF R
    <3>1. Append(R, r) = R \o <<r>>
      BY <1>2, <1>5, AppendIsConcat
    <3>. QED  BY <2>1, <3>1
  <2>2. CASE file' = file /\ log' = Append(log, r)
    <3>1. file \o Append(log, r) = Append(file \o log, r)
      BY <1>1, <1>5, ConcatAppend
    <3>. QED  BY <2>2, <3>1
  <2>. QED  BY <1>5, <2>1, <2>2
<1>. QED  BY <1>1, <1>2, <1>4, <1>6 DEF Ledger!NewRow

\* start_of_simulation() opens the ledger.
LEMMA BeginStep ==
    ASSUME ChannelTypeOK, StartOfSimulation
    PROVE  Ledger!Begin
<1>1. log = <<>> /\ file = <<>> /\ Len(rates) = Len(events)
  BY DEF StartOfSimulation, ChannelTypeOK
<1>2. log' = <<NewRow(LogStep)>> /\ file' = <<>> /\ UNCHANGED rates
  BY <1>1 DEF StartOfSimulation
<1>3. NewRow(LogStep) = Ledger!EmptyRow(Len(rates), LogStep)
  BY <1>1 DEF NewRow, Ledger!EmptyRow
<1>. DEFINE r == NewRow(LogStep)
<1>. HIDE DEF r
<1>4. file \o log = <<>> /\ file' \o log' = <<r>>
  BY <1>1, <1>2 DEF r
<1>. QED  BY <1>2, <1>3, <1>4 DEF Ledger!Begin, r

\* Every step of the power loop is a step of the ledger or none.
LEMMA LedgerStep ==
    TypeOK /\ RowEndsOnTime /\ [Next]_vars
        => [Ledger!LedgerNext]_<<rates, file \o log>>
<1>. SUFFICES ASSUME TypeOK, RowEndsOnTime, Next
              PROVE  Ledger!LedgerNext \/ UNCHANGED <<rates, file \o log>>
  BY DEF vars, channelVars
<1>. USE DEF Ledger!LedgerNext
<1>1. CASE Elaborate
  <2>1. CASE \E event \in EventNames : RegisterEvent(event)
    <3>1. rates' = Append(rates, 0) /\ log = <<>> /\ file = <<>> /\ UNCHANGED <<log, file>>
      BY <2>1 DEF RegisterEvent, TypeOK, ChannelTypeOK
    <3>2. file \o log = <<>> /\ (file \o log)' = file \o log
      BY <3>1
    <3>. QED  BY <3>1, <3>2 DEF Ledger!Register
  <2>2. CASE \E state \in StateNames : RegisterState(state)
    BY <2>2 DEF RegisterState
  <2>3. CASE StartOfSimulation
    BY <2>3, BeginStep DEF TypeOK
  <2>. QED  BY <1>1, <2>1, <2>2, <2>3 DEF Elaborate
<1>2. CASE Log
  <2>1. now \in Nat
    BY SystemAssumption DEF TypeOK
  <2>. QED  BY <1>2, <2>1, NewRowStep DEF TypeOK
<1>3. CASE Bridge
  <2>1. CASE vcc = 0
    BY <1>3, <2>1 DEF Bridge, channelVars
  <2>2. CASE PopDynamicEnergy
    <3>1. rates' = [e \in DOMAIN rates |-> IF e \in DOMAIN rates THEN 0 ELSE rates[e]]
      BY <2>2 DEF PopDynamicEnergy
    <3>2. Ledger!Charge
      BY <2>2, <3>1 DEF PopDynamicEnergy, Ledger!Charge
    <3>. QED  BY <3>2
  <2>. QED  BY <1>3, <2>1, <2>2 DEF Bridge
<1>4. CASE Report
  <2>1. CASE \E e \in DOMAIN events, n \in 1..MaxCount : ReportEvent(e, n)
    BY <2>1, CountStep DEF TypeOK
  <2>2. CASE \E s \in DOMAIN states : ReportState(s)
    BY <2>2 DEF ReportState
  <2>. QED  BY <1>4, <2>1, <2>2 DEF Report
<1>5. CASE Supply \/ ResetCtrl \/ DriveKeepAlive \/ TimePasses
  BY <1>5 DEF Supply, ResetCtrl, DriveKeepAlive, TimePasses, channelVars
<1>. QED  BY <1>1, <1>2, <1>3, <1>4, <1>5 DEF Next

\* The power model implements the ledger of events, for every set of modules and events,
\* every log interval and every dump threshold (ps/PowerModelChannel.cpp:138 to 239).
THEOREM ChannelImplementsLedger == Spec => ImplementsLedger
<1>1. Init => TypeOK /\ ReadBefore /\ RowEndsOnTime
  BY InitFacts, RowEndsInit
<1>2. TypeOK /\ ReadBefore /\ RowEndsOnTime /\ [Next]_vars
          => (TypeOK /\ ReadBefore /\ RowEndsOnTime)'
  BY TypeStep, ReadBeforeStep, RowEndsStep
<1>3. Init => Ledger!LedgerInit
  BY LedgerInitially
<1>4. TypeOK /\ RowEndsOnTime /\ [Next]_vars => [Ledger!LedgerNext]_<<rates, file \o log>>
  BY LedgerStep
<1>. QED  BY <1>1, <1>2, <1>3, <1>4, PTL DEF Spec, ImplementsLedger, Ledger!LedgerSpec
=============================================================================
