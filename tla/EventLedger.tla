----------------------------- MODULE EventLedger -----------------------------
(***************************************************************************)
(* What the power model promises of the events the modules report, free of *)
(* registers, files and thresholds: an event is charged for at most once,  *)
(* and counts in the row of the log that is open when it is reported; rows *)
(* follow one another at the time step and are never touched again.        *)
(***************************************************************************)
EXTENDS Integers, Sequences

CONSTANTS
    LogStep,    \* the time between two rows
    MaxCount    \* bound: the largest n of one report

VARIABLES
    owed,   \* for each event, how often it was reported and not charged for
    rows    \* the log: for each row, the counts and the time it ends

\* A new row for so many events.
EmptyRow(n, time) == [counts |-> [e \in 1..n |-> 0], time |-> time]

LedgerInit == owed = <<>> /\ rows = <<>>

Register == rows = <<>> /\ owed' = Append(owed, 0) /\ UNCHANGED rows

Begin ==
    /\ rows = <<>>
    /\ rows' = <<EmptyRow(Len(owed), LogStep)>>
    /\ UNCHANGED owed

Count ==
    /\ rows # <<>>
    /\ \E e \in DOMAIN owed, n \in 1..MaxCount :
           /\ owed' = [owed EXCEPT ![e] = @ + n]
           /\ rows' = [rows EXCEPT ![Len(rows)].counts[e] = @ + n]

NewRow ==
    /\ rows # <<>>
    /\ rows' = Append(rows, EmptyRow(Len(owed), rows[Len(rows)].time + LogStep))
    /\ UNCHANGED owed

Charge ==
    /\ \E E \in SUBSET DOMAIN owed :
           owed' = [e \in DOMAIN owed |-> IF e \in E THEN 0 ELSE owed[e]]
    /\ UNCHANGED rows

LedgerNext == Register \/ Begin \/ Count \/ NewRow \/ Charge

LedgerSpec == LedgerInit /\ [][LedgerNext]_<<owed, rows>>
=============================================================================
