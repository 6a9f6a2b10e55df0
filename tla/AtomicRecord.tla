---------------------------- MODULE AtomicRecord ----------------------------
(***************************************************************************)
(* What the state store promises its callers: one record, written whole by *)
(* compare-and-swap, and a run history that only grows and never conflicts. *)
(* The record is the sequence of changes it carries, oldest first.         *)
(***************************************************************************)
EXTENDS Sequences

CONSTANTS Writers, Runs

VARIABLES
  record,   \* the changes the record carries
  history,  \* the runs appended
  seen,     \* the record each writer computed its write from
  written,  \* writers told that their write landed
  appended  \* runs whose append returned

avars == <<record, history, seen, written, appended>>

Init ==
  /\ record = <<>> /\ history = <<>>
  /\ seen = [w \in Writers |-> <<>>]
  /\ written = {} /\ appended = {}

Get(w) ==
  /\ w \notin written
  /\ seen' = [seen EXCEPT ![w] = record]
  /\ UNCHANGED <<record, history, written, appended>>

\* A write lands whole, and only on the record it was computed from; its writer
\* hears of it then, later (Confirm), or never.
Update(w) ==
  /\ w \notin written /\ seen[w] = record
  /\ \A k \in DOMAIN record : record[k] # w
  /\ record' = Append(record, w)
  /\ written' \in {written, written \cup {w}}
  /\ UNCHANGED <<history, seen, appended>>

Confirm(w) ==
  /\ \E k \in DOMAIN record : record[k] = w
  /\ written' = written \cup {w}
  /\ UNCHANGED <<record, history, seen, appended>>

AppendRun(r) ==
  /\ r \notin appended
  /\ \A k \in DOMAIN history : history[k] # r
  /\ history' = Append(history, r)
  /\ appended' = appended \cup {r}
  /\ UNCHANGED <<record, seen, written>>

Next == \/ \E w \in Writers : Get(w) \/ Update(w) \/ Confirm(w)
        \/ \E r \in Runs : AppendRun(r)

Spec == Init /\ [][Next]_avars
=============================================================================
