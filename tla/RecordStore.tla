----------------------------- MODULE RecordStore -----------------------------
(***************************************************************************)
(* The Kubernetes backend of the state store.  A record is one object, but  *)
(* a write of it is two calls, each with its own compare-and-swap on the    *)
(* object's resourceVersion: the main endpoint takes spec and metadata, the *)
(* status endpoint takes status, and a call that changes nothing leaves the *)
(* version alone.  Mutate reads, lets its function change the record, writes *)
(* and starts over on a conflict; AppendRun is a loop of its own on status. *)
(*                                                                         *)
(* Each writer changes one side of the record (an appended input is spec,   *)
(* a phase or a dispatched run is status), so a side is the sequence of the *)
(* changes it carries.  Any caller may stop between two calls.            *)
(***************************************************************************)
EXTENDS Naturals, Sequences, FiniteSets

CONSTANTS
  Writers,         \* callers of Mutate
  Runs,            \* callers of AppendRun, by the run they append
  SpecWriters,     \* the writers whose change is on the spec side
  MutateAttempts,  \* Mutate's bound (10 in the code)
  StatusAttempts   \* the status write's and AppendRun's bound (20)

ASSUME SpecWritersAreWriters == SpecWriters \subseteq Writers
ASSUME AttemptsArePositive == {MutateAttempts, StatusAttempts} \subseteq Nat \ {0}

VARIABLES
  rv,      \* the object's resourceVersion
  spec,    \* its spec side
  status,  \* its status side without the runs
  runs,    \* status.runs
  ws,      \* the writers
  rs       \* the run appenders

object == <<rv, spec, status, runs>>
vars == <<object, ws, rs>>

Sides == Seq(Writers)
Writer == [pc: {"get", "check", "main", "status", "reread", "ok", "failed"},
           rev: Nat,       \* the revision Mutate read
           spec: Sides, status: Sides,   \* the record Mutate wants written
           base: Sides,    \* the status the main write left
           at: Nat,        \* the version the next call carries
           tries: 0..MutateAttempts, again: 0..StatusAttempts]
Appender == [pc: {"get", "put", "ok", "failed"}, at: Nat, runs: Seq(Runs), tries: 0..StatusAttempts]

Init ==
  /\ rv = 0 /\ spec = <<>> /\ status = <<>> /\ runs = <<>>
  /\ ws = [w \in Writers |-> [pc |-> "get", rev |-> 0, spec |-> <<>>, status |-> <<>>,
                              base |-> <<>>, at |-> 0, tries |-> 0, again |-> 0]]
  /\ rs = [r \in Runs |-> [pc |-> "get", at |-> 0, runs |-> <<>>, tries |-> 0]]

-----------------------------------------------------------------------------
(* Mutate and Update. *)

\* ErrConflict: Mutate starts over, a bounded number of times.
Conflict(w) ==
  ws' = [ws EXCEPT ![w].pc = IF ws[w].tries + 1 < MutateAttempts THEN "get" ELSE "failed",
                   ![w].tries = @ + 1]

\* The function changes the record it is handed.
MutateGet(w) ==
  /\ ws[w].pc = "get"
  /\ ws' = [ws EXCEPT ![w].pc = "check", ![w].rev = rv, ![w].again = 0,
                      ![w].spec = IF w \in SpecWriters THEN Append(spec, w) ELSE spec,
                      ![w].status = IF w \in SpecWriters THEN status ELSE Append(status, w)]
  /\ UNCHANGED <<object, rs>>

UpdateCheck(w) ==
  /\ ws[w].pc = "check"
  /\ IF rv # ws[w].rev THEN Conflict(w)
     ELSE ws' = [ws EXCEPT ![w].pc = "main", ![w].at = rv]
  /\ UNCHANGED <<object, rs>>

UpdateMain(w) ==
  /\ ws[w].pc = "main"
  /\ IF rv # ws[w].at THEN Conflict(w) /\ UNCHANGED object
     ELSE /\ spec' = ws[w].spec
          /\ rv' = IF spec' = spec THEN rv ELSE rv + 1
          /\ ws' = [ws EXCEPT ![w].pc = "status", ![w].at = rv', ![w].base = status]
          /\ UNCHANGED <<status, runs>>
  /\ UNCHANGED rs

UpdateStatus(w) ==
  /\ ws[w].pc = "status"
  /\ IF rv # ws[w].at
     THEN /\ ws' = [ws EXCEPT ![w].pc = "reread"]
          /\ UNCHANGED object
     ELSE /\ status' = ws[w].status
          /\ rv' = IF status' = status THEN rv ELSE rv + 1
          /\ ws' = [ws EXCEPT ![w].pc = "ok"]
          /\ UNCHANGED <<spec, runs>>
  /\ UNCHANGED rs

StatusAgain(w) ==
  ws' = [ws EXCEPT ![w].pc = IF ws[w].again + 1 < StatusAttempts THEN "status" ELSE "failed",
                   ![w].again = @ + 1, ![w].at = rv]

\* Mutant: a status changed by somebody else is written over.
UpdateRereadBlind(w) == ws[w].pc = "reread" /\ StatusAgain(w) /\ UNCHANGED <<object, rs>>
\* Only run appends may have changed the status underneath.
UpdateReread(w) ==
  /\ ws[w].pc = "reread"
  /\ IF status # ws[w].base THEN Conflict(w) ELSE StatusAgain(w)
  /\ UNCHANGED <<object, rs>>

-----------------------------------------------------------------------------
(* AppendRun. *)

RunGet(r) ==
  /\ rs[r].pc = "get"
  /\ rs' = [rs EXCEPT ![r].pc = "put", ![r].at = rv, ![r].runs = Append(runs, r)]
  /\ UNCHANGED <<object, ws>>

\* Mutant: the append is not conditional on the version read.
RunPutAnyway(r) ==
  /\ rs[r].pc = "put"
  /\ runs' = rs[r].runs /\ rv' = rv + 1
  /\ rs' = [rs EXCEPT ![r].pc = "ok"]
  /\ UNCHANGED <<spec, status, ws>>
RunPut(r) ==
  /\ rs[r].pc = "put"
  /\ IF rv # rs[r].at
     THEN /\ rs' = [rs EXCEPT ![r].pc = IF rs[r].tries + 1 < StatusAttempts THEN "get" ELSE "failed",
                              ![r].tries = @ + 1]
          /\ UNCHANGED object
     ELSE /\ runs' = rs[r].runs /\ rv' = rv + 1
          /\ rs' = [rs EXCEPT ![r].pc = "ok"]
          /\ UNCHANGED <<spec, status>>
  /\ UNCHANGED ws

-----------------------------------------------------------------------------

Writes(w) == \/ MutateGet(w) \/ UpdateCheck(w) \/ UpdateMain(w) \/ UpdateStatus(w)
             \/ UpdateReread(w)
Appends(r) == RunGet(r) \/ RunPut(r)

Next == (\E w \in Writers : Writes(w)) \/ (\E r \in Runs : Appends(r))

Spec == Init /\ [][Next]_vars

-----------------------------------------------------------------------------
(* Properties. *)

TypeOK ==
  /\ rv \in Nat /\ spec \in Sides /\ status \in Sides /\ runs \in Seq(Runs)
  /\ ws \in [Writers -> Writer] /\ rs \in [Runs -> Appender]

Occurrences(s, e) == {k \in DOMAIN s : s[k] = e}
Elems(s) == {s[k] : k \in DOMAIN s}

\* No lost update: what a writer was told landed is in the record, and stays
\* there whoever writes after it (Update, updateStatusRetrying).
WrittenIsKept ==
  \A w \in Writers : ws[w].pc = "ok" => w \in Elems(IF w \in SpecWriters THEN spec ELSE status)

\* A run whose append returned is in the history, whatever Update writes
\* around it (AppendRun, applyStatus).
AppendedIsKept == \A r \in Runs : rs[r].pc = "ok" => r \in Elems(runs)

\* To the writers of the status side the two calls are one atomic compare-and-
\* swap on that side, whatever spec writers and run appends do around it: a
\* write lands whole, on the record it was computed from, or not at all
\* (Update, updateStatusRetrying; the promise is Store's).
StatusWriters == Writers \ SpecWriters
Before(s) == IF s = <<>> THEN <<>> ELSE SubSeq(s, 1, Len(s) - 1)
Atomic == INSTANCE AtomicRecord WITH
  Writers <- StatusWriters,
  record <- status,
  history <- runs,
  seen <- [w \in StatusWriters |-> Before(ws[w].status)],
  written <- {w \in StatusWriters : ws[w].pc = "ok"},
  appended <- {r \in Runs : rs[r].pc = "ok"}
ImplementsAtomicRecord == Atomic!Spec

\* A write that conflicts changes nothing, so a retry does not apply it again:
\* no change is in the record twice (Update, Mutate).
ConflictWritesNothing ==
  \A w \in Writers : Cardinality(Occurrences(spec, w)) <= 1 /\ Cardinality(Occurrences(status, w)) <= 1

=============================================================================
