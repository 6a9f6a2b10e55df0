------------------------ MODULE RecordStore_proofs ------------------------
(***************************************************************************)
(* No update of the record is lost, for any number of writers, appenders   *)
(* and attempts.  The argument is about versions: every change of the      *)
(* object moves resourceVersion, so a call that still carries the current   *)
(* version carries what its writer read, with the writer's change added.   *)
(***************************************************************************)
EXTENDS RecordStore, TLAPS

With(s, w, mine) == IF mine THEN Append(s, w) ELSE s
SpecWith(s, w) == With(s, w, w \in SpecWriters)
StatusWith(s, w) == With(s, w, w \notin SpecWriters)

\* A writer that has not stopped has attempts left and knows no version of the
\* future.
Running(w) ==
  /\ ws[w].rev <= rv /\ ws[w].at <= rv
  /\ ws[w].pc \notin {"ok", "failed"} => ws[w].tries < MutateAttempts
  /\ ws[w].pc \in {"check", "main", "status", "reread"} => ws[w].again < StatusAttempts

\* What the next call of a writer would put in place.
Carries(w) ==
  /\ ws[w].pc \in {"check", "main"} /\ ws[w].rev = rv =>
       ws[w].spec = SpecWith(spec, w) /\ ws[w].status = StatusWith(status, w)
  /\ ws[w].pc = "main" => ws[w].at = ws[w].rev
  /\ ws[w].pc \in {"status", "reread"} => ws[w].status = StatusWith(ws[w].base, w)
  /\ ws[w].pc = "status" /\ ws[w].at = rv => status = ws[w].base

\* What a writer has put in place is there.
Landed(w) ==
  /\ w \in SpecWriters /\ ws[w].pc \in {"status", "reread", "ok"} => w \in Elems(spec)
  /\ w \notin SpecWriters /\ ws[w].pc = "ok" => w \in Elems(status)

WriterInv(w) == Running(w) /\ Carries(w) /\ Landed(w)

AppenderInv(r) ==
  /\ rs[r].at <= rv
  /\ rs[r].pc \in {"get", "put"} => rs[r].tries < StatusAttempts
  /\ rs[r].pc = "put" /\ rs[r].at = rv => rs[r].runs = Append(runs, r)
  /\ rs[r].pc = "ok" => r \in Elems(runs)

IInv == TypeOK /\ (\A w \in Writers : WriterInv(w)) /\ (\A r \in Runs : AppenderInv(r))

-----------------------------------------------------------------------------

\* Appending to a sequence adds one element to those it holds.
LEMMA AppendElems ==
  ASSUME NEW S, NEW s \in Seq(S), NEW e \in S
  PROVE  /\ Append(s, e) \in Seq(S)
         /\ Elems(Append(s, e)) = Elems(s) \cup {e}
         /\ Append(s, e) # s
<1>1. /\ Append(s, e) \in Seq(S) /\ DOMAIN Append(s, e) = 1..(Len(s) + 1)
      /\ DOMAIN s = 1..Len(s) /\ Len(s) \in Nat
      /\ \A k \in 1..Len(s) : Append(s, e)[k] = s[k]
      /\ Append(s, e)[Len(s) + 1] = e
      /\ Len(Append(s, e)) = Len(s) + 1
  OBVIOUS
<1>2. Elems(Append(s, e)) \subseteq Elems(s) \cup {e}
  BY <1>1 DEF Elems
<1>3. Elems(s) \cup {e} \subseteq Elems(Append(s, e))
  BY <1>1 DEF Elems
<1>4. Append(s, e) # s
  <2> SUFFICES ASSUME Append(s, e) = s PROVE FALSE
    OBVIOUS
  <2>1. Len(s) = Len(s) + 1
    BY <1>1
  <2> QED BY <1>1, <2>1
<1> QED BY <1>1, <1>2, <1>3, <1>4

\* A writer's change is added to its side and takes nothing away from either.
LEMMA WithAdds ==
  ASSUME NEW s \in Sides, NEW w \in Writers
  PROVE  /\ SpecWith(s, w) \in Sides /\ StatusWith(s, w) \in Sides
         /\ Elems(s) \subseteq Elems(SpecWith(s, w)) /\ Elems(s) \subseteq Elems(StatusWith(s, w))
         /\ w \in SpecWriters => w \in Elems(SpecWith(s, w)) /\ SpecWith(s, w) # s /\ StatusWith(s, w) = s
         /\ w \notin SpecWriters => w \in Elems(StatusWith(s, w)) /\ StatusWith(s, w) # s /\ SpecWith(s, w) = s
<1>1. /\ Append(s, w) \in Sides /\ Append(s, w) # s
      /\ Elems(Append(s, w)) = Elems(s) \cup {w}
  BY AppendElems DEF Sides
<1>2. CASE w \in SpecWriters
  BY <1>1, <1>2 DEF SpecWith, StatusWith, With
<1>3. CASE w \notin SpecWriters
  BY <1>1, <1>3 DEF SpecWith, StatusWith, With
<1> QED BY <1>2, <1>3

LEMMA InitIInv == Init => IInv
<1> SUFFICES ASSUME Init PROVE IInv
  OBVIOUS
<1> USE SpecWritersAreWriters, AttemptsArePositive
<1>1. TypeOK
  BY DEF Init, TypeOK, Sides, Writer, Appender
<1>2. ASSUME NEW w \in Writers PROVE WriterInv(w)
  BY DEF Init, WriterInv, Running, Carries, Landed
<1>3. ASSUME NEW r \in Runs PROVE AppenderInv(r)
  BY DEF Init, AppenderInv
<1> QED BY <1>1, <1>2, <1>3 DEF IInv

-----------------------------------------------------------------------------
(* What a step of somebody else leaves true. *)

\* The object only grows, and at the same version it is the same object.
Grows ==
  /\ rv' \in Nat /\ rv <= rv'
  /\ rv' = rv => spec' = spec /\ status' = status /\ runs' = runs
  /\ Elems(spec) \subseteq Elems(spec')
  /\ Elems(status) \subseteq Elems(status')
  /\ Elems(runs) \subseteq Elems(runs')

\* A writer that does not move keeps its invariant.
LEMMA WriterStays ==
  ASSUME TypeOK, NEW w \in Writers, WriterInv(w), Grows, ws'[w] = ws[w]
  PROVE  WriterInv(w)'
<1>1. ws[w].rev \in Nat /\ ws[w].at \in Nat /\ rv \in Nat /\ rv' \in Nat
  BY DEF TypeOK, Writer, Grows
<1>2. Running(w)'
  BY <1>1 DEF WriterInv, Running, Grows
<1>3. Carries(w)'
  BY <1>1 DEF WriterInv, Running, Carries, Grows, SpecWith, StatusWith
<1>4. Landed(w)'
  BY DEF WriterInv, Landed, Grows
<1> QED BY <1>2, <1>3, <1>4 DEF WriterInv

\* So does an appender.
LEMMA AppenderStays ==
  ASSUME TypeOK, NEW r \in Runs, AppenderInv(r), Grows, rs'[r] = rs[r]
  PROVE  AppenderInv(r)'
<1>1. rs[r].at \in Nat /\ rv \in Nat /\ rv' \in Nat
  BY DEF TypeOK, Appender, Grows
<1> QED BY <1>1 DEF AppenderInv, Grows

-----------------------------------------------------------------------------
(* The steps of a writer. *)

\* What every step of a writer must show: the object grows, the writer's own
\* invariant, and that nobody else moved.
LEMMA WriterSteps ==
  ASSUME IInv, NEW w \in Writers, Grows, TypeOK', WriterInv(w)',
         \A v \in Writers \ {w} : ws'[v] = ws[v], rs' = rs
  PROVE  IInv'
<1>1. ASSUME NEW v \in Writers PROVE WriterInv(v)'
  <2>1. CASE v = w
    BY <2>1
  <2>2. CASE v # w
    BY <2>2, WriterStays DEF IInv
  <2> QED BY <2>1, <2>2
<1>2. ASSUME NEW r \in Runs PROVE AppenderInv(r)'
  BY AppenderStays DEF IInv
<1> QED BY <1>1, <1>2 DEF IInv

\* A step that leaves the object alone lets it grow.
LEMMA UnchangedGrows == ASSUME TypeOK, UNCHANGED object PROVE Grows
BY DEF TypeOK, Grows, object

LEMMA MutateGetKeeps == ASSUME IInv, NEW w \in Writers, MutateGet(w) PROVE IInv'
<1> USE SpecWritersAreWriters, AttemptsArePositive
<1> DEFINE sp == SpecWith(spec, w)
           st == StatusWith(status, w)
<1>1. /\ ws \in [Writers -> Writer] /\ ws[w] \in Writer /\ 0 \in 0..StatusAttempts
      /\ rv \in Nat /\ sp \in Sides /\ st \in Sides
  <2>1. spec \in Sides /\ status \in Sides /\ rv \in Nat /\ ws \in [Writers -> Writer]
    BY DEF IInv, TypeOK
  <2>2. sp \in Sides /\ st \in Sides
    BY <2>1, WithAdds
  <2>3. 0 \in 0..StatusAttempts
    OBVIOUS
  <2> QED BY <2>1, <2>2, <2>3
<1>2. ws' = [ws EXCEPT ![w].pc = "check", ![w].rev = rv, ![w].again = 0,
                       ![w].spec = sp, ![w].status = st]
  BY DEF MutateGet, SpecWith, StatusWith, With
<1> HIDE DEF sp, st
<1>3. ws' \in [Writers -> Writer]
  BY ZenonT(60), <1>1, <1>2 DEF Writer
<1>4. /\ ws'[w].pc = "check" /\ ws'[w].rev = rv /\ ws'[w].spec = sp /\ ws'[w].status = st
      /\ ws'[w].at = ws[w].at /\ ws'[w].tries = ws[w].tries /\ ws'[w].again = 0
      /\ \A v \in Writers \ {w} : ws'[v] = ws[v]
  BY ZenonT(60), <1>1, <1>2 DEF Writer
<1>5. UNCHANGED <<object, rs>> /\ ws[w].pc = "get"
  BY DEF MutateGet
<1>6. TypeOK' /\ Grows
  BY <1>3, <1>5, UnchangedGrows DEF IInv, TypeOK, object
<1>7. WriterInv(w)'
  BY <1>1, <1>4, <1>5 DEF IInv, WriterInv, Running, Carries, Landed, object, sp, st, SpecWith, StatusWith
<1> QED BY <1>4, <1>5, <1>6, <1>7, WriterSteps

\* A conflict sends a writer back to its read, or ends it.
LEMMA ConflictKeeps ==
  ASSUME IInv, NEW w \in Writers, Conflict(w), UNCHANGED <<object, rs>>,
         ws[w].pc \in {"check", "main", "reread"}
  PROVE  IInv'
<1> USE SpecWritersAreWriters, AttemptsArePositive
<1> DEFINE pc == IF ws[w].tries + 1 < MutateAttempts THEN "get" ELSE "failed"
<1>1. /\ ws \in [Writers -> Writer] /\ ws[w] \in Writer /\ rv \in Nat
      /\ ws[w].tries + 1 \in 0..MutateAttempts
  BY DEF IInv, TypeOK, Writer, WriterInv, Running
<1>2. ws' = [ws EXCEPT ![w].pc = pc, ![w].tries = ws[w].tries + 1]
  BY DEF Conflict
<1>3. pc \in {"get", "failed"} /\ (pc = "get" => ws[w].tries + 1 < MutateAttempts)
  OBVIOUS
<1> HIDE DEF pc
<1>4. ws' \in [Writers -> Writer]
  BY ZenonT(60), <1>1, <1>2, <1>3 DEF Writer
<1>5. /\ ws'[w].pc = pc /\ ws'[w].rev = ws[w].rev /\ ws'[w].at = ws[w].at
      /\ ws'[w].tries = ws[w].tries + 1
      /\ \A v \in Writers \ {w} : ws'[v] = ws[v]
  BY ZenonT(60), <1>1, <1>2 DEF Writer
<1>6. TypeOK' /\ Grows
  BY <1>4, UnchangedGrows DEF IInv, TypeOK, object
<1>7. WriterInv(w)'
  BY <1>1, <1>3, <1>5 DEF IInv, WriterInv, Running, Carries, Landed, object
<1> QED BY <1>5, <1>6, <1>7, WriterSteps

LEMMA UpdateCheckKeeps == ASSUME IInv, NEW w \in Writers, UpdateCheck(w) PROVE IInv'
<1>1. CASE rv # ws[w].rev
  BY <1>1, ConflictKeeps DEF UpdateCheck
<1>2. CASE rv = ws[w].rev
  <2>1. /\ ws \in [Writers -> Writer] /\ ws[w] \in Writer /\ rv \in Nat
    BY DEF IInv, TypeOK
  <2>2. /\ ws' = [ws EXCEPT ![w].pc = "main", ![w].at = rv]
        /\ UNCHANGED <<object, rs>> /\ ws[w].pc = "check"
    BY <1>2 DEF UpdateCheck
  <2>3. ws' \in [Writers -> Writer]
    BY ZenonT(60), <2>1, <2>2 DEF Writer
  <2>4. /\ ws'[w].pc = "main" /\ ws'[w].rev = ws[w].rev /\ ws'[w].at = rv
        /\ ws'[w].spec = ws[w].spec /\ ws'[w].status = ws[w].status
        /\ ws'[w].tries = ws[w].tries /\ ws'[w].again = ws[w].again
        /\ \A v \in Writers \ {w} : ws'[v] = ws[v]
    BY ZenonT(60), <2>1, <2>2 DEF Writer
  <2>5. TypeOK' /\ Grows
    BY <2>2, <2>3, UnchangedGrows DEF IInv, TypeOK, object
  <2>6. WriterInv(w)'
    BY <1>2, <2>1, <2>2, <2>4 DEF IInv, WriterInv, Running, Carries, Landed, object
  <2> QED BY <2>2, <2>4, <2>5, <2>6, WriterSteps
<1> QED BY <1>1, <1>2

\* The main write: at the version read, it adds the writer's change to spec.
LEMMA UpdateMainKeeps == ASSUME IInv, NEW w \in Writers, UpdateMain(w) PROVE IInv'
<1>1. CASE rv # ws[w].at
  BY <1>1, ConflictKeeps DEF UpdateMain
<1>2. CASE rv = ws[w].at
  <2>1. /\ ws \in [Writers -> Writer] /\ ws[w] \in Writer
        /\ rv \in Nat /\ spec \in Sides /\ status \in Sides
    BY DEF IInv, TypeOK
  <2>2. /\ ws[w].pc = "main" /\ spec' = ws[w].spec /\ UNCHANGED <<status, runs, rs>>
        /\ rv' = IF spec' = spec THEN rv ELSE rv + 1
        /\ ws' = [ws EXCEPT ![w].pc = "status", ![w].at = rv', ![w].base = status]
    BY <1>2 DEF UpdateMain
  <2>3. ws[w].spec = SpecWith(spec, w) /\ ws[w].status = StatusWith(status, w)
    BY <1>2, <2>2 DEF IInv, WriterInv, Carries
  <2>4. spec' = SpecWith(spec, w) /\ rv' \in Nat /\ spec' \in Sides
    BY <2>1, <2>2, <2>3, WithAdds
  <2>5. ws' \in [Writers -> Writer]
    BY ZenonT(60), <2>1, <2>2, <2>4 DEF Writer
  <2>6. /\ ws'[w].pc = "status" /\ ws'[w].rev = ws[w].rev /\ ws'[w].at = rv'
        /\ ws'[w].base = status /\ ws'[w].status = ws[w].status
        /\ ws'[w].tries = ws[w].tries /\ ws'[w].again = ws[w].again
        /\ \A v \in Writers \ {w} : ws'[v] = ws[v]
    BY ZenonT(60), <2>1, <2>2 DEF Writer
  <2>7. TypeOK'
    BY <2>2, <2>4, <2>5 DEF IInv, TypeOK
  <2>8. Grows
    BY <2>1, <2>2, <2>4, WithAdds DEF Grows
  <2>9. WriterInv(w)'
    <3>1. Running(w)'
      BY <2>1, <2>2, <2>6, <2>8 DEF IInv, WriterInv, Running, Grows, Writer
    <3>2. Carries(w)'
      BY <2>2, <2>3, <2>6 DEF Carries, StatusWith
    <3>3. Landed(w)'
      BY <2>1, <2>4, <2>6, WithAdds DEF Landed
    <3> QED BY <3>1, <3>2, <3>3 DEF WriterInv
  <2> QED BY <2>2, <2>6, <2>7, <2>8, <2>9, WriterSteps
<1> QED BY <1>1, <1>2

\* The status write: at the version the main write left, it adds the writer's
\* change to status.
LEMMA UpdateStatusKeeps == ASSUME IInv, NEW w \in Writers, UpdateStatus(w) PROVE IInv'
<1>1. /\ ws \in [Writers -> Writer] /\ ws[w] \in Writer /\ ws[w].pc = "status"
      /\ rv \in Nat /\ spec \in Sides /\ status \in Sides /\ rs' = rs
  BY DEF IInv, TypeOK, UpdateStatus
<1>2. CASE rv # ws[w].at
  <2>1. ws' = [ws EXCEPT ![w].pc = "reread"] /\ UNCHANGED object
    BY <1>2 DEF UpdateStatus
  <2>2. ws' \in [Writers -> Writer]
    BY ZenonT(60), <1>1, <2>1 DEF Writer
  <2>3. /\ ws'[w].pc = "reread" /\ ws'[w].rev = ws[w].rev /\ ws'[w].at = ws[w].at
        /\ ws'[w].base = ws[w].base /\ ws'[w].status = ws[w].status
        /\ ws'[w].tries = ws[w].tries /\ ws'[w].again = ws[w].again
        /\ \A v \in Writers \ {w} : ws'[v] = ws[v]
    BY ZenonT(60), <1>1, <2>1 DEF Writer
  <2>4. TypeOK' /\ Grows
    BY <1>1, <2>1, <2>2, UnchangedGrows DEF IInv, TypeOK, object
  <2>5. WriterInv(w)'
    BY <1>1, <2>1, <2>3 DEF IInv, WriterInv, Running, Carries, Landed, StatusWith, object
  <2> QED BY <1>1, <2>3, <2>4, <2>5, WriterSteps
<1>3. CASE rv = ws[w].at
  <2>1. /\ status' = ws[w].status /\ UNCHANGED <<spec, runs>>
        /\ rv' = IF status' = status THEN rv ELSE rv + 1
        /\ ws' = [ws EXCEPT ![w].pc = "ok"]
    BY <1>3 DEF UpdateStatus
  <2>2. status' = StatusWith(status, w)
    BY <1>1, <1>3, <2>1 DEF IInv, WriterInv, Carries
  <2>3. ws' \in [Writers -> Writer]
    BY ZenonT(60), <1>1, <2>1 DEF Writer
  <2>4. /\ ws'[w].pc = "ok" /\ ws'[w].rev = ws[w].rev /\ ws'[w].at = ws[w].at
        /\ \A v \in Writers \ {w} : ws'[v] = ws[v]
    BY ZenonT(60), <1>1, <2>1 DEF Writer
  <2>5. TypeOK' /\ Grows
    BY <1>1, <2>1, <2>2, <2>3, WithAdds DEF IInv, TypeOK, Grows
  <2>6. WriterInv(w)'
    <3>1. Running(w)' /\ Carries(w)'
      BY <1>1, <2>4, <2>5 DEF IInv, WriterInv, Running, Carries, Grows, Writer
    <3>2. Landed(w)'
      BY <1>1, <2>1, <2>2, <2>4, WithAdds DEF IInv, WriterInv, Landed
    <3> QED BY <3>1, <3>2 DEF WriterInv
  <2> QED BY <1>1, <2>4, <2>5, <2>6, WriterSteps
<1> QED BY <1>2, <1>3

\* After a refused status write, the writer goes on only over the status its
\* main write left.
LEMMA UpdateRereadKeeps == ASSUME IInv, NEW w \in Writers, UpdateReread(w) PROVE IInv'
<1> USE AttemptsArePositive
<1>1. CASE status # ws[w].base
  BY <1>1, ConflictKeeps DEF UpdateReread
<1>2. CASE status = ws[w].base
  <2> DEFINE pc == IF ws[w].again + 1 < StatusAttempts THEN "status" ELSE "failed"
  <2>1. /\ ws \in [Writers -> Writer] /\ ws[w] \in Writer /\ rv \in Nat
        /\ ws[w].pc = "reread" /\ UNCHANGED <<object, rs>>
    BY DEF IInv, TypeOK, UpdateReread
  <2>2. ws' = [ws EXCEPT ![w].pc = pc, ![w].again = ws[w].again + 1, ![w].at = rv]
    BY <1>2 DEF UpdateReread, StatusAgain
  <2>3. /\ pc \in {"status", "failed"} /\ (pc = "status" => ws[w].again + 1 < StatusAttempts)
        /\ ws[w].again + 1 \in 0..StatusAttempts
    BY <2>1 DEF IInv, WriterInv, Running, Writer
  <2> HIDE DEF pc
  <2>4. ws' \in [Writers -> Writer]
    BY ZenonT(60), <2>1, <2>2, <2>3 DEF Writer
  <2>5. /\ ws'[w].pc = pc /\ ws'[w].rev = ws[w].rev /\ ws'[w].at = rv
        /\ ws'[w].base = ws[w].base /\ ws'[w].status = ws[w].status
        /\ ws'[w].tries = ws[w].tries /\ ws'[w].again = ws[w].again + 1
        /\ \A v \in Writers \ {w} : ws'[v] = ws[v]
    BY ZenonT(60), <2>1, <2>2 DEF Writer
  <2>6. TypeOK' /\ Grows
    BY <2>1, <2>4, UnchangedGrows DEF IInv, TypeOK, object
  <2>7. WriterInv(w)'
    BY <1>2, <2>1, <2>3, <2>5 DEF IInv, WriterInv, Running, Carries, Landed, StatusWith, object
  <2> QED BY <2>1, <2>5, <2>6, <2>7, WriterSteps
<1> QED BY <1>1, <1>2

-----------------------------------------------------------------------------
(* The steps of an appender. *)

\* What every step of an appender must show.
LEMMA AppenderSteps ==
  ASSUME IInv, NEW r \in Runs, Grows, TypeOK', AppenderInv(r)',
         \A q \in Runs \ {r} : rs'[q] = rs[q], ws' = ws
  PROVE  IInv'
<1>1. ASSUME NEW q \in Runs PROVE AppenderInv(q)'
  <2>1. CASE q = r
    BY <2>1
  <2>2. CASE q # r
    BY <2>2, AppenderStays DEF IInv
  <2> QED BY <2>1, <2>2
<1>2. ASSUME NEW w \in Writers PROVE WriterInv(w)'
  BY WriterStays DEF IInv
<1> QED BY <1>1, <1>2 DEF IInv

LEMMA RunGetKeeps == ASSUME IInv, NEW r \in Runs, RunGet(r) PROVE IInv'
<1>1. /\ rs \in [Runs -> Appender] /\ rs[r] \in Appender /\ rv \in Nat
      /\ runs \in Seq(Runs) /\ Append(runs, r) \in Seq(Runs)
  BY AppendElems DEF IInv, TypeOK
<1>2. /\ rs[r].pc = "get" /\ UNCHANGED <<object, ws>>
      /\ rs' = [rs EXCEPT ![r].pc = "put", ![r].at = rv, ![r].runs = Append(runs, r)]
  BY DEF RunGet
<1>3. rs' \in [Runs -> Appender]
  BY ZenonT(60), <1>1, <1>2 DEF Appender
<1>4. /\ rs'[r].pc = "put" /\ rs'[r].at = rv /\ rs'[r].runs = Append(runs, r)
      /\ rs'[r].tries = rs[r].tries
      /\ \A q \in Runs \ {r} : rs'[q] = rs[q]
  BY ZenonT(60), <1>1, <1>2 DEF Appender
<1>5. TypeOK' /\ Grows
  BY <1>2, <1>3, UnchangedGrows DEF IInv, TypeOK, object
<1>6. AppenderInv(r)'
  BY <1>1, <1>2, <1>4 DEF IInv, AppenderInv, object
<1> QED BY <1>2, <1>4, <1>5, <1>6, AppenderSteps

LEMMA RunPutKeeps == ASSUME IInv, NEW r \in Runs, RunPut(r) PROVE IInv'
<1> USE AttemptsArePositive
<1>1. /\ rs \in [Runs -> Appender] /\ rs[r] \in Appender /\ rs[r].pc = "put"
      /\ rv \in Nat /\ runs \in Seq(Runs) /\ ws' = ws
  BY DEF IInv, TypeOK, RunPut
<1>2. CASE rv # rs[r].at
  <2> DEFINE pc == IF rs[r].tries + 1 < StatusAttempts THEN "get" ELSE "failed"
  <2>1. rs' = [rs EXCEPT ![r].pc = pc, ![r].tries = rs[r].tries + 1] /\ UNCHANGED object
    BY <1>2 DEF RunPut
  <2>2. /\ pc \in {"get", "failed"} /\ (pc = "get" => rs[r].tries + 1 < StatusAttempts)
        /\ rs[r].tries + 1 \in 0..StatusAttempts
    <3>1. rs[r].tries \in Nat
      BY <1>1 DEF Appender
    <3>2. rs[r].tries < StatusAttempts
      BY <1>1 DEF IInv, AppenderInv
    <3> QED BY <3>1, <3>2
  <2> HIDE DEF pc
  <2>3. rs' \in [Runs -> Appender]
    BY ZenonT(60), <1>1, <2>1, <2>2 DEF Appender
  <2>4. /\ rs'[r].pc = pc /\ rs'[r].at = rs[r].at /\ rs'[r].tries = rs[r].tries + 1
        /\ \A q \in Runs \ {r} : rs'[q] = rs[q]
    BY ZenonT(60), <1>1, <2>1 DEF Appender
  <2>5. TypeOK' /\ Grows
    BY <1>1, <2>1, <2>3, UnchangedGrows DEF IInv, TypeOK, object
  <2>6. AppenderInv(r)'
    BY <1>1, <2>1, <2>2, <2>4 DEF IInv, AppenderInv, object
  <2> QED BY <1>1, <2>4, <2>5, <2>6, AppenderSteps
<1>3. CASE rv = rs[r].at
  <2>1. /\ runs' = rs[r].runs /\ rv' = rv + 1 /\ UNCHANGED <<spec, status>>
        /\ rs' = [rs EXCEPT ![r].pc = "ok"]
    BY <1>3 DEF RunPut
  <2>2. runs' = Append(runs, r)
    BY <1>1, <1>3, <2>1 DEF IInv, AppenderInv
  <2>3. rs' \in [Runs -> Appender]
    BY ZenonT(60), <1>1, <2>1 DEF Appender
  <2>4. /\ rs'[r].pc = "ok" /\ rs'[r].at = rs[r].at
        /\ \A q \in Runs \ {r} : rs'[q] = rs[q]
    BY ZenonT(60), <1>1, <2>1 DEF Appender
  <2>5. runs' \in Seq(Runs) /\ Elems(runs') = Elems(runs) \cup {r}
    BY <1>1, <2>2, AppendElems
  <2>6. TypeOK' /\ Grows
    BY <1>1, <2>1, <2>3, <2>5 DEF IInv, TypeOK, Grows
  <2>7. AppenderInv(r)'
    BY <1>1, <1>3, <2>1, <2>4, <2>5 DEF AppenderInv
  <2> QED BY <1>1, <2>4, <2>6, <2>7, AppenderSteps
<1> QED BY <1>2, <1>3

-----------------------------------------------------------------------------

LEMMA NextIInv == IInv /\ [Next]_vars => IInv'
<1> SUFFICES ASSUME IInv, [Next]_vars PROVE IInv'
  OBVIOUS
<1>1. ASSUME NEW w \in Writers, Writes(w) PROVE IInv'
  BY <1>1, MutateGetKeeps, UpdateCheckKeeps, UpdateMainKeeps, UpdateStatusKeeps, UpdateRereadKeeps
     DEF Writes
<1>2. ASSUME NEW r \in Runs, Appends(r) PROVE IInv'
  BY <1>2, RunGetKeeps, RunPutKeeps DEF Appends
<1>3. CASE UNCHANGED vars
  <2>1. ws' = ws /\ rs' = rs /\ TypeOK' /\ Grows
    BY <1>3, UnchangedGrows DEF vars, object, IInv, TypeOK
  <2> QED BY <2>1, WriterStays, AppenderStays DEF IInv
<1> QED BY <1>1, <1>2, <1>3 DEF Next

LEMMA Inductive == Spec => []IInv
BY InitIInv, NextIInv, PTL DEF Spec

\* Every state of the record, of its writers and of its appenders is of its
\* type: in particular Mutate and AppendRun stop within their attempts, and the
\* loop of updateStatusRetrying within its own.
THEOREM RecordTyped == Spec => []TypeOK
<1>1. IInv => TypeOK
  BY DEF IInv
<1> QED BY <1>1, Inductive, PTL

\* No update is lost: a change Mutate reported as written is in the record
\* ever after, for any number of concurrent writers on both sides of the
\* record, of run appends and of retries (Update, updateStatusRetrying).
THEOREM NoLostUpdate == Spec => []WrittenIsKept
<1>1. IInv => WrittenIsKept
  BY DEF IInv, WriterInv, Landed, WrittenIsKept
<1> QED BY <1>1, Inductive, PTL

\* No appended run is lost, although Update writes the same status endpoint and
\* goes on after a conflict with an append (AppendRun, applyStatus).
THEOREM NoLostRun == Spec => []AppendedIsKept
<1>1. IInv => AppendedIsKept
  BY DEF IInv, AppenderInv, AppendedIsKept
<1> QED BY <1>1, Inductive, PTL

-----------------------------------------------------------------------------
(* The two calls of a write are one atomic compare-and-swap. *)

\* Nobody's change is in place before its writer or appender was told: what the
\* abstract record asks of a write is that it is new.
Pending ==
  /\ \A w \in StatusWriters : ws[w].pc # "ok" => w \notin Elems(status)
  /\ \A r \in Runs : rs[r].pc # "ok" => r \notin Elems(runs)

\* Without the change a status writer added, its record is the one it read.
LEMMA BeforeAppend ==
  ASSUME NEW S, NEW s \in Seq(S), NEW e \in S
  PROVE  Before(Append(s, e)) = s
<1>1. /\ Append(s, e) # <<>> /\ Len(Append(s, e)) = Len(s) + 1 /\ Len(s) \in Nat
      /\ \A k \in 1..Len(s) : Append(s, e)[k] = s[k]
  OBVIOUS
<1>2. SubSeq(Append(s, e), 1, Len(Append(s, e)) - 1) = s
  BY <1>1
<1> QED BY <1>1, <1>2 DEF Before

\* A step of the other side of the record, or of nobody, is invisible.
LEMMA Invisible ==
  ASSUME IInv, Pending, status' = status, runs' = runs,
         \A w \in StatusWriters : ws'[w].status = ws[w].status /\ (ws'[w].pc = "ok" <=> ws[w].pc = "ok"),
         \A r \in Runs : rs'[r].pc = "ok" <=> rs[r].pc = "ok"
  PROVE  Pending' /\ UNCHANGED Atomic!avars
BY DEF Pending, Atomic!avars

\* The read of a status writer is the abstract read, whatever it read before.
LEMMA GetMaps ==
  ASSUME IInv, Pending, NEW w \in Writers, MutateGet(w)
  PROVE  Pending' /\ [Atomic!Next]_Atomic!avars
<1>1. /\ ws \in [Writers -> Writer] /\ ws[w].pc = "get" /\ status \in Seq(Writers)
      /\ status' = status /\ runs' = runs /\ rs' = rs
  BY DEF IInv, TypeOK, Sides, MutateGet, object
<1>2. /\ \A v \in Writers \ {w} : ws'[v] = ws[v]
      /\ ws'[w].pc = "check"
      /\ w \in SpecWriters => ws'[w].status = status
      /\ w \notin SpecWriters => ws'[w].status = Append(status, w)
  BY <1>1 DEF MutateGet, Writer
<1>3. Pending'
  BY <1>1, <1>2 DEF Pending, StatusWriters, Elems
<1>4. CASE w \in SpecWriters
  BY <1>1, <1>2, <1>4, Invisible DEF StatusWriters
<1>5. CASE w \notin SpecWriters
  <2>1. w \in StatusWriters /\ Before(ws'[w].status) = status
    BY <1>1, <1>2, <1>5, BeforeAppend DEF StatusWriters
  <2>2. Atomic!Get(w)
    BY <1>1, <1>2, <2>1 DEF Atomic!Get, StatusWriters
  <2> QED BY <1>3, <2>1, <2>2 DEF Atomic!Next
<1> QED BY <1>4, <1>5

\* The status write of a status writer is the abstract write: by the invariant
\* it puts its one change on top of the status its record was computed from.
LEMMA StatusMaps ==
  ASSUME IInv, Pending, NEW w \in Writers, UpdateStatus(w)
  PROVE  Pending' /\ [Atomic!Next]_Atomic!avars
<1>1. /\ ws \in [Writers -> Writer] /\ ws[w].pc = "status" /\ status \in Seq(Writers)
      /\ runs' = runs /\ rs' = rs
  BY DEF IInv, TypeOK, Sides, UpdateStatus, object
<1>2. CASE rv # ws[w].at
  <2>1. ws' = [ws EXCEPT ![w].pc = "reread"] /\ status' = status
    BY <1>2 DEF UpdateStatus, object
  <2>2. /\ \A v \in Writers \ {w} : ws'[v] = ws[v]
        /\ ws'[w].pc = "reread" /\ ws'[w].status = ws[w].status
    BY <1>1, <2>1 DEF Writer
  <2> QED BY <1>1, <2>1, <2>2, Invisible DEF StatusWriters
<1>3. CASE rv = ws[w].at
  <2>1. status' = ws[w].status /\ ws' = [ws EXCEPT ![w].pc = "ok"]
    BY <1>3 DEF UpdateStatus
  <2>2. status' = StatusWith(status, w)
    BY <1>1, <1>3, <2>1 DEF IInv, WriterInv, Carries
  <2>3. /\ \A v \in Writers \ {w} : ws'[v] = ws[v]
        /\ ws'[w].pc = "ok" /\ ws'[w].status = ws[w].status
    BY <1>1, <2>1 DEF Writer
  <2>4. CASE w \in SpecWriters
    <3>1. status' = status
      BY <2>2, <2>4 DEF StatusWith, With
    <3>2. Pending' /\ UNCHANGED Atomic!avars
      BY <1>1, <2>3, <2>4, <3>1, Invisible DEF StatusWriters
    <3> QED BY <3>2
  <2>5. CASE w \notin SpecWriters
    <3>1. w \in StatusWriters /\ status' = Append(status, w) /\ Before(ws[w].status) = status
      BY <1>1, <2>1, <2>2, <2>5, BeforeAppend DEF StatusWriters, StatusWith, With
    <3>2. Elems(status') = Elems(status) \cup {w}
      BY <1>1, <3>1, AppendElems
    <3>3. Pending'
      BY <1>1, <2>3, <3>1, <3>2 DEF Pending, StatusWriters
    <3>4. \A k \in DOMAIN status : status[k] # w
      BY <1>1, <3>1 DEF Pending, Elems
    <3>5. {v \in StatusWriters : ws'[v].pc = "ok"} = {v \in StatusWriters : ws[v].pc = "ok"} \cup {w}
      BY <2>3, <3>1 DEF StatusWriters
    <3>6. \A v \in StatusWriters : Before(ws'[v].status) = Before(ws[v].status)
      BY <2>3, <3>1 DEF StatusWriters
    <3>7. Atomic!Update(w)
      BY <1>1, <3>1, <3>4, <3>5, <3>6 DEF Atomic!Update
    <3> QED BY <3>1, <3>3, <3>7 DEF Atomic!Next
  <2> QED BY <2>4, <2>5
<1> QED BY <1>2, <1>3

\* The other steps of a writer show nothing of themselves on the status side.
LEMMA WriterStepsMap ==
  ASSUME IInv, Pending, NEW w \in Writers, UpdateCheck(w) \/ UpdateMain(w) \/ UpdateReread(w)
  PROVE  Pending' /\ UNCHANGED Atomic!avars
<1>1. /\ ws \in [Writers -> Writer] /\ ws[w].pc \in {"check", "main", "reread"}
      /\ status' = status /\ runs' = runs /\ rs' = rs
  BY DEF IInv, TypeOK, UpdateCheck, UpdateMain, UpdateReread, object
<1>2. /\ \A v \in Writers \ {w} : ws'[v] = ws[v]
      /\ ws'[w].pc # "ok" /\ ws'[w].status = ws[w].status
  <2>1. CASE Conflict(w)
    BY <1>1, <2>1 DEF Conflict, Writer
  <2>2. CASE ws' = [ws EXCEPT ![w].pc = "main", ![w].at = rv]
    BY <1>1, <2>2 DEF Writer
  <2>3. CASE ws' = [ws EXCEPT ![w].pc = "status", ![w].at = rv', ![w].base = status]
    BY <1>1, <2>3 DEF Writer
  <2>4. CASE StatusAgain(w)
    BY <1>1, <2>4 DEF StatusAgain, Writer
  <2> QED BY <2>1, <2>2, <2>3, <2>4 DEF UpdateCheck, UpdateMain, UpdateReread
<1> QED BY <1>1, <1>2, Invisible DEF StatusWriters

\* An append that lands is the abstract append; the rest of the loop is not seen.
LEMMA AppendsMap ==
  ASSUME IInv, Pending, NEW r \in Runs, Appends(r)
  PROVE  Pending' /\ [Atomic!Next]_Atomic!avars
<1>1. /\ rs \in [Runs -> Appender] /\ rs[r].pc # "ok" /\ runs \in Seq(Runs)
      /\ status' = status /\ ws' = ws
  BY DEF IInv, TypeOK, Appends, RunGet, RunPut, object
<1>2. CASE runs' = runs /\ rs'[r].pc # "ok" /\ \A q \in Runs \ {r} : rs'[q] = rs[q]
  BY <1>1, <1>2, Invisible DEF StatusWriters
<1>3. CASE RunGet(r)
  <2>1. runs' = runs /\ rs'[r].pc # "ok" /\ \A q \in Runs \ {r} : rs'[q] = rs[q]
    BY <1>1, <1>3 DEF RunGet, object, Appender
  <2> QED BY <1>2, <2>1
<1>4. CASE RunPut(r) /\ rv # rs[r].at
  <2>1. runs' = runs /\ rs'[r].pc # "ok" /\ \A q \in Runs \ {r} : rs'[q] = rs[q]
    BY <1>1, <1>4 DEF RunPut, object, Appender
  <2> QED BY <1>2, <2>1
<1>5. CASE RunPut(r) /\ rv = rs[r].at
  <2>1. runs' = rs[r].runs /\ rs' = [rs EXCEPT ![r].pc = "ok"]
    BY <1>5 DEF RunPut
  <2>2. runs' = Append(runs, r)
    BY <1>1, <1>5, <2>1 DEF RunPut, IInv, AppenderInv
  <2>3. rs'[r].pc = "ok" /\ \A q \in Runs \ {r} : rs'[q] = rs[q]
    BY <1>1, <2>1 DEF Appender
  <2>4. Elems(runs') = Elems(runs) \cup {r}
    BY <1>1, <2>2, AppendElems
  <2>5. Pending'
    BY <1>1, <2>3, <2>4 DEF Pending, StatusWriters, Elems
  <2>6. \A k \in DOMAIN runs : runs[k] # r
    BY <1>1 DEF Pending, Elems
  <2>7. {q \in Runs : rs'[q].pc = "ok"} = {q \in Runs : rs[q].pc = "ok"} \cup {r}
    BY <2>3
  <2>8. Atomic!AppendRun(r)
    BY <1>1, <2>2, <2>6, <2>7 DEF Atomic!AppendRun
  <2> QED BY <2>5, <2>8 DEF Atomic!Next
<1> QED BY <1>3, <1>4, <1>5 DEF Appends

LEMMA NextMaps ==
  ASSUME IInv, Pending, [Next]_vars PROVE Pending' /\ [Atomic!Next]_Atomic!avars
<1>1. ASSUME NEW w \in Writers, Writes(w) PROVE Pending' /\ [Atomic!Next]_Atomic!avars
  BY <1>1, GetMaps, StatusMaps, WriterStepsMap DEF Writes
<1>2. ASSUME NEW r \in Runs, Appends(r) PROVE Pending' /\ [Atomic!Next]_Atomic!avars
  BY <1>2, AppendsMap
<1>3. CASE UNCHANGED vars
  <2>1. ws' = ws /\ rs' = rs /\ status' = status /\ runs' = runs
    BY <1>3 DEF vars, object
  <2> QED BY <2>1, Invisible
<1> QED BY <1>1, <1>2, <1>3 DEF Next

\* To the writers of the status side and to the run appenders, the two calls of
\* a write and their retries are the atomic record that Store promises: every
\* step is a step of AtomicRecord or changes nothing it can see (Update,
\* updateStatusRetrying, AppendRun).
THEOREM ImplementsPromise == Spec => ImplementsAtomicRecord
<1>1. Init => Pending /\ Atomic!Init
  <2> SUFFICES ASSUME Init PROVE Pending /\ Atomic!Init
    OBVIOUS
  <2>1. /\ status = <<>> /\ runs = <<>>
        /\ \A w \in StatusWriters : ws[w].pc = "get" /\ ws[w].status = <<>>
        /\ \A r \in Runs : rs[r].pc = "get"
    BY DEF Init, StatusWriters
  <2>2. Pending
    BY <2>1 DEF Pending, Elems
  <2>3. Atomic!Init
    BY <2>1 DEF Atomic!Init, Before
  <2> QED BY <2>2, <2>3
<1>2. IInv /\ Pending /\ [Next]_vars => Pending' /\ [Atomic!Next]_Atomic!avars
  BY NextMaps
<1> QED BY <1>1, <1>2, Inductive, PTL DEF Spec, ImplementsAtomicRecord, Atomic!Spec

=============================================================================
