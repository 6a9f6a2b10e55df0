------------------------ MODULE Conversation_proofs ------------------------
(***************************************************************************)
(* What holds of one conversation for any inputs, pods, handlers and       *)
(* bounds.  With stale caches, outages, automatic closes and run ids of    *)
(* whole seconds: the types, that inputs are answered in the order they    *)
(* arrived, that a report never takes a conversation out of Closed, that   *)
(* what was answered does not run again while the queue is within the      *)
(* list of processed ids, and that a run is recorded once while no two     *)
(* reports of it are served together.  When run ids do not coincide: that  *)
(* a pod works on the run in flight and, without outages, that what is     *)
(* pruned was recorded.                                                    *)
(***************************************************************************)
EXTENDS Conversation, FiniteSetTheorems, NaturalsInduction, WellFoundedInduction, TLAPS

-----------------------------------------------------------------------------
(* The helpers are well typed. *)

LEMMA ElemsTyped == ASSUME NEW S, NEW s \in Seq(S) PROVE Elems(s) \subseteq S
BY DEF Elems

LEMMA LastOfTyped ==
  ASSUME NEW S, NEW s \in Seq(S), NEW n \in Nat
  PROVE  LastOf(s, n) \in Seq(S) /\ Elems(LastOf(s, n)) \subseteq Elems(s)
<1>1. CASE Len(s) <= n
  BY <1>1 DEF LastOf
<1>2. CASE ~(Len(s) <= n)
  <2>1. /\ Len(s) \in Nat /\ Len(s) - n + 1 \in 1..(Len(s) + 1)
        /\ LastOf(s, n) = SubSeq(s, Len(s) - n + 1, Len(s))
    BY <1>2 DEF LastOf
  <2>2. LastOf(s, n) \in Seq(S)
    BY <2>1
  <2>3. \A k \in DOMAIN LastOf(s, n) : LastOf(s, n)[k] = s[Len(s) - n + k] /\ Len(s) - n + k \in DOMAIN s
    BY <1>2, <2>1
  <2>4. Elems(LastOf(s, n)) \subseteq Elems(s)
    BY <2>3 DEF Elems
  <2> QED BY <2>2, <2>4
<1> QED BY <1>1, <1>2

LEMMA ConcatElems ==
  ASSUME NEW S, NEW s \in Seq(S), NEW t \in Seq(S)
  PROVE  Elems(s \o t) \subseteq Elems(s) \cup Elems(t)
<1> SUFFICES ASSUME NEW k \in DOMAIN (s \o t) PROVE (s \o t)[k] \in Elems(s) \cup Elems(t)
  BY DEF Elems
<1>1. k \in 1..(Len(s) + Len(t)) /\ Len(s) \in Nat /\ Len(t) \in Nat
  OBVIOUS
<1>2. CASE k <= Len(s)
  BY <1>1, <1>2 DEF Elems
<1>3. CASE ~(k <= Len(s))
  <2>1. (s \o t)[k] = t[k - Len(s)] /\ k - Len(s) \in DOMAIN t
    BY <1>1, <1>3
  <2> QED BY <2>1 DEF Elems
<1> QED BY <1>2, <1>3

LEMMA IdSeqsTyped == IdSeqs \subseteq Seq(Inputs)
BY DEF IdSeqs

LEMMA NothingTyped == Nothing \in Unit /\ NoRun \in RunId /\ Elems(Nothing.ids) = {} /\ Nothing.run = NoRun
BY DEF Nothing, Unit, NoRun, RunId, Elems

LEMMA RecordUpdates ==
  ASSUME NEW c \in Record
  PROVE  /\ Closing(c) \in Record /\ Released(c) \in Record /\ View(c) \in Copy
         /\ \A p \in Phases : [c EXCEPT !.phase = p] \in Record
         /\ \A s \in SUBSET Inputs : [c EXCEPT !.inputs = s] \in Record
         /\ \A b \in BOOLEAN : [c EXCEPT !.runtimePod = b] \in Record
<1>1. Closing(c) \in Record
  BY DEF Closing, Record, Phases
<1>2. Released(c) \in Record
  BY NothingTyped DEF Released, Record
<1>3. View(c) \in Copy
  BY DEF View, Copy, Record
<1>4. \A p \in Phases : [c EXCEPT !.phase = p] \in Record
  BY DEF Record
<1>5. \A s \in SUBSET Inputs : [c EXCEPT !.inputs = s] \in Record
  BY DEF Record
<1>6. \A b \in BOOLEAN : [c EXCEPT !.runtimePod = b] \in Record
  BY DEF Record
<1> QED BY <1>1, <1>2, <1>3, <1>4, <1>5, <1>6

PodTyped == pod \in PodObject /\ podSeen \in PodObject

LEMMA AbsentTyped == Absent \in PodObject
BY DEF Absent, PodObject

LEMMA PodBecomesTyped ==
  ASSUME PodTyped, NEW o \in PodObject, PodBecomes(o) PROVE PodTyped'
BY DEF PodTyped, PodBecomes

LEMMA DeletePodTyped ==
  ASSUME PodTyped, NEW grace \in BOOLEAN, DeletePod(grace) PROVE PodTyped'
<1>1. [pod EXCEPT !.dying = TRUE] \in PodObject
  BY DEF PodTyped, PodObject
<1>2. CASE pod = Absent
  BY <1>2 DEF DeletePod, PodTyped
<1>3. CASE pod # Absent
  BY <1>1, <1>3, AbsentTyped, PodBecomesTyped DEF DeletePod
<1> QED BY <1>2, <1>3

\* The handler that appends has found room for the input it appends.
Typed == TypeOK /\ (msg = "append" => next \in Inputs)

LEMMA InitTyped == Init => Typed
<1> SUFFICES ASSUME Init PROVE Typed
  OBVIOUS
<1>1. Fresh \in Record /\ 1 \in Inputs
  BY NothingTyped, BoundsAreNaturals DEF Fresh, Record, Phases, Inputs
<1>2. conv \in Record /\ View(Fresh) \in Copy
  BY <1>1, RecordUpdates DEF Init
<1>3. rec \in Pass
  BY <1>2 DEF Init, NoPass, Pass
<1>4. rt \in [Pods -> Process] /\ hs \in [Handlers -> Handler]
  BY NothingTyped DEF Init, Dead, Process, NoReport, Handler, Phases
<1>5. next \in 1..(MaxInputs + 1)
  BY BoundsAreNaturals DEF Init
<1> QED BY <1>2, <1>3, <1>4, <1>5, AbsentTyped DEF Init, TypeOK, Typed

-----------------------------------------------------------------------------
(* Type correctness, one party at a time. *)

LEMMA ChatTyped == ASSUME Typed, Chat PROVE Typed'
<1> USE DEF podVars, chatVars, history
<1>1. conv \in Record /\ PodTyped /\ next \in 1..(MaxInputs + 1) /\ MaxInputs \in Nat
  BY BoundsAreNaturals DEF Typed, TypeOK, PodTyped
<1>2. CASE MessageArrives
  BY <1>1, <1>2 DEF MessageArrives, Typed, TypeOK, Inputs
<1>3. CASE AppendInput
  <2>1. next \in Inputs /\ next + 1 \in 1..(MaxInputs + 1)
    BY <1>1, <1>3 DEF AppendInput, Typed, Inputs
  <2>2. conv.inputs \cup {next} \in SUBSET Inputs
    BY <1>1, <2>1 DEF Record
  <2>3. conv' \in Record
    BY <1>1, <1>3, <2>2, RecordUpdates DEF AppendInput
  <2> QED BY <1>3, <2>1, <2>3 DEF AppendInput, Typed, TypeOK
<1>4. CASE CloseConversation
  BY <1>1, <1>4, RecordUpdates DEF CloseConversation, Typed, TypeOK
<1>5. CASE ReopenConversation
  <2>1. conv' \in Record
    BY <1>1, <1>5 DEF ReopenConversation, Record, Phases
  <2> QED BY <1>5, <2>1 DEF ReopenConversation, Typed, TypeOK
<1>6. CASE ReleaseCheck
  BY <1>6 DEF ReleaseCheck, Typed, TypeOK
<1>7. CASE ReleaseDelete
  <2>1. PodTyped'
    BY <1>1, <1>7, DeletePodTyped DEF ReleaseDelete
  <2> QED BY <1>7, <2>1 DEF ReleaseDelete, Typed, TypeOK, PodTyped
<1> QED BY <1>2, <1>3, <1>4, <1>5, <1>6, <1>7 DEF Chat

LEMMA FaultTyped == ASSUME TypeOK, Fault PROVE faults' \in Nat
BY DEF TypeOK, Fault

LEMMA RuntimeTyped == ASSUME Typed, NEW p \in Pods, Runtime(p) PROVE Typed'
<1> USE DEF podVars, chatVars, history
<1>1. conv \in Record /\ PodTyped /\ rt \in [Pods -> Process] /\ rt[p] \in Process
  BY DEF Typed, TypeOK, PodTyped
<1>2. Dead \in Process
  BY NothingTyped DEF Dead, Process
<1>3. CASE PodStarts(p)
  <2>1. [pod EXCEPT !.st = "running"] \in PodObject
    BY <1>1 DEF PodTyped, PodObject
  <2>2. PodTyped'
    BY <1>1, <1>3, <2>1, PodBecomesTyped DEF PodStarts
  <2>3. rt' \in [Pods -> Process]
    BY <1>1, <1>3 DEF PodStarts, Process
  <2> QED BY <1>3, <2>2, <2>3 DEF PodStarts, Typed, TypeOK, PodTyped
<1>4. CASE KubeletKills(p)
  <2>1. PodTyped'
    BY <1>1, <1>4, AbsentTyped, PodBecomesTyped DEF KubeletKills, PodTyped
  <2>2. rt' \in [Pods -> Process]
    BY <1>1, <1>2, <1>4 DEF KubeletKills
  <2> QED BY <1>4, <2>1, <2>2 DEF KubeletKills, Typed, TypeOK, PodTyped
<1>5. ASSUME Exits(p) PROVE PodTyped' /\ rt' \in [Pods -> Process]
  <2>1. [pod EXCEPT !.st = "exited"] \in PodObject
    BY <1>1 DEF PodTyped, PodObject
  <2>2. PodTyped'
    BY <1>1, <1>5, <2>1, PodBecomesTyped DEF Exits, PodTyped
  <2> QED BY <1>1, <1>2, <1>5, <2>2 DEF Exits
<1>6. CASE IdleExit(p)
  <2>1. PodTyped' /\ rt' \in [Pods -> Process]
    BY <1>5, <1>6 DEF IdleExit
  <2> QED BY <1>6, <2>1 DEF IdleExit, Typed, TypeOK, PodTyped
<1>7. CASE RuntimeDies(p)
  <2>1. PodTyped' /\ rt' \in [Pods -> Process] /\ faults' \in Nat
    BY <1>5, <1>7, FaultTyped DEF RuntimeDies, Typed
  <2> QED BY <1>7, <2>1 DEF RuntimeDies, Typed, TypeOK, PodTyped
<1>8. CASE TryDispatch(p)
  <2> PICK s \in IdSeqs, resume \in BOOLEAN :
        LET run == [sec |-> clock, resume |-> resume] IN
          /\ conv' = [conv EXCEPT !.inflight = [run |-> run, ids |-> s],
                                  !.phase = "Working", !.runtimePod = TRUE]
          /\ \/ rt' = [rt EXCEPT ![p] = [st |-> "busy", run |-> run]] /\ UNCHANGED faults
             \/ Fault /\ UNCHANGED rt
    BY <1>8 DEF TryDispatch
  <2> DEFINE run == [sec |-> clock, resume |-> resume]
  <2>1. run \in RunId /\ [run |-> run, ids |-> s] \in Unit /\ [st |-> "busy", run |-> run] \in Process
    BY IdSeqsTyped DEF Typed, TypeOK, RunId, Unit, Process
  <2> HIDE DEF run
  <2>2. conv' \in Record
    BY <1>1, <2>1 DEF Record, Phases, run
  <2>3. rt' \in [Pods -> Process] /\ faults' \in Nat
    BY <1>1, <2>1, FaultTyped DEF run, Typed, TypeOK
  <2>4. clock' \in Nat
    BY <1>8 DEF TryDispatch, Typed, TypeOK
  <2> QED BY <1>8, <2>2, <2>3, <2>4 DEF TryDispatch, Typed, TypeOK
<1>9. CASE ReportGivenUp(p)
  <2>1. rt' \in [Pods -> Process] /\ faults' \in Nat
    BY <1>1, <1>9, FaultTyped, NothingTyped DEF ReportGivenUp, Process, Typed
  <2> QED BY <1>9, <2>1 DEF ReportGivenUp, Typed, TypeOK
<1> QED BY <1>3, <1>4, <1>6, <1>7, <1>8, <1>9 DEF Runtime

\* What a report does to the record.
LEMMA ReportedTyped ==
  ASSUME TypeOK, NEW h \in Handlers
  PROVE  /\ Reported(conv, h) \in Record
         /\ SetPhaseUnlessClosed(conv, hs[h].desired) \in Record
<1>1. /\ conv \in Record /\ hs[h] \in Handler /\ ProcessedBound \in Nat
      /\ conv.processed \in Seq(Inputs) /\ conv.inflight.ids \in Seq(Inputs)
  BY BoundsAreNaturals DEF TypeOK, Record, Unit
<1>2. LastOf(conv.processed \o conv.inflight.ids, ProcessedBound) \in Seq(Inputs)
  <2>1. conv.processed \o conv.inflight.ids \in Seq(Inputs)
    BY <1>1
  <2> QED BY <1>1, <2>1, LastOfTyped
<1>3. Reported(conv, h) \in Record
  <2> DEFINE kept == IF hs[h].hold THEN conv.processed
                     ELSE LastOf(conv.processed \o conv.inflight.ids, ProcessedBound)
  <2>1. kept \in Seq(Inputs)
    BY <1>1, <1>2
  <2>2. Reported(conv, h) = IF conv.inflight.run # hs[h].run THEN conv
                            ELSE [conv EXCEPT !.inflight = Nothing, !.processed = kept]
    BY DEF Reported
  <2> HIDE DEF kept
  <2>3. [conv EXCEPT !.inflight = Nothing, !.processed = kept] \in Record
    BY <1>1, <2>1, NothingTyped DEF Record
  <2> QED BY <1>1, <2>2, <2>3
<1>4. SetPhaseUnlessClosed(conv, hs[h].desired) \in Record
  BY <1>1, RecordUpdates DEF SetPhaseUnlessClosed, Handler
<1> QED BY <1>3, <1>4

LEMMA WorkDoneTyped == ASSUME Typed, NEW h \in Handlers, WorkDone(h) PROVE Typed'
<1> USE DEF podVars, chatVars, history
<1>1. /\ conv \in Record /\ rt \in [Pods -> Process] /\ hs \in [Handlers -> Handler]
      /\ hs[h] \in Handler /\ conv.inflight.ids \in Seq(Inputs)
  BY DEF Typed, TypeOK, Record, Unit
<1>2. Elems(conv.inflight.ids) \subseteq Inputs
  BY <1>1, ElemsTyped
<1>3. ASSUME NEW p \in Pods, ReportGet(h, p) PROVE Typed'
  <2>1. rt' \in [Pods -> Process] /\ rt[p].run \in RunId
    BY <1>1, <1>3 DEF ReportGet, Process
  <2> PICK hold \in (IF Outage THEN BOOLEAN ELSE {FALSE}) :
       hs' = [hs EXCEPT ![h] =
               [pc |-> "list", of |-> p, run |-> rt[p].run, hold |-> hold, desired |-> "Idle",
                captured |-> IF conv.inflight.run = rt[p].run /\ ~hold
                             THEN Elems(conv.inflight.ids) ELSE {}]]
    BY <1>3 DEF ReportGet
  <2>2. hs' \in [Handlers -> Handler]
    BY <1>1, <1>2, <2>1 DEF Handler, Phases
  <2> QED BY <1>3, <2>1, <2>2 DEF ReportGet, Typed, TypeOK
<1>4. CASE ReportListRuns(h)
  <2>1. hs' \in [Handlers -> Handler]
    BY <1>1, <1>4 DEF ReportListRuns, Handler
  <2> QED BY <1>4, <2>1 DEF ReportListRuns, Typed, TypeOK
<1>5. CASE ReportAppendRun(h)
  <2>1. hs' \in [Handlers -> Handler]
    BY <1>1, <1>5 DEF ReportAppendRun, Handler
  <2>2. runs' \in Seq(RunId)
    <3>1. runs \in Seq(RunId) /\ hs[h].run \in RunId /\ RunHistory \in Nat
      BY <1>1, BoundsAreNaturals DEF Typed, TypeOK, Handler
    <3>2. Append(runs, hs[h].run) \in Seq(RunId)
      BY <3>1
    <3>3. LastOf(Append(runs, hs[h].run), RunHistory) \in Seq(RunId)
      BY <3>1, <3>2, LastOfTyped
    <3> QED BY <1>5, <3>3 DEF ReportAppendRun
  <2>3. recorded' \subseteq Inputs
    BY <1>1, <1>5 DEF ReportAppendRun, Handler, Typed, TypeOK
  <2> QED BY <1>5, <2>1, <2>2, <2>3 DEF ReportAppendRun, Typed, TypeOK
<1>6. CASE ReportMark(h)
  <2>1. conv' \in Record
    BY <1>6, ReportedTyped DEF ReportMark, Typed
  <2> DEFINE desired == IF PendingInputs(conv') # {} THEN "Queued" ELSE "Idle"
  <2>2. desired \in Phases /\ hs' = [hs EXCEPT ![h].pc = "phase", ![h].desired = desired]
    BY <1>6 DEF ReportMark, Phases
  <2> HIDE DEF desired
  <2>3. hs' \in [Handlers -> Handler]
    BY <1>1, <2>2 DEF Handler
  <2>4. answered' \subseteq Inputs
    BY <1>2, <1>6 DEF ReportMark, Typed, TypeOK
  <2> QED BY <1>6, <2>1, <2>3, <2>4 DEF ReportMark, Typed, TypeOK
<1>7. CASE ReportPhase(h)
  <2>1. conv' \in Record
    BY <1>7, ReportedTyped DEF ReportPhase, Typed
  <2>2. [st |-> "idle", run |-> NoRun] \in Process /\ NoReport \in Handler
    BY NothingTyped DEF Process, NoReport, Handler, Phases
  <2>3. rt' \in [Pods -> Process] /\ faults' \in Nat
    BY <1>1, <1>7, <2>2, FaultTyped DEF ReportPhase, Typed, TypeOK
  <2>4. hs' \in [Handlers -> Handler]
    BY <1>1, <1>7, <2>2 DEF ReportPhase
  <2> QED BY <1>7, <2>1, <2>3, <2>4 DEF ReportPhase, Typed, TypeOK
<1> QED BY <1>3, <1>4, <1>5, <1>6, <1>7 DEF WorkDone

\* A pass that goes on with the record as it is, or as it has just written it.
LEMMA PassUpdates ==
  ASSUME NEW r \in Pass, NEW c \in Record
  PROVE  /\ NoPass \in Pass
         /\ \A pc \in {"pod", "reap", "unstarted", "drain", "create", "bind", "phase", "auto", "unhold", "closed", "prune"} :
              /\ [r EXCEPT !.pc = pc] \in Pass
              /\ [r EXCEPT !.pc = pc, !.loc = View(c)] \in Pass
              /\ \A b \in BOOLEAN : [r EXCEPT !.pc = pc, !.podExists = b] \in Pass
<1>1. View(c) \in Copy
  BY RecordUpdates
<1>2. View(Fresh) \in Copy
  BY NothingTyped DEF Fresh, View, Copy, Phases
<1>3. NoPass \in Pass
  BY <1>2 DEF NoPass, Pass
<1>4. ASSUME NEW pc \in {"pod", "reap", "unstarted", "drain", "create", "bind", "phase", "auto", "unhold", "closed", "prune"}
      PROVE  /\ [r EXCEPT !.pc = pc] \in Pass
             /\ [r EXCEPT !.pc = pc, !.loc = View(c)] \in Pass
             /\ \A b \in BOOLEAN : [r EXCEPT !.pc = pc, !.podExists = b] \in Pass
  <2>1. [r EXCEPT !.pc = pc] \in Pass
    BY DEF Pass
  <2>2. [r EXCEPT !.pc = pc, !.loc = View(c)] \in Pass
    BY <1>1 DEF Pass
  <2>3. \A b \in BOOLEAN : [r EXCEPT !.pc = pc, !.podExists = b] \in Pass
    BY DEF Pass
  <2> QED BY <2>1, <2>2, <2>3
<1> QED BY <1>3, <1>4


\* The first half of a pass: closing, pruning, reading the pod.
LEMMA PassOpeningTyped ==
  ASSUME Typed,
         \/ RecBegin \/ RecReleaseWorkload \/ RecForgetRun \/ RecPrune
         \/ \E overdue \in BOOLEAN : RecReadPod(overdue)
  PROVE  Typed'
<1> USE DEF podVars, chatVars, history
<1>1. conv \in Record /\ rec \in Pass /\ PodTyped
  BY DEF Typed, TypeOK, PodTyped
<1>2. NoPass \in Pass /\ View(conv) \in Copy /\ Released(conv) \in Record
  BY <1>1, PassUpdates, RecordUpdates
<1>3. CASE RecBegin
  <2> DEFINE done == conv.inputs \cap Elems(conv.processed)
             pc == IF conv.phase = "Closed" THEN "closed" ELSE IF done # {} THEN "prune" ELSE "pod"
             pending == PendingInputs(conv) # {}
             needs == NeedsWorker(conv)
  <2>1. /\ done \in SUBSET Inputs /\ pc \in {"closed", "prune", "pod"}
        /\ pending \in BOOLEAN /\ needs \in BOOLEAN
    BY <1>1 DEF Record, NeedsWorker
  <2>2. rec' = [NoPass EXCEPT !.pc = pc, !.loc = View(conv), !.done = done,
                              !.pending = pending, !.needs = needs]
    BY <1>3 DEF RecBegin
  <2> HIDE DEF done, pc, pending, needs
  <2>3. rec' \in Pass
    BY ZenonT(60), <1>2, <2>1, <2>2 DEF Pass
  <2> QED BY <1>3, <2>3 DEF RecBegin, Typed, TypeOK
<1>4. CASE RecReleaseWorkload
  <2>1. PodTyped'
    BY <1>1, <1>4, DeletePodTyped DEF RecReleaseWorkload
  <2>2. rec' \in Pass
    BY <1>1, <1>4, PassUpdates DEF RecReleaseWorkload
  <2> QED BY <1>4, <2>1, <2>2 DEF RecReleaseWorkload, Typed, TypeOK, PodTyped
<1>5. CASE RecForgetRun
  BY <1>1, <1>2, <1>5 DEF RecForgetRun, Typed, TypeOK
<1>6. CASE RecPrune
  <2>1. conv.inputs \ rec.done \in SUBSET Inputs
    BY <1>1 DEF Record
  <2>2. conv' \in Record
    BY <1>1, <1>6, <2>1, RecordUpdates DEF RecPrune
  <2> DEFINE pending == PendingInputs(conv') # {}
             needs == NeedsWorker(conv')
  <2>3. View(conv') \in Copy /\ pending \in BOOLEAN /\ needs \in BOOLEAN
    BY <2>2, RecordUpdates DEF NeedsWorker
  <2>4. rec' = [rec EXCEPT !.pc = "pod", !.done = {}, !.loc = View(conv'),
                           !.pending = pending, !.needs = needs]
    BY <1>6 DEF RecPrune
  <2> HIDE DEF pending, needs
  <2>5. rec' \in Pass
    BY ZenonT(60), <1>1, <2>3, <2>4 DEF Pass
  <2> QED BY <1>6, <2>2, <2>5 DEF RecPrune, Typed, TypeOK
<1>7. ASSUME NEW overdue \in BOOLEAN, RecReadPod(overdue) PROVE Typed'
  <2>1. CASE podSeen.st = "exited"
    <3>1. PodTyped' /\ rec' \in Pass
      BY <1>1, <1>7, <2>1, DeletePodTyped, PassUpdates DEF RecReadPod
    <3> QED BY <1>7, <2>1, <3>1 DEF RecReadPod, Typed, TypeOK, PodTyped
  <2>2. CASE podSeen.st # "exited" /\ overdue
    <3>1. PodTyped' /\ rec' \in Pass
      BY <1>1, <1>7, <2>2, DeletePodTyped, PassUpdates DEF RecReadPod
    <3>2. faults' \in Nat
      BY <1>7, <2>2, FaultTyped DEF RecReadPod, Typed
    <3> QED BY <1>7, <2>2, <3>1, <3>2 DEF RecReadPod, Typed, TypeOK, PodTyped
  <2>3. CASE podSeen.st # "exited" /\ ~overdue
    <3> PICK pc \in (IF podSeen = Absent THEN {WithoutPod}
                     ELSE {"phase"} \cup IF rec.needs THEN {} ELSE {"drain"}) :
          /\ releases' = IF pc = "drain" THEN releases + 1 ELSE releases
          /\ rec' = [rec EXCEPT !.pc = pc, !.podExists = podSeen # Absent]
      BY <1>7, <2>3 DEF RecReadPod
    <3>1. pc \in {"create", "phase", "drain"}
      BY DEF WithoutPod
    <3> DEFINE exists == podSeen # Absent
    <3>2. rec' \in Pass
      <4>1. exists \in BOOLEAN /\ rec' = [rec EXCEPT !.pc = pc, !.podExists = exists]
        OBVIOUS
      <4> HIDE DEF exists
      <4> QED BY ZenonT(60), <1>1, <3>1, <4>1 DEF Pass
    <3>3. releases' \in Nat
      BY DEF Typed, TypeOK
    <3> QED BY <1>7, <2>3, <3>2, <3>3 DEF RecReadPod, Typed, TypeOK
  <2> QED BY <2>1, <2>2, <2>3
<1> QED BY <1>3, <1>4, <1>5, <1>6, <1>7

\* The second half: reaping, draining, starting a pod, the phase.
LEMMA PassClosingTyped ==
  ASSUME Typed,
         \/ RecReapUnstarted \/ RecReap \/ RecReleaseForDrain \/ RecEnterPending
         \/ (\E p \in Pods : RecCreatePod(p)) \/ RecBindPod \/ RecSetPhase \/ RecAutoClose
  PROVE  Typed'
<1> USE DEF podVars, chatVars, history
<1>1. conv \in Record /\ rec \in Pass /\ PodTyped
  BY DEF Typed, TypeOK, PodTyped
<1>2. /\ NoPass \in Pass /\ Released(conv) \in Record /\ Closing(conv) \in Record
      /\ \A b \in BOOLEAN : [conv EXCEPT !.runtimePod = b] \in Record
      /\ \A p \in Phases : [conv EXCEPT !.phase = p] \in Record
  BY <1>1, PassUpdates, RecordUpdates
<1>3. WithoutPod \in {"create", "phase"}
  BY DEF WithoutPod
<1>4. CASE RecReapUnstarted
  <2>1. conv' \in Record
    BY <1>2, <1>4 DEF RecReapUnstarted
  <2>2. rec' \in Pass
    BY <1>1, <1>2, <1>3, <1>4, <2>1, PassUpdates DEF RecReapUnstarted
  <2> QED BY <1>4, <2>1, <2>2 DEF RecReapUnstarted, Typed, TypeOK
<1>5. CASE RecReap
  <2>1. conv' \in Record
    BY <1>1, <1>2, <1>5 DEF RecReap
  <2>2. rec' \in Pass
    <3>1. CASE HoldsRun(rec.loc)
      <4>1. rec' = [rec EXCEPT !.pc = WithoutPod, !.loc = View(conv')]
        BY <1>5, <3>1 DEF RecReap
      <4> QED BY <1>1, <1>3, <2>1, <4>1, PassUpdates
    <3>2. CASE ~HoldsRun(rec.loc)
      <4>1. rec' = [rec EXCEPT !.pc = WithoutPod, !.loc = rec.loc]
        BY <1>5, <3>2 DEF RecReap
      <4> QED BY <1>1, <1>3, <4>1 DEF Pass
    <3> QED BY <3>1, <3>2
  <2> QED BY <1>5, <2>1, <2>2 DEF RecReap, Typed, TypeOK
<1>6. CASE RecReleaseForDrain
  <2>1. PodTyped'
    BY <1>1, <1>6, DeletePodTyped DEF RecReleaseForDrain
  <2>2. conv' \in Record
    BY <1>1, <1>2, <1>6 DEF RecReleaseForDrain
  <2> DEFINE loc == IF rec.loc.bound THEN View(conv') ELSE rec.loc
  <2>3. loc \in Copy
    BY <1>1, <2>2, RecordUpdates DEF Pass
  <2>4. rec' = [rec EXCEPT !.pc = "phase", !.podExists = FALSE, !.loc = loc]
    BY <1>6 DEF RecReleaseForDrain
  <2> HIDE DEF loc
  <2>5. rec' \in Pass
    BY <1>1, <2>3, <2>4 DEF Pass
  <2> QED BY <1>6, <2>1, <2>2, <2>5 DEF RecReleaseForDrain, Typed, TypeOK, PodTyped
<1>7. CASE RecEnterPending
  <2>1. "Pending" \in Phases
    BY DEF Phases
  <2> QED BY <1>1, <1>2, <1>7, <2>1 DEF RecEnterPending, Typed, TypeOK
<1>8. ASSUME NEW p \in Pods, RecCreatePod(p) PROVE Typed'
  <2>1. [of |-> p, st |-> "starting", dying |-> FALSE] \in PodObject
    BY DEF PodObject
  <2>2. PodTyped'
    BY <1>1, <1>8, <2>1, PodBecomesTyped DEF RecCreatePod, PodTyped
  <2>3. rec' \in Pass
    BY <1>1, <1>8, PassUpdates DEF RecCreatePod
  <2> QED BY <1>8, <2>2, <2>3 DEF RecCreatePod, Typed, TypeOK, PodTyped
<1>9. CASE RecBindPod
  <2>1. conv' \in Record
    BY <1>2, <1>9 DEF RecBindPod
  <2>2. rec' \in Pass
    BY <1>1, <1>9, <2>1, PassUpdates DEF RecBindPod
  <2> QED BY <1>9, <2>1, <2>2 DEF RecBindPod, Typed, TypeOK
<1>10. CASE RecSetPhase
  <2>1. PhaseOf(rec.loc.busy, rec.pending) \in Phases
    BY DEF PhaseOf, Phases
  <2>2. conv' \in Record
    BY <1>1, <1>2, <1>10, <2>1 DEF RecSetPhase
  <2>3. rec' \in Pass
    BY <1>1, <1>2, <1>10, PassUpdates DEF RecSetPhase
  <2> QED BY <1>10, <2>2, <2>3 DEF RecSetPhase, Typed, TypeOK
<1>11. CASE RecAutoClose
  BY <1>2, <1>11 DEF RecAutoClose, Typed, TypeOK
<1> QED BY <1>4, <1>5, <1>6, <1>7, <1>8, <1>9, <1>10, <1>11

LEMMA NextTyped == Typed /\ [Next]_vars => Typed'
<1> SUFFICES ASSUME Typed, [Next]_vars PROVE Typed'
  OBVIOUS
<1> USE DEF podVars, chatVars, history
<1>1. CASE Reconcile
  BY <1>1, PassOpeningTyped, PassClosingTyped DEF Reconcile
<1>2. CASE CacheSync
  BY <1>2 DEF CacheSync, Typed, TypeOK
<1>3. CASE ManagerRestarts
  <2>1. rec' \in Pass /\ NoReport \in Handler /\ faults' \in Nat
    BY <1>3, PassUpdates, NothingTyped, FaultTyped
       DEF ManagerRestarts, Typed, TypeOK, NoReport, Handler, Phases
  <2> QED BY <1>3, <2>1 DEF ManagerRestarts, Typed, TypeOK
<1>4. CASE UNCHANGED vars
  BY <1>4 DEF vars, Typed, TypeOK
<1> QED BY <1>1, <1>2, <1>3, <1>4, ChatTyped, RuntimeTyped, WorkDoneTyped DEF Next

LEMMA AlwaysTyped == Spec => []Typed
BY InitTyped, NextTyped, PTL DEF Spec

\* Every variable of a conversation stays inside the shape the code gives it,
\* for any inputs, pods, handlers and bounds.
THEOREM TypeCorrect == Spec => []TypeOK
<1>1. Typed => TypeOK
  BY DEF Typed
<1> QED BY <1>1, AlwaysTyped, PTL


-----------------------------------------------------------------------------
(* Inputs are answered in order.  The reason is in dispatch: what a unit     *)
(* leaves behind it is answered already, and stays so, because an input      *)
(* leaves the queue only when it has been marked.                           *)

OrderInv ==
  /\ conv.inputs \subseteq 1..(next - 1)
  /\ \A i \in 1..(next - 1) : i \in conv.inputs \/ i \in answered
  /\ Elems(conv.processed) \subseteq answered
  /\ rec.done \subseteq answered
  /\ \A i \in Elems(conv.inflight.ids), j \in Inputs :
       j < i => j \in answered \/ j \in Elems(conv.inflight.ids)
  /\ AnsweredInOrder

\* Two records with the same queue, but for a run that may have been dropped.
SameQueue(c, d) ==
  /\ d.inputs = c.inputs /\ d.processed = c.processed
  /\ d.inflight = c.inflight \/ d.inflight = Nothing

\* A step that neither takes in, hands out, marks nor prunes an input.
Quiet ==
  /\ next' = next /\ answered' = answered
  /\ SameQueue(conv, conv')
  /\ rec'.done = rec.done \/ rec'.done = {}

LEMMA QuietKeepsOrder == ASSUME OrderInv, Quiet PROVE OrderInv'
<1>1. /\ next' = next /\ answered' = answered /\ conv'.inputs = conv.inputs
      /\ conv'.processed = conv.processed
      /\ conv'.inflight = conv.inflight \/ Elems(conv'.inflight.ids) = {}
      /\ rec'.done = rec.done \/ rec'.done = {}
  BY NothingTyped DEF Quiet, SameQueue
<1> QED BY <1>1 DEF OrderInv, AnsweredInOrder

LEMMA SameQueueUpdates ==
  ASSUME NEW c \in Record
  PROVE  /\ SameQueue(c, c) /\ SameQueue(c, Closing(c)) /\ SameQueue(c, Released(c))
         /\ SameQueue(c, [c EXCEPT !.phase = "Idle", !.closedAt = FALSE])
         /\ \A p \in Phases : SameQueue(c, [c EXCEPT !.phase = p])
         /\ \A b \in BOOLEAN : SameQueue(c, [c EXCEPT !.runtimePod = b])
BY DEF Record, SameQueue, Closing, Released

LEMMA InitOrdered == Init => OrderInv
<1> SUFFICES ASSUME Init PROVE OrderInv
  OBVIOUS
<1>1. /\ conv.inputs = {1} /\ conv.processed = <<>> /\ conv.inflight = Nothing
      /\ next = 2 /\ answered = {} /\ rec.done = {}
  BY DEF Init, Fresh, NoPass
<1>2. Elems(conv.processed) = {} /\ Elems(conv.inflight.ids) = {}
  <2>1. Elems(conv.processed) = {}
    BY <1>1 DEF Elems
  <2> QED BY <1>1, <2>1, NothingTyped
<1> QED BY <1>1, <1>2 DEF OrderInv, AnsweredInOrder

LEMMA ChatOrdered == ASSUME Typed, OrderInv, Chat PROVE OrderInv'
<1> USE DEF podVars, chatVars, history
<1>1. conv \in Record /\ next \in Nat
  BY DEF Typed, TypeOK
<1>2. CASE AppendInput
  <2>1. /\ conv'.inputs = conv.inputs \cup {next} /\ conv'.processed = conv.processed
        /\ conv'.inflight = conv.inflight
        /\ next' = next + 1 /\ answered' = answered /\ rec' = rec
    BY <1>1, <1>2 DEF AppendInput, Record
  <2>2. next \in Nat \ {0}
    BY DEF Typed, TypeOK
  <2> QED BY <2>1, <2>2 DEF OrderInv, AnsweredInOrder
<1>3. CASE MessageArrives \/ CloseConversation \/ ReopenConversation \/ ReleaseCheck \/ ReleaseDelete
  <2>1. Quiet
    BY <1>1, <1>3, SameQueueUpdates
       DEF MessageArrives, CloseConversation, ReopenConversation, ReleaseCheck, ReleaseDelete, Quiet
  <2> QED BY <2>1, QuietKeepsOrder
<1> QED BY <1>2, <1>3 DEF Chat

LEMMA RuntimeOrdered == ASSUME Typed, OrderInv, NEW p \in Pods, Runtime(p) PROVE OrderInv'
<1> USE DEF podVars, chatVars, history
<1>1. conv \in Record /\ next \in Nat
  BY DEF Typed, TypeOK
<1>2. CASE TryDispatch(p)
  <2> PICK s \in IdSeqs, resume \in BOOLEAN :
        /\ NextUnit(conv, s)
        /\ conv' = [conv EXCEPT !.inflight = [run |-> [sec |-> clock, resume |-> resume], ids |-> s],
                                !.phase = "Working", !.runtimePod = TRUE]
    BY <1>2 DEF TryDispatch
  <2>1. /\ conv'.inputs = conv.inputs /\ conv'.processed = conv.processed
        /\ conv'.inflight.ids = s
        /\ next' = next /\ answered' = answered /\ rec' = rec /\ conv.inflight = Nothing
    BY <1>1, <1>2 DEF TryDispatch, Record
  <2>2. ASSUME NEW i \in Elems(s), NEW j \in Inputs, j < i PROVE j \in answered \/ j \in Elems(s)
    <3>1. i \in conv.inputs /\ Elems(conv.inflight.ids) = {}
      BY <2>1, NothingTyped DEF NextUnit, PendingInputs
    <3>2. i \in 1..(next - 1) /\ j \in 1..(next - 1)
      BY <1>1, <2>2, <3>1 DEF OrderInv, Inputs
    <3>3. CASE j \in PendingInputs(conv)
      BY <2>2, <3>3 DEF NextUnit
    <3>4. CASE j \notin PendingInputs(conv)
      BY <3>1, <3>2, <3>4 DEF PendingInputs, OrderInv
    <3> QED BY <3>3, <3>4
  <2> QED BY <2>1, <2>2 DEF OrderInv, AnsweredInOrder
<1>3. CASE PodStarts(p) \/ KubeletKills(p) \/ IdleExit(p) \/ RuntimeDies(p) \/ ReportGivenUp(p)
  <2>1. Quiet
    BY <1>1, <1>3, SameQueueUpdates
       DEF PodStarts, KubeletKills, IdleExit, RuntimeDies, ReportGivenUp, Quiet
  <2> QED BY <2>1, QuietKeepsOrder
<1> QED BY <1>2, <1>3 DEF Runtime


LEMMA WorkDoneOrdered ==
  ASSUME Typed, OrderInv, NEW h \in Handlers, WorkDone(h) PROVE OrderInv'
<1> USE DEF podVars, chatVars, history
<1>1. /\ conv \in Record /\ next \in Nat /\ conv.processed \in Seq(Inputs)
      /\ conv.inflight.ids \in Seq(Inputs) /\ hs[h] \in Handler
  BY DEF Typed, TypeOK, Record, Unit
<1>2. CASE ReportMark(h) /\ conv.inflight.run = hs[h].run /\ ~hs[h].hold
  <2> DEFINE ids == conv.inflight.ids
             kept == LastOf(conv.processed \o ids, ProcessedBound)
  <2>1. conv' = [conv EXCEPT !.inflight = Nothing, !.processed = kept]
    BY <1>2 DEF ReportMark, Reported
  <2>2. Elems(kept) \subseteq Elems(conv.processed) \cup Elems(ids)
    <3>1. conv.processed \o ids \in Seq(Inputs)
      BY <1>1
    <3>2. Elems(kept) \subseteq Elems(conv.processed \o ids)
      BY <3>1, LastOfTyped, BoundsAreNaturals
    <3>3. Elems(conv.processed \o ids) \subseteq Elems(conv.processed) \cup Elems(ids)
      BY <1>1, ConcatElems
    <3> QED BY <3>2, <3>3
  <2> HIDE DEF kept
  <2>3. /\ conv'.inputs = conv.inputs /\ conv'.processed = kept /\ Elems(conv'.inflight.ids) = {}
        /\ next' = next /\ answered' = answered \cup Elems(ids) /\ rec' = rec
    BY <1>1, <1>2, <2>1, NothingTyped DEF ReportMark, Record
  <2>4. Elems(ids) \subseteq Inputs
    BY <1>1, ElemsTyped
  <2>5. AnsweredInOrder'
    <3> SUFFICES ASSUME NEW j \in answered \cup Elems(ids), NEW i \in 1..j
                 PROVE  i \in answered \cup Elems(ids)
      BY <2>3 DEF AnsweredInOrder
    <3>1. CASE j \in answered
      BY <3>1 DEF OrderInv, AnsweredInOrder
    <3>2. CASE j \in Elems(ids)
      <4>1. i \in Inputs /\ (i < j \/ i = j)
        BY <2>4, <3>2, BoundsAreNaturals DEF Inputs
      <4> QED BY <3>2, <4>1 DEF OrderInv
    <3> QED BY <3>1, <3>2
  <2> QED BY <2>2, <2>3, <2>5 DEF OrderInv
<1>3. CASE ~(ReportMark(h) /\ conv.inflight.run = hs[h].run /\ ~hs[h].hold)
  <2>1. SameQueue(conv, Reported(conv, h)) \/ (conv.inflight.run = hs[h].run /\ ~hs[h].hold)
    BY <1>1 DEF SameQueue, Reported, Record
  <2>2. SameQueue(conv, SetPhaseUnlessClosed(conv, hs[h].desired))
    BY <1>1, SameQueueUpdates DEF SetPhaseUnlessClosed, Handler
  <2>3. CASE ReportMark(h)
    <3>1. Quiet
      BY <1>3, <2>1, <2>3 DEF ReportMark, Quiet
    <3> QED BY <3>1, QuietKeepsOrder
  <2>4. CASE ~ReportMark(h)
    <3>1. Quiet
      BY <1>1, <2>2, <2>4, SameQueueUpdates
         DEF WorkDone, ReportGet, ReportListRuns, ReportAppendRun, ReportPhase, Quiet
    <3> QED BY <3>1, QuietKeepsOrder
  <2> QED BY <2>3, <2>4
<1> QED BY <1>2, <1>3

\* What the pass prunes it has seen marked.
LEMMA PruningOrdered == ASSUME Typed, OrderInv, RecBegin \/ RecPrune PROVE OrderInv'
<1> USE DEF podVars, chatVars, history
<1>1. conv \in Record /\ rec \in Pass /\ NoPass \in Pass
  BY PassUpdates DEF Typed, TypeOK
<1>2. CASE RecBegin
  <2>1. /\ conv' = conv /\ next' = next /\ answered' = answered
        /\ rec'.done = conv.inputs \cap Elems(conv.processed)
    BY <1>1, <1>2 DEF RecBegin, Pass
  <2> QED BY <2>1 DEF OrderInv, AnsweredInOrder
<1>3. CASE RecPrune
  <2>1. /\ conv'.inputs = conv.inputs \ rec.done /\ conv'.processed = conv.processed
        /\ conv'.inflight = conv.inflight
        /\ next' = next /\ answered' = answered /\ rec'.done = {}
    BY <1>1, <1>3 DEF RecPrune, Record, Pass
  <2> QED BY <2>1 DEF OrderInv, AnsweredInOrder
<1> QED BY <1>2, <1>3

\* The rest of the pass leaves the queue alone.
LEMMA PassQuiet ==
  ASSUME Typed, Reconcile, ~RecBegin, ~RecPrune PROVE Quiet
<1> USE DEF podVars, chatVars, history
<1>1. conv \in Record /\ rec \in Pass /\ NoPass.done = {}
  BY DEF Typed, TypeOK, NoPass
<1>2. CASE RecReleaseWorkload \/ RecForgetRun \/ RecReapUnstarted \/ RecReap
  BY <1>1, <1>2, SameQueueUpdates
     DEF RecReleaseWorkload, RecForgetRun, RecReapUnstarted, RecReap, Quiet, Pass
<1>3. ASSUME NEW overdue \in BOOLEAN, RecReadPod(overdue) PROVE Quiet
  <2>1. rec'.done = rec.done
    BY <1>1, <1>3 DEF RecReadPod, Pass
  <2> QED BY <1>1, <1>3, <2>1, SameQueueUpdates DEF RecReadPod, Quiet
<1>4. CASE RecReleaseForDrain \/ RecBindPod
  BY <1>1, <1>4, SameQueueUpdates DEF RecReleaseForDrain, RecBindPod, Quiet, Pass
<1>5. CASE RecEnterPending \/ RecAutoClose
  BY <1>1, <1>5, SameQueueUpdates DEF RecEnterPending, RecAutoClose, Quiet, Phases
<1>6. ASSUME NEW p \in Pods, RecCreatePod(p) PROVE Quiet
  BY <1>1, <1>6, SameQueueUpdates DEF RecCreatePod, Quiet, Pass
<1>7. CASE RecSetPhase
  <2>1. PhaseOf(rec.loc.busy, rec.pending) \in Phases
    BY DEF PhaseOf, Phases
  <2> QED BY <1>1, <1>7, <2>1, SameQueueUpdates DEF RecSetPhase, Quiet, Pass
<1> QED BY <1>2, <1>3, <1>4, <1>5, <1>6, <1>7 DEF Reconcile

LEMMA NextOrdered == Typed /\ OrderInv /\ [Next]_vars => OrderInv'
<1> SUFFICES ASSUME Typed, OrderInv, [Next]_vars PROVE OrderInv'
  OBVIOUS
<1> USE DEF podVars, chatVars, history
<1>1. conv \in Record
  BY DEF Typed, TypeOK
<1>2. CASE Reconcile
  BY <1>2, PruningOrdered, PassQuiet, QuietKeepsOrder
<1>3. CASE CacheSync \/ ManagerRestarts \/ UNCHANGED vars
  <2>1. rec' = rec \/ rec' = NoPass
    BY <1>3 DEF CacheSync, ManagerRestarts, vars
  <2>2. rec'.done = rec.done \/ rec'.done = {}
    BY <2>1 DEF NoPass
  <2>3. conv' = conv /\ next' = next /\ answered' = answered
    BY <1>3 DEF CacheSync, ManagerRestarts, vars
  <2>4. Quiet
    BY <1>1, <2>2, <2>3, SameQueueUpdates DEF Quiet
  <2> QED BY <2>4, QuietKeepsOrder
<1> QED BY <1>2, <1>3, ChatOrdered, RuntimeOrdered, WorkDoneOrdered DEF Next

\* Inputs are answered in the order they arrived, whatever dies, is retried,
\* held or pruned on the way, and however small the list of processed ids is
\* (Next, handleWorkDone, pruneProcessed).
THEOREM AnswersInOrder == Spec => []AnsweredInOrder
<1>1. OrderInv => AnsweredInOrder
  BY DEF OrderInv
<1> QED BY <1>1, InitOrdered, NextOrdered, AlwaysTyped, PTL DEF Spec

-----------------------------------------------------------------------------
(* Closed and late reports. *)

\* A work report, however late and however many are served at once, never moves
\* a conversation out of Closed (handleWorkDone, setPhaseUnlessClosed).
THEOREM ReportsKeepClosed == Spec => ReportKeepsClosed
<1> DEFINE Keeps == hs' # hs /\ conv.phase = "Closed" => conv'.phase = "Closed"
<1>1. ASSUME Typed, [Next]_vars PROVE [Keeps]_vars
  <2> SUFFICES ASSUME Next, hs' # hs, conv.phase = "Closed" PROVE conv'.phase = "Closed"
    BY <1>1
  <2> USE DEF podVars, chatVars, history
  <2>1. conv \in Record
    BY <1>1 DEF Typed, TypeOK
  <2>2. ASSUME NEW h \in Handlers, WorkDone(h) PROVE conv'.phase = "Closed"
    <3>1. Reported(conv, h).phase = "Closed"
      BY <2>1 DEF Reported, Record
    <3> QED BY <2>1, <2>2, <3>1
            DEF WorkDone, ReportGet, ReportListRuns, ReportAppendRun, ReportMark, ReportPhase,
                SetPhaseUnlessClosed
  <2>3. CASE ManagerRestarts
    BY <2>3 DEF ManagerRestarts
  <2>4. ASSUME NEW p \in Pods, Runtime(p) PROVE hs' = hs
    BY <2>4 DEF Runtime, PodStarts, KubeletKills, IdleExit, RuntimeDies, TryDispatch, ReportGivenUp
  <2>5. CASE Chat \/ CacheSync
    BY <2>5 DEF Chat, MessageArrives, AppendInput, CloseConversation, ReopenConversation,
                ReleaseCheck, ReleaseDelete, CacheSync
  <2>6. CASE Reconcile
    BY <2>6 DEF Reconcile, RecBegin, RecReleaseWorkload, RecForgetRun, RecPrune, RecReadPod,
                RecReapUnstarted, RecReap, RecReleaseForDrain, RecEnterPending, RecCreatePod,
                RecBindPod, RecSetPhase, RecAutoClose
  <2> QED BY <2>2, <2>3, <2>4, <2>5, <2>6 DEF Next
<1> QED BY <1>1, AlwaysTyped, PTL DEF Spec, ReportKeepsClosed

-----------------------------------------------------------------------------
(* A run is recorded once. *)

\* What is left of a sequence is its end.
LEMMA LastOfEnd ==
  ASSUME NEW S, NEW s \in Seq(S), NEW n \in Nat
  PROVE  \E d \in Nat :
           /\ d <= Len(s) /\ Len(LastOf(s, n)) = Len(s) - d /\ (d > 0 => Len(LastOf(s, n)) = n)
           /\ DOMAIN LastOf(s, n) = 1..(Len(s) - d)
           /\ \A k \in DOMAIN LastOf(s, n) : d + k \in DOMAIN s /\ LastOf(s, n)[k] = s[d + k]
<1>1. CASE Len(s) <= n
  <2>1. LastOf(s, n) = s /\ 0 <= Len(s)
    BY <1>1 DEF LastOf
  <2> WITNESS 0 \in Nat
  <2> QED BY <2>1
<1>2. CASE ~(Len(s) <= n)
  <2> DEFINE d == Len(s) - n
  <2>1. d \in Nat /\ d <= Len(s) /\ d > 0 /\ Len(s) \in Nat
    BY <1>2
  <2>2. LastOf(s, n) = SubSeq(s, d + 1, Len(s))
    BY <1>2 DEF LastOf
  <2>3. Len(LastOf(s, n)) = n /\ DOMAIN LastOf(s, n) = 1..n
    BY <2>1, <2>2
  <2>4. \A k \in DOMAIN LastOf(s, n) : d + k \in DOMAIN s /\ LastOf(s, n)[k] = s[d + k]
    BY <2>1, <2>2, <2>3
  <2>5. n = Len(s) - d
    BY <2>1
  <2> HIDE DEF d
  <2> QED BY <2>1, <2>3, <2>4, <2>5
<1> QED BY <1>1, <1>2

\* Reports of different runs may be served at once, and one report again and again: no
\* two requests stand between looking for the record of a run and writing it.
OneReportEach ==
  \A h, g \in Handlers :
    hs[h].pc \in {"list", "append"} /\ hs[g].pc \in {"list", "append"} /\ hs[h].run = hs[g].run => h = g

\* Who is about to record a run has found no record of it.
Looked == \A h \in Handlers : hs[h].pc = "append" => ~Recorded(hs[h].run)

LEMMA AppendsOnce ==
  ASSUME Typed, OneReportEach, Looked, RunRecordedOnce, NEW h \in Handlers, ReportAppendRun(h)
  PROVE  Looked' /\ RunRecordedOnce'
<1> DEFINE run == hs[h].run
           s == Append(runs, run)
<1>1. /\ runs \in Seq(RunId) /\ hs[h] \in Handler /\ run \in RunId /\ RunHistory \in Nat /\ hs \in [Handlers -> Handler]
  BY BoundsAreNaturals DEF Typed, TypeOK, Handler
<1>2. s \in Seq(RunId) /\ Len(s) = Len(runs) + 1 /\ Len(runs) \in Nat
      /\ \A k \in DOMAIN s : (k \in DOMAIN runs /\ s[k] = runs[k]) \/ (k = Len(runs) + 1 /\ s[k] = run)
  BY <1>1
<1>3. ~Recorded(run) /\ hs[h].pc = "append" /\ runs' = LastOf(s, RunHistory)
  BY DEF Looked, ReportAppendRun
<1>4. \A j, k \in DOMAIN s : s[j] = s[k] => j = k
  BY <1>2, <1>3 DEF Recorded, RunRecordedOnce
<1> HIDE DEF s, run
<1>5. PICK d \in Nat :
        /\ DOMAIN runs' = 1..(Len(s) - d)
        /\ \A k \in DOMAIN runs' : d + k \in DOMAIN s /\ runs'[k] = s[d + k]
  BY <1>1, <1>2, <1>3, LastOfEnd
<1>6. RunRecordedOnce'
  <2> SUFFICES ASSUME NEW j \in DOMAIN runs', NEW k \in DOMAIN runs', runs'[j] = runs'[k] PROVE j = k
    BY DEF RunRecordedOnce
  <2>1. d + j = d + k
    BY <1>4, <1>5
  <2> QED BY <1>2, <1>5, <2>1
<1>7. \A k \in DOMAIN runs' : runs'[k] = run \/ Recorded(runs'[k])
  BY <1>2, <1>5 DEF Recorded
<1>8. Looked'
  <2> SUFFICES ASSUME NEW g \in Handlers, hs'[g].pc = "append" PROVE ~(\E k \in DOMAIN runs' : runs'[k] = hs'[g].run)
    BY DEF Looked, Recorded
  <2>1. g # h /\ hs'[g] = hs[g]
    BY <1>1 DEF ReportAppendRun, Handler
  <2>2. hs[g].run # run /\ ~Recorded(hs[g].run)
    BY <1>3, <2>1 DEF OneReportEach, Looked, run
  <2> QED BY <1>7, <2>1, <2>2
<1> QED BY <1>6, <1>8

LEMMA LooksFirst ==
  ASSUME Typed, Looked, RunRecordedOnce, [Next]_vars, \A h \in Handlers : ~ReportAppendRun(h)
  PROVE  Looked' /\ RunRecordedOnce'
<1> USE DEF podVars, chatVars, history
<1>1. hs \in [Handlers -> Handler] /\ NoReport.pc = "idle"
  BY DEF Typed, TypeOK, NoReport
<1>2. runs' = runs
  BY DEF Next, Chat, MessageArrives, AppendInput, CloseConversation, ReopenConversation, ReleaseCheck, ReleaseDelete,
         CacheSync, ManagerRestarts, Runtime, PodStarts, KubeletKills, IdleExit, RuntimeDies, TryDispatch, ReportGivenUp,
         WorkDone, ReportGet, ReportListRuns, ReportMark, ReportPhase,
         Reconcile, RecBegin, RecReleaseWorkload, RecForgetRun, RecPrune, RecReadPod, RecReapUnstarted, RecReap,
         RecReleaseForDrain, RecEnterPending, RecCreatePod, RecBindPod, RecSetPhase, RecAutoClose, vars
<1>3. ASSUME NEW g \in Handlers, hs'[g].pc = "append" PROVE ~Recorded(hs'[g].run)
  <2>1. ASSUME NEW h \in Handlers, WorkDone(h) PROVE ~Recorded(hs'[g].run)
    <3>1. g # h => hs'[g] = hs[g]
      BY <1>1, <2>1 DEF WorkDone, ReportGet, ReportListRuns, ReportMark, ReportPhase
    <3>2. g = h => ReportListRuns(h)
      <4>1. hs[h] \in Handler
        BY <1>1
      <4>2. ASSUME NEW p \in Pods, ReportGet(h, p) PROVE hs'[h].pc = "list"
        BY <1>1, <4>2 DEF ReportGet
      <4>3. ReportMark(h) => hs'[h].pc = "phase"
        BY <1>1, <4>1 DEF ReportMark, Handler
      <4>4. ReportPhase(h) => hs'[h].pc = "idle"
        BY <1>1 DEF ReportPhase
      <4> QED BY <1>3, <2>1, <4>2, <4>3, <4>4 DEF WorkDone
    <3>3. CASE g = h
      BY <1>1, <1>3, <3>2, <3>3 DEF ReportListRuns, Handler
    <3> QED BY <1>3, <3>1, <3>3 DEF Looked
  <2>2. CASE ManagerRestarts
    BY <1>1, <1>3, <2>2 DEF ManagerRestarts
  <2>3. CASE ~ManagerRestarts /\ \A h \in Handlers : ~WorkDone(h)
    <3>1. hs' = hs
      BY <2>3
         DEF Next, Chat, MessageArrives, AppendInput, CloseConversation, ReopenConversation, ReleaseCheck, ReleaseDelete,
         CacheSync, Runtime, PodStarts, KubeletKills, IdleExit, RuntimeDies, TryDispatch, ReportGivenUp,
         Reconcile, RecBegin, RecReleaseWorkload, RecForgetRun, RecPrune, RecReadPod, RecReapUnstarted, RecReap,
         RecReleaseForDrain, RecEnterPending, RecCreatePod, RecBindPod, RecSetPhase, RecAutoClose, vars
    <3> QED BY <1>3, <3>1 DEF Looked
  <2> QED BY <2>1, <2>2, <2>3
<1> QED BY <1>2, <1>3 DEF Looked, Recorded, RunRecordedOnce

\* A run has one record, however often its report is retried and whatever falls off the
\* history, as long as its retries do not overtake each other (recordRun).
THEOREM RunsAreRecordedOnce == Spec /\ []OneReportEach => []RunRecordedOnce
<1>1. Init => Looked /\ RunRecordedOnce
  BY DEF Init, Looked, RunRecordedOnce, Recorded, NoReport
<1>2. Typed /\ OneReportEach /\ Looked /\ RunRecordedOnce /\ [Next]_vars => Looked' /\ RunRecordedOnce'
  BY AppendsOnce, LooksFirst
<1> QED BY <1>1, <1>2, AlwaysTyped, PTL DEF Spec

-----------------------------------------------------------------------------
(* Run ids are told apart by the clock, and the pod's run stays in flight.   *)

\* Every run id anybody holds was made before now.
Clocked ==
  /\ clock > 0
  /\ conv.inflight.run.sec < clock
  /\ \A p \in Pods : rt[p].run.sec < clock
  /\ \A h \in Handlers : hs[h].run.sec < clock
  /\ \A k \in DOMAIN runs : runs[k].sec < clock

\* Nobody else holds the run a process is working on, and nobody reports it yet.
Alone ==
  \A p \in Pods : rt[p].st = "busy" =>
    /\ rt[p].run # NoRun
    /\ \A q \in Pods \ {p} : rt[q].run # rt[p].run
    /\ \A h \in Handlers : hs[h].run # rt[p].run

\* A pass that is about to forget the run has deleted the pod.
Gone == rec.pc \in {"unhold", "reap"} => pod = Absent \/ pod.dying

Working == Clocked /\ Alone /\ Gone /\ RunningIsInflight

\* The pod object stays what it is, or goes.
PodKept == pod' \in {pod, Absent} \/ (pod # Absent /\ pod'.of = pod.of /\ (pod.dying => pod'.dying))

\* A step that hands out and takes up no run.
RunsKept ==
  /\ clock' = clock /\ conv'.inflight.run \in {conv.inflight.run, NoRun}
  /\ \A p \in Pods : /\ rt'[p].run \in {rt[p].run, NoRun}
                     /\ rt'[p].st = "busy" => rt'[p] = rt[p]
  /\ \A h \in Handlers : hs'[h].run \in {hs[h].run, NoRun} \cup {rt[p].run : p \in Pods}
  /\ \A k \in DOMAIN runs' : Recorded(runs'[k]) \/ \E h \in Handlers : runs'[k] = hs[h].run

LEMMA KeptClocked == ASSUME Typed, Clocked, RunsKept PROVE Clocked'
BY DEF Clocked, RunsKept, NoRun, Recorded

LEMMA DeletesPod ==
  ASSUME PodTyped, NEW grace, DeletePod(grace)
  PROVE  PodKept /\ (pod' = Absent \/ pod'.dying)
<1>1. CASE pod = Absent
  BY <1>1 DEF DeletePod, PodKept
<1>2. CASE pod # Absent
  <2>1. pod' = Absent \/ pod' = [pod EXCEPT !.dying = TRUE]
    BY <1>2 DEF DeletePod, PodBecomes
  <2>2. [pod EXCEPT !.dying = TRUE].dying /\ [pod EXCEPT !.dying = TRUE].of = pod.of
    BY DEF PodTyped, PodObject
  <2> QED BY <1>2, <2>1, <2>2 DEF PodKept
<1> QED BY <1>1, <1>2

\* What keeps the pod, its runs and its handlers.
LEMMA KeptWorking ==
  ASSUME Typed, Working, RunsKept, \A h \in Handlers : hs'[h].run \in {hs[h].run, NoRun},
         PodKept, rec' = rec \/ rec'.pc \notin {"unhold", "reap"} \/ pod' = Absent \/ pod'.dying,
         conv'.inflight = conv.inflight \/ (\A p \in Pods : pod'.of = p /\ ~pod'.dying => rt'[p].st # "busy")
  PROVE  Working'
<1>1. Alone'
  <2> SUFFICES ASSUME NEW p \in Pods, rt'[p].st = "busy"
               PROVE  /\ rt'[p].run # NoRun
                      /\ \A q \in Pods \ {p} : rt'[q].run # rt'[p].run
                      /\ \A h \in Handlers : hs'[h].run # rt'[p].run
    BY DEF Alone
  <2>1. rt'[p] = rt[p] /\ rt[p].st = "busy"
    BY DEF RunsKept
  <2>2. /\ rt[p].run # NoRun
        /\ \A q \in Pods \ {p} : rt[q].run # rt[p].run
        /\ \A h \in Handlers : hs[h].run # rt[p].run
    BY <2>1 DEF Working, Alone
  <2> QED BY <2>1, <2>2 DEF RunsKept
<1>2. Gone'
  BY DEF Working, Gone, PodKept
<1>3. RunningIsInflight'
  <2> SUFFICES ASSUME NEW p \in Pods, pod'.of = p, ~pod'.dying, rt'[p].st = "busy"
               PROVE  conv'.inflight.run = rt'[p].run
    BY DEF RunningIsInflight
  <2>1. rt'[p] = rt[p] /\ conv'.inflight = conv.inflight
    BY DEF RunsKept
  <2>2. pod.of = p /\ ~pod.dying
    BY NoPodIsNone DEF PodKept, Absent
  <2> QED BY <2>1, <2>2 DEF Working, RunningIsInflight
<1> QED BY <1>1, <1>2, <1>3, KeptClocked DEF Working

\* Who writes none of the runs.
LEMMA NobodysRuns ==
  ASSUME Typed, UNCHANGED <<runs, clock, rt, hs>>, conv'.inflight.run \in {conv.inflight.run, NoRun}
  PROVE  RunsKept /\ \A h \in Handlers : hs'[h].run \in {hs[h].run, NoRun}
BY DEF RunsKept, Recorded

LEMMA ChatWorking == ASSUME Typed, Working, Chat \/ CacheSync PROVE Working'
<1> USE DEF podVars, chatVars, history
<1>1. UNCHANGED <<runs, clock, rt, hs, rec>>
  BY DEF Chat, MessageArrives, AppendInput, CloseConversation, ReopenConversation, ReleaseCheck, ReleaseDelete, CacheSync
<1>2. conv'.inflight = conv.inflight
  BY DEF Chat, MessageArrives, AppendInput, CloseConversation, ReopenConversation, ReleaseCheck, ReleaseDelete, CacheSync,
         Closing, Typed, TypeOK, Record
<1>3. PodKept
  <2>1. CASE ReleaseDelete
    BY <2>1, DeletesPod DEF ReleaseDelete, Typed, TypeOK, PodTyped
  <2>2. CASE ~ReleaseDelete
    BY <2>2 DEF Chat, MessageArrives, AppendInput, CloseConversation, ReopenConversation, ReleaseCheck, CacheSync, PodKept
  <2> QED BY <2>1, <2>2
<1> QED BY <1>1, <1>2, <1>3, NobodysRuns, KeptWorking

LEMMA DispatchWorking == ASSUME Typed, Working, ~SubSecondRuns, NEW p \in Pods, TryDispatch(p) PROVE Working'
<1> PICK s \in IdSeqs, resume \in BOOLEAN :
      LET run == [sec |-> clock, resume |-> resume] IN
        /\ conv' = [conv EXCEPT !.inflight = [run |-> run, ids |-> s], !.phase = "Working", !.runtimePod = TRUE]
        /\ rt' = [rt EXCEPT ![p] = [st |-> "busy", run |-> run]] \/ rt' = rt
  BY DEF TryDispatch
<1> DEFINE run == [sec |-> clock, resume |-> resume]
<1>1. /\ clock \in Nat /\ clock' = clock + 1 /\ conv.inflight = Nothing /\ conv \in Record /\ rt \in [Pods -> Process]
      /\ UNCHANGED <<runs, pod, hs, rec>> /\ rt[p].st = "idle"
  BY DEF TryDispatch, Typed, TypeOK
<1>2. conv'.inflight.run = run /\ run.sec = clock
  BY <1>1 DEF Record
<1>3. \A q \in Pods : rt[q].run # run /\ rt[q].run.sec < clock
  <2>1. \A q \in Pods : rt[q].run.sec < clock
    BY DEF Working, Clocked
  <2> QED BY <1>1, <1>2, <2>1
<1>4. \A h \in Handlers : hs[h].run # run /\ hs[h].run.sec < clock
  <2>1. \A h \in Handlers : hs[h].run.sec < clock
    BY DEF Working, Clocked
  <2> QED BY <1>1, <1>2, <2>1
<1>5. run # NoRun
  BY <1>2 DEF Working, Clocked, NoRun
<1> HIDE DEF run
<1>6. /\ \A q \in Pods \ {p} : rt'[q] = rt[q]
      /\ rt'[p] = [st |-> "busy", run |-> run] \/ rt'[p] = rt[p]
  BY <1>1 DEF run
<1>7. Clocked'
  <2>1. \A n \in Nat : n < clock => n < clock'
    BY <1>1
  <2>2. \A q \in Pods : rt'[q].run.sec < clock'
    <3>1. \A q \in Pods : rt[q].run.sec \in Nat
      BY <1>1 DEF Process, RunId
    <3> QED BY <1>1, <1>2, <1>3, <1>6, <2>1, <3>1
  <2>3. \A h \in Handlers : hs'[h].run.sec < clock'
    <3>1. \A h \in Handlers : hs[h].run.sec \in Nat
      BY DEF Typed, TypeOK, Handler, RunId
    <3> QED BY <1>1, <1>4, <2>1, <3>1
  <2>4. \A k \in DOMAIN runs' : runs'[k].sec < clock'
    <3>1. \A k \in DOMAIN runs : runs[k].sec \in Nat
      <4>1. runs \in Seq(RunId)
        BY DEF Typed, TypeOK
      <4>2. \A k \in DOMAIN runs : runs[k] \in RunId
        BY <4>1
      <4> QED BY <4>2 DEF RunId
    <3> QED BY <1>1, <2>1, <3>1 DEF Working, Clocked
  <2> QED BY <1>1, <1>2, <2>2, <2>3, <2>4 DEF Clocked
<1>8. Alone'
  BY <1>1, <1>3, <1>4, <1>5, <1>6 DEF Alone, Working
<1>9. Gone'
  BY <1>1 DEF Gone, Working
<1>10. RunningIsInflight'
  <2> SUFFICES ASSUME NEW q \in Pods, pod'.of = q, ~pod'.dying, rt'[q].st = "busy"
               PROVE  conv'.inflight.run = rt'[q].run
    BY DEF RunningIsInflight
  <2>1. rt[q].st # "busy"
    BY <1>1, NothingTyped DEF Working, Alone, RunningIsInflight
  <2> QED BY <1>2, <1>6, <2>1
<1> QED BY <1>7, <1>8, <1>9, <1>10 DEF Working

LEMMA RuntimeWorking == ASSUME Typed, Working, ~SubSecondRuns, NEW p \in Pods, Runtime(p) PROVE Working'
<1> USE DEF podVars, chatVars, history
<1>1. rt \in [Pods -> Process] /\ PodTyped /\ Dead.st = "dead" /\ Dead.run = NoRun
  BY DEF Typed, TypeOK, PodTyped, Dead
<1>2. CASE PodStarts(p) \/ KubeletKills(p) \/ IdleExit(p) \/ RuntimeDies(p) \/ ReportGivenUp(p)
  <2>1. UNCHANGED <<conv, runs, clock, hs, rec>>
    BY <1>2 DEF PodStarts, KubeletKills, IdleExit, RuntimeDies, ReportGivenUp
  <2>2. /\ \A q \in Pods \ {p} : rt'[q] = rt[q]
        /\ rt'[p].st # "busy" /\ rt'[p].run \in {rt[p].run, NoRun}
    BY <1>1, <1>2 DEF PodStarts, KubeletKills, IdleExit, RuntimeDies, ReportGivenUp, Exits, Process
  <2>3. RunsKept
    BY <2>1, <2>2 DEF RunsKept, Recorded
  <2>4. PodKept
    <3>1. Exits(p) => PodKept
      BY <1>1, NoPodIsNone DEF Exits, PodBecomes, PodKept, PodTyped, PodObject, Absent
    <3>2. PodStarts(p) => PodKept
      BY <1>1, NoPodIsNone DEF PodStarts, PodBecomes, PodKept, PodTyped, PodObject, Absent
    <3> QED BY <1>2, <3>1, <3>2 DEF KubeletKills, IdleExit, RuntimeDies, ReportGivenUp, PodBecomes, PodKept
  <2> QED BY <2>1, <2>3, <2>4, KeptWorking
<1> QED BY <1>2, DispatchWorking DEF Runtime

LEMMA ReportWorking == ASSUME Typed, Working, NEW h \in Handlers, WorkDone(h) PROVE Working'
<1> USE DEF podVars, chatVars, history
<1>1. /\ rt \in [Pods -> Process] /\ hs \in [Handlers -> Handler] /\ hs[h] \in Handler /\ conv \in Record
      /\ NoReport.run = NoRun
  BY DEF Typed, TypeOK, NoReport
<1>2. UNCHANGED <<clock, pod, rec>> /\ PodKept
  BY DEF WorkDone, ReportGet, ReportListRuns, ReportAppendRun, ReportMark, ReportPhase, PodKept
<1>3. ASSUME NEW p \in Pods, ReportGet(h, p) PROVE Working'
  <2>1. /\ rt[p].st \in {"busy", "report"} /\ rt'[p].st = "report" /\ rt'[p].run = rt[p].run
        /\ \A q \in Pods \ {p} : rt'[q] = rt[q]
        /\ hs'[h].run = rt[p].run /\ \A g \in Handlers \ {h} : hs'[g] = hs[g]
        /\ UNCHANGED <<conv, runs>>
    BY <1>1, <1>3 DEF ReportGet, Process
  <2>2. Clocked'
    BY <1>2, <2>1 DEF Working, Clocked
  <2>3. Alone'
    BY <2>1 DEF Working, Alone
  <2>4. Gone' /\ RunningIsInflight'
    BY <1>2, <2>1 DEF Working, Gone, RunningIsInflight
  <2> QED BY <2>2, <2>3, <2>4 DEF Working
<1>4. CASE ReportListRuns(h) \/ ReportAppendRun(h)
  <2>1. conv' = conv /\ rt' = rt /\ \A g \in Handlers : hs'[g].run = hs[g].run
    BY <1>1, <1>4 DEF ReportListRuns, ReportAppendRun, Handler
  <2>2. \A k \in DOMAIN runs' : Recorded(runs'[k]) \/ runs'[k] = hs[h].run
    <3>1. CASE ReportListRuns(h)
      BY <3>1 DEF ReportListRuns, Recorded
    <3>2. CASE ReportAppendRun(h)
      <4>1. runs \in Seq(RunId) /\ hs[h].run \in RunId /\ RunHistory \in Nat
        BY <1>1, BoundsAreNaturals DEF Typed, TypeOK, Handler
      <4>2. Elems(runs') \subseteq Elems(Append(runs, hs[h].run))
        <5>1. Append(runs, hs[h].run) \in Seq(RunId)
          BY <4>1
        <5> QED BY <3>2, <4>1, <5>1, LastOfTyped DEF ReportAppendRun
      <4>3. \A r \in Elems(Append(runs, hs[h].run)) : Recorded(r) \/ r = hs[h].run
        BY <4>1 DEF Elems, Recorded
      <4> QED BY <4>2, <4>3 DEF Elems
    <3> QED BY <1>4, <3>1, <3>2
  <2>3. RunsKept
    BY <1>2, <2>1, <2>2 DEF RunsKept
  <2> QED BY <1>2, <2>1, <2>3, KeptWorking
<1>5. CASE ReportMark(h)
  <2>1. rt' = rt /\ runs' = runs /\ \A g \in Handlers : hs'[g].run = hs[g].run
    BY <1>1, <1>5 DEF ReportMark, Handler
  <2>2. conv'.inflight = conv.inflight \/ (conv'.inflight = Nothing /\ conv.inflight.run = hs[h].run)
    BY <1>1, <1>5 DEF ReportMark, Reported, Record
  <2>3. RunsKept
    BY <1>2, <2>1, <2>2, NothingTyped DEF RunsKept, Recorded
  <2>4. conv'.inflight = conv.inflight \/ (\A p \in Pods : pod'.of = p /\ ~pod'.dying => rt'[p].st # "busy")
    BY <1>2, <2>1, <2>2 DEF Working, Alone, RunningIsInflight
  <2> QED BY <1>2, <2>1, <2>3, <2>4, KeptWorking
<1>6. CASE ReportPhase(h)
  <2>1. runs' = runs /\ \A g \in Handlers : hs'[g].run \in {hs[g].run, NoRun}
    BY <1>1, <1>6 DEF ReportPhase
  <2>2. \A p \in Pods : rt'[p] = rt[p] \/ rt'[p] = [st |-> "idle", run |-> NoRun]
    BY <1>1, <1>6 DEF ReportPhase
  <2>3. conv'.inflight = conv.inflight
    BY <1>1, <1>6 DEF ReportPhase, SetPhaseUnlessClosed, Record
  <2>4. RunsKept
    BY <1>2, <2>1, <2>2, <2>3 DEF RunsKept, Recorded
  <2> QED BY <1>2, <2>1, <2>3, <2>4, KeptWorking
<1> QED BY <1>3, <1>4, <1>5, <1>6 DEF WorkDone

LEMMA PassWorking == ASSUME Typed, Working, Reconcile \/ ManagerRestarts PROVE Working'
<1> USE DEF podVars, chatVars, history
<1>1. conv \in Record /\ rec \in Pass /\ PodTyped /\ NoPass.pc = "idle" /\ NoReport.run = NoRun
  BY DEF Typed, TypeOK, PodTyped, NoPass, NoReport
<1>2. CASE ManagerRestarts
  <2>1. UNCHANGED <<conv, runs, clock, rt, pod>> /\ rec'.pc = "idle" /\ \A h \in Handlers : hs'[h].run = NoRun
    BY <1>1, <1>2 DEF ManagerRestarts
  <2> QED BY <2>1, KeptWorking DEF RunsKept, Recorded, PodKept
<1>3. ASSUME Reconcile PROVE UNCHANGED <<runs, clock, rt, hs>>
  BY <1>3 DEF Reconcile, RecBegin, RecReleaseWorkload, RecForgetRun, RecPrune, RecReadPod,
              RecReapUnstarted, RecReap, RecReleaseForDrain, RecEnterPending, RecCreatePod,
              RecBindPod, RecSetPhase, RecAutoClose
<1>4. ASSUME NEW p \in Pods, RecCreatePod(p) PROVE Working'
  <2>1. UNCHANGED <<conv, runs, clock, rt, hs>> /\ rec'.pc \in {"bind", "phase"} /\ RunsKept
    <3>1. UNCHANGED <<conv, runs, clock, rt, hs>> /\ rec'.pc \in {"bind", "phase"}
      BY <1>1, <1>4 DEF RecCreatePod, Pass
    <3> QED BY <3>1, NobodysRuns
  <2>2. pod' = pod \/ (pod'.of = p /\ rt[p].st = "dead")
    BY <1>4 DEF RecCreatePod, PodBecomes
  <2>3. CASE pod' = pod
    BY <2>1, <2>3, KeptWorking DEF PodKept
  <2>4. CASE pod'.of = p /\ rt[p].st = "dead"
    BY <2>1, <2>4 DEF Working, Clocked, Alone, Gone, RunningIsInflight
  <2> QED BY <2>2, <2>3, <2>4
<1>5. CASE RecForgetRun \/ RecReap
  <2>1. /\ pod' = pod /\ rec.pc \in {"unhold", "reap"}
        /\ rec'.pc \notin {"unhold", "reap"} /\ conv'.inflight \in {conv.inflight, Nothing}
    BY <1>1, <1>5 DEF RecForgetRun, RecReap, Released, Record, Pass, WithoutPod
  <2>2. \A p \in Pods : ~(pod.of = p /\ ~pod.dying)
    BY <2>1, NoPodIsNone DEF Working, Gone, Absent
  <2>3. UNCHANGED <<runs, clock, rt, hs>>
    BY <1>3, <1>5 DEF Reconcile
  <2>4. RunsKept
    BY <2>1, <2>3, NobodysRuns, NothingTyped
  <2> QED BY <2>1, <2>2, <2>3, <2>4, KeptWorking DEF PodKept
<1>6. ASSUME Reconcile, conv'.inflight = conv.inflight, PodKept,
             rec'.pc \notin {"unhold", "reap"} \/ pod' = Absent \/ pod'.dying
      PROVE  Working'
  <2>1. RunsKept /\ hs' = hs
    BY <1>3, <1>6, NobodysRuns
  <2> QED BY <1>6, <2>1, KeptWorking
<1>7. CASE RecBegin \/ RecPrune \/ RecReapUnstarted \/ RecEnterPending \/ RecBindPod \/ RecSetPhase \/ RecAutoClose
  <2>1. pod' = pod /\ rec'.pc \notin {"unhold", "reap"}
    <3>1. NoPass \in Pass
      BY <1>1, PassUpdates
    <3> QED BY <1>1, <1>7, <3>1 DEF RecBegin, RecPrune, RecReapUnstarted, RecEnterPending, RecBindPod, RecSetPhase, RecAutoClose, Pass, WithoutPod
  <2>2. conv'.inflight = conv.inflight
    BY <1>1, <1>7 DEF RecBegin, RecPrune, RecReapUnstarted, RecEnterPending, RecBindPod, RecSetPhase, RecAutoClose, Closing, Record
  <2> QED BY <1>6, <1>7, <2>1, <2>2 DEF PodKept, Reconcile
<1>8. CASE RecReleaseWorkload \/ RecReleaseForDrain
  <2>1. DeletePod(FALSE) /\ conv'.inflight = conv.inflight
    BY <1>1, <1>8 DEF RecReleaseWorkload, RecReleaseForDrain, Record
  <2>2. PodKept /\ (pod' = Absent \/ pod'.dying)
    BY <1>1, <2>1, DeletesPod
  <2> QED BY <1>6, <1>8, <2>1, <2>2 DEF Reconcile
<1>9. ASSUME NEW overdue \in BOOLEAN, RecReadPod(overdue) PROVE Working'
  <2>1. conv' = conv /\ Reconcile
    BY <1>9 DEF RecReadPod, Reconcile
  <2>2. CASE \E g \in BOOLEAN : DeletePod(g)
    <3>1. PodKept /\ (pod' = Absent \/ pod'.dying)
      BY <1>1, <2>2, DeletesPod
    <3> QED BY <1>6, <2>1, <3>1
  <2>3. CASE ~(\E g \in BOOLEAN : DeletePod(g))
    <3>1. /\ pod' = pod
          /\ \E pc \in {WithoutPod, "phase", "drain"} : rec' = [rec EXCEPT !.pc = pc, !.podExists = podSeen # Absent]
      BY <1>9, <2>3 DEF RecReadPod
    <3>2. rec'.pc \notin {"unhold", "reap"}
      BY <1>1, <3>1 DEF WithoutPod, Pass
    <3> QED BY <1>6, <2>1, <3>1, <3>2 DEF PodKept
  <2> QED BY <2>2, <2>3
<1> QED BY <1>2, <1>4, <1>5, <1>7, <1>8, <1>9 DEF Reconcile

LEMMA InitWorking == Init => Working
<1> SUFFICES ASSUME Init PROVE Working
  OBVIOUS
<1>1. /\ conv.inflight = Nothing /\ rec.pc = "idle" /\ clock = 1 /\ runs = <<>>
      /\ \A p \in Pods : rt[p].st = "dead" /\ rt[p].run = NoRun
      /\ \A h \in Handlers : hs[h].run = NoRun
  BY DEF Init, Fresh, NoPass, Dead, NoReport
<1>2. NoRun.sec = 0 /\ conv.inflight.run = NoRun
  BY <1>1, NothingTyped DEF NoRun
<1> QED BY <1>1, <1>2 DEF Working, Clocked, Alone, Gone, RunningIsInflight

LEMMA NextWorking == ASSUME Typed, Working, ~SubSecondRuns, [Next]_vars PROVE Working'
<1>1. CASE UNCHANGED vars
  BY <1>1 DEF vars, podVars, chatVars, history, Working, Clocked, Alone, Gone, RunningIsInflight
<1> QED BY <1>1, ChatWorking, RuntimeWorking, ReportWorking, PassWorking DEF Next

\* While the conversation's pod works on a run, that run is the one in flight, so nobody is
\* handed its inputs a second time: whatever the cache shows, the pass has read and the
\* faults do, if no two units are dispatched within one second (Reconcile, tryDispatch).
THEOREM RunsStayInflight == ASSUME ~SubSecondRuns PROVE Spec => []RunningIsInflight
<1>1. Typed /\ Working /\ [Next]_vars => Working'
  BY NextWorking
<1>2. Working => RunningIsInflight
  BY DEF Working
<1> QED BY <1>1, <1>2, InitWorking, AlwaysTyped, PTL DEF Spec

-----------------------------------------------------------------------------
(* Nothing said is lost. *)

\* Whoever is about to mark the run in flight has its inputs in hand or on record.
Captured ==
  /\ \A h \in Handlers :
       /\ ~hs[h].hold
       /\ hs[h].pc \in {"list", "append"} /\ hs[h].run = conv.inflight.run =>
            Elems(conv.inflight.ids) \subseteq hs[h].captured
       /\ hs[h].pc = "mark" /\ hs[h].run = conv.inflight.run => Elems(conv.inflight.ids) \subseteq recorded
  /\ Recorded(conv.inflight.run) => Elems(conv.inflight.ids) \subseteq recorded
  /\ answered \subseteq recorded

\* A step that neither hands out nor reports.
LEMMA KeptCaptured ==
  ASSUME Captured, UNCHANGED <<runs, history>>, conv'.inflight \in {conv.inflight, Nothing},
         \A h \in Handlers : hs'[h] \in {hs[h], NoReport}
  PROVE  Captured'
<1>1. Elems(Nothing.ids) = {} /\ NoReport.pc = "idle" /\ ~NoReport.hold
  BY NothingTyped DEF NoReport
<1> QED BY <1>1 DEF Captured, Recorded, history

LEMMA DispatchCaptured == ASSUME Typed, Working, Captured, NEW p \in Pods, TryDispatch(p) PROVE Captured'
<1> USE DEF podVars, chatVars, history
<1> PICK s \in IdSeqs, resume \in BOOLEAN :
      conv' = [conv EXCEPT !.inflight = [run |-> [sec |-> clock, resume |-> resume], ids |-> s],
                           !.phase = "Working", !.runtimePod = TRUE]
  BY DEF TryDispatch
<1>1. clock \in Nat /\ conv \in Record /\ UNCHANGED <<runs, hs, recorded, answered>>
  BY DEF TryDispatch, Typed, TypeOK
<1>2. conv'.inflight.run.sec = clock
  BY <1>1 DEF Record
<1>3. \A h \in Handlers : hs[h].run.sec < clock
  BY DEF Working, Clocked
<1>4. \A k \in DOMAIN runs : runs[k].sec < clock
  BY DEF Working, Clocked
<1>5. ~Recorded(conv'.inflight.run)
  BY <1>1, <1>2, <1>4 DEF Recorded
<1>6. \A h \in Handlers : hs[h].run # conv'.inflight.run
  BY <1>1, <1>2, <1>3
<1> QED BY <1>1, <1>5, <1>6 DEF Captured, Recorded

LEMMA ReportCaptured == ASSUME Typed, Captured, ~Outage, NEW h \in Handlers, WorkDone(h) PROVE Captured'
<1> USE DEF podVars, chatVars, history
<1>1. hs \in [Handlers -> Handler] /\ hs[h] \in Handler /\ conv \in Record
  BY DEF Typed, TypeOK
<1>2. ASSUME NEW p \in Pods, ReportGet(h, p) PROVE Captured'
  <2>1. /\ UNCHANGED <<conv, runs, recorded, answered>> /\ \A g \in Handlers \ {h} : hs'[g] = hs[g]
        /\ hs'[h].pc = "list" /\ ~hs'[h].hold /\ hs'[h].run = rt[p].run
        /\ conv.inflight.run = rt[p].run => hs'[h].captured = Elems(conv.inflight.ids)
    BY <1>1, <1>2 DEF ReportGet
  <2> QED BY <2>1 DEF Captured, Recorded
<1>3. CASE ReportListRuns(h)
  <2>1. /\ UNCHANGED <<conv, runs, recorded, answered>> /\ \A g \in Handlers \ {h} : hs'[g] = hs[g]
        /\ hs'[h].pc = IF Recorded(hs[h].run) THEN "mark" ELSE "append"
        /\ hs'[h].hold = hs[h].hold /\ hs'[h].run = hs[h].run /\ hs'[h].captured = hs[h].captured /\ hs[h].pc = "list"
    BY <1>1, <1>3 DEF ReportListRuns, Handler
  <2> QED BY <2>1 DEF Captured, Recorded
<1>4. CASE ReportAppendRun(h)
  <2>1. /\ UNCHANGED <<conv, answered>> /\ \A g \in Handlers \ {h} : hs'[g] = hs[g]
        /\ hs'[h].pc = "mark" /\ hs'[h].hold = hs[h].hold /\ hs'[h].run = hs[h].run /\ hs[h].pc = "append"
        /\ recorded' = recorded \cup hs[h].captured
    BY <1>1, <1>4 DEF ReportAppendRun, Handler
  <2>2. \A k \in DOMAIN runs' : Recorded(runs'[k]) \/ runs'[k] = hs[h].run
    <3>1. runs \in Seq(RunId) /\ hs[h].run \in RunId /\ RunHistory \in Nat
      BY <1>1, BoundsAreNaturals DEF Typed, TypeOK, Handler
    <3>2. Append(runs, hs[h].run) \in Seq(RunId)
      BY <3>1
    <3>3. Elems(runs') \subseteq Elems(Append(runs, hs[h].run))
      BY <1>4, <3>1, <3>2, LastOfTyped DEF ReportAppendRun
    <3>4. \A r \in Elems(Append(runs, hs[h].run)) : Recorded(r) \/ r = hs[h].run
      BY <3>1 DEF Elems, Recorded
    <3> QED BY <3>3, <3>4 DEF Elems
  <2>3. (\E k \in DOMAIN runs' : runs'[k] = conv.inflight.run) => Elems(conv.inflight.ids) \subseteq recorded'
    BY <2>1, <2>2 DEF Captured
  <2> QED BY <2>1, <2>3 DEF Captured, Recorded
<1>5. CASE ReportMark(h)
  <2>1. /\ UNCHANGED <<runs, recorded>> /\ \A g \in Handlers \ {h} : hs'[g] = hs[g]
        /\ hs'[h].pc = "phase" /\ hs'[h].hold = hs[h].hold /\ hs[h].pc = "mark" /\ ~hs[h].hold
    BY <1>1, <1>5 DEF ReportMark, Handler, Captured
  <2>2. CASE conv.inflight.run = hs[h].run
    <3>1. conv'.inflight = Nothing /\ answered' = answered \cup Elems(conv.inflight.ids)
      BY <1>1, <1>5, <2>1, <2>2 DEF ReportMark, Reported, Record
    <3> QED BY <2>1, <2>2, <3>1, NothingTyped DEF Captured, Recorded
  <2>3. CASE conv.inflight.run # hs[h].run
    <3>1. conv' = conv /\ answered' = answered
      BY <1>5, <2>3 DEF ReportMark, Reported
    <3> QED BY <2>1, <3>1 DEF Captured, Recorded
  <2> QED BY <2>2, <2>3
<1>6. CASE ReportPhase(h)
  <2>1. UNCHANGED <<runs, history>> /\ \A g \in Handlers : hs'[g] \in {hs[g], NoReport}
    BY <1>1, <1>6 DEF ReportPhase
  <2>2. conv'.inflight = conv.inflight
    BY <1>1, <1>6 DEF ReportPhase, SetPhaseUnlessClosed, Record
  <2> QED BY <2>1, <2>2, KeptCaptured
<1> QED BY <1>2, <1>3, <1>4, <1>5, <1>6 DEF WorkDone

LEMMA NextCaptured == ASSUME Typed, Working, Captured, ~Outage, [Next]_vars PROVE Captured'
<1> USE DEF podVars, chatVars, history
<1>1. conv \in Record
  BY DEF Typed, TypeOK
<1>2. CASE Chat \/ CacheSync \/ Reconcile \/ ManagerRestarts \/ UNCHANGED vars
  <2>1. UNCHANGED <<runs, history>> /\ \A h \in Handlers : hs'[h] \in {hs[h], NoReport}
    BY <1>2
       DEF Chat, MessageArrives, AppendInput, CloseConversation, ReopenConversation, ReleaseCheck, ReleaseDelete,
           CacheSync, ManagerRestarts, Reconcile, RecBegin, RecReleaseWorkload, RecForgetRun, RecPrune, RecReadPod,
           RecReapUnstarted, RecReap, RecReleaseForDrain, RecEnterPending, RecCreatePod, RecBindPod, RecSetPhase,
           RecAutoClose, vars
  <2>2. conv'.inflight \in {conv.inflight, Nothing}
    BY <1>1, <1>2
       DEF Chat, MessageArrives, AppendInput, CloseConversation, ReopenConversation, ReleaseCheck, ReleaseDelete,
           CacheSync, ManagerRestarts, Reconcile, RecBegin, RecReleaseWorkload, RecForgetRun, RecPrune, RecReadPod,
           RecReapUnstarted, RecReap, RecReleaseForDrain, RecEnterPending, RecCreatePod, RecBindPod, RecSetPhase,
           RecAutoClose, vars, Closing, Released, Record
  <2> QED BY <2>1, <2>2, KeptCaptured
<1>3. ASSUME NEW p \in Pods, Runtime(p), ~TryDispatch(p) PROVE Captured'
  <2>1. UNCHANGED <<conv, runs, hs, history>>
    BY <1>3 DEF Runtime, PodStarts, KubeletKills, IdleExit, RuntimeDies, ReportGivenUp
  <2> QED BY <2>1, KeptCaptured
<1> QED BY <1>2, <1>3, DispatchCaptured, ReportCaptured DEF Next, Runtime

\* What somebody said is queued until a recorded run carries it, whatever the report handler,
\* the pass and the faults do in between, if no storage outage holds a reported run and no
\* two units are dispatched within one second (handleWorkDone, pruneProcessed).
THEOREM NothingSaidIsLost == ASSUME ~SubSecondRuns, ~Outage PROVE Spec => []RecordedBeforePruned
<1>1. Init => Captured
  BY NothingTyped DEF Init, Captured, Recorded, NoReport, Fresh
<1>2. Typed /\ Working /\ Captured /\ [Next]_vars => Captured'
  BY NextCaptured
<1>3. Typed /\ Working /\ [Next]_vars => Working'
  BY NextWorking
<1>4. OrderInv /\ Captured => RecordedBeforePruned
  BY DEF OrderInv, Captured, RecordedBeforePruned
<1> QED BY <1>1, <1>2, <1>3, <1>4, InitWorking, InitOrdered, NextOrdered, AlwaysTyped, PTL DEF Spec

-----------------------------------------------------------------------------
(* Answered work does not run twice.  What was answered is 1..m and what is  *)
(* queued b+1..next-1; the list of processed ids is the end of 1..m, and     *)
(* reaches back to b as long as the queue is no longer than the list.        *)

LEMMA NatInd ==
  ASSUME NEW T, 0 \in T, \A n \in Nat : n \in T => n + 1 \in T
  PROVE  Nat \subseteq T
<1> DEFINE Bad == Nat \ T
<1> SUFFICES ASSUME Bad # {} PROVE FALSE
  OBVIOUS
<1>1. PICK x \in Bad : \A y \in Bad : ~(<<y, x>> \in OpToRel(<, Nat))
  <2>1. Bad \subseteq Nat
    OBVIOUS
  <2> HIDE DEF Bad
  <2> QED BY <2>1, WFMin, NatLessThanWellFounded
<1>2. x \in Nat /\ x # 0 /\ x - 1 \in Nat /\ (x - 1) + 1 = x
  OBVIOUS
<1>3. x - 1 \notin T
  BY <1>2
<1>4. <<x - 1, x>> \in OpToRel(<, Nat)
  BY <1>2 DEF OpToRel
<1> QED BY <1>1, <1>2, <1>3, <1>4

\* An increasing sequence increases from any place to any later one.
LEMMA Ascends ==
  ASSUME NEW s \in Seq(Nat), Increasing(s)
  PROVE  \A j, k \in DOMAIN s : j < k => s[j] < s[k]
<1> DEFINE T == {n \in Nat : \A j, k \in DOMAIN s : j < k /\ k <= n => s[j] < s[k]}
<1>1. DOMAIN s = 1..Len(s) /\ Len(s) \in Nat /\ \A k \in DOMAIN s : s[k] \in Nat
  OBVIOUS
<1>2. 0 \in T
  BY <1>1
<1>3. ASSUME NEW n \in Nat, n \in T PROVE n + 1 \in T
  <2> SUFFICES ASSUME NEW j \in DOMAIN s, NEW k \in DOMAIN s, j < k, k <= n + 1 PROVE s[j] < s[k]
    OBVIOUS
  <2>1. CASE k <= n
    BY <1>3, <2>1
  <2>2. CASE k = n + 1
    <3>1. n \in DOMAIN s /\ n + 1 \in 2..Len(s) /\ (j < n \/ j = n)
      BY <1>1, <2>2
    <3>2. s[n] < s[n + 1]
      <4>1. s[(n + 1) - 1] < s[n + 1]
        BY <3>1 DEF Increasing
      <4>2. (n + 1) - 1 = n
        OBVIOUS
      <4> QED BY <4>1, <4>2
    <3>3. j < n => s[j] < s[n]
      BY <1>3, <3>1
    <3> QED BY <1>1, <2>2, <3>1, <3>2, <3>3
  <2> QED BY <1>1, <2>1, <2>2
<1>4. Nat \subseteq T
  <2> HIDE DEF T
  <2> QED BY <1>2, <1>3, NatInd
<1>5. Len(s) \in T
  BY <1>1, <1>4
<1> QED BY <1>1, <1>5

\* A sequence that increases without leaving out what was there to take counts on.
LEMMA CountsOn ==
  ASSUME NEW s \in Seq(Nat), NEW m \in Nat, NEW n \in Nat, Increasing(s),
         \A k \in DOMAIN s : s[k] \in (m + 1)..n,
         \A i \in Elems(s) : \A j \in (m + 1)..n : j < i => j \in Elems(s)
  PROVE  (\A k \in DOMAIN s : s[k] = m + k) /\ (s # <<>> => m + Len(s) <= n)
<1>1. DOMAIN s = 1..Len(s) /\ Len(s) \in Nat /\ \A k \in DOMAIN s : s[k] \in Nat
  OBVIOUS
<1>2. \A j, k \in DOMAIN s : j < k => s[j] < s[k]
  BY Ascends
<1> DEFINE T == {t \in Nat : t \in DOMAIN s => s[t] = m + t}
<1>3. 0 \in T
  BY <1>1
<1>4. ASSUME NEW t \in Nat, t \in T PROVE t + 1 \in T
  <2> SUFFICES ASSUME t + 1 \in DOMAIN s PROVE s[t + 1] = m + (t + 1)
    OBVIOUS
  <2>1. t = 0 \/ (t \in DOMAIN s /\ s[t] = m + t /\ s[t] < s[t + 1])
    BY <1>1, <1>2, <1>4
  <2>2. s[t + 1] \in Nat /\ s[t + 1] >= m + (t + 1) /\ s[t + 1] <= n
    BY <1>1, <2>1
  <2>3. ASSUME m + (t + 1) < s[t + 1] PROVE FALSE
    <3>1. m + (t + 1) \in (m + 1)..n
      BY <2>2, <2>3
    <3>2. s[t + 1] \in Elems(s)
      BY DEF Elems
    <3>3. m + (t + 1) \in Elems(s)
      BY <2>3, <3>1, <3>2
    <3>4. PICK j \in DOMAIN s : s[j] = m + (t + 1)
      BY <3>3 DEF Elems
    <3>5. j < t + 1
      <4>1. j = t + 1 => FALSE
        BY <2>2, <2>3, <3>4
      <4>2. t + 1 < j => FALSE
        <5>1. t + 1 < j => s[t + 1] < s[j]
          BY <1>2
        <5> QED BY <2>2, <2>3, <3>4, <5>1
      <4> QED BY <1>1, <4>1, <4>2
    <3>6. t # 0 /\ (j < t \/ j = t)
      BY <1>1, <3>5
    <3>7. j < t => s[j] < s[t]
      BY <1>2, <2>1, <3>6
    <3> QED BY <1>1, <2>1, <3>4, <3>6, <3>7
  <2> QED BY <2>2, <2>3
<1>5. Nat \subseteq T
  <2> HIDE DEF T
  <2> QED BY <1>3, <1>4, NatInd
<1>6. \A k \in DOMAIN s : s[k] = m + k
  BY <1>1, <1>5
<1>7. s # <<>> => m + Len(s) <= n
  <2>1. s # <<>> => Len(s) \in DOMAIN s
    BY <1>1
  <2> QED BY <1>1, <1>6, <2>1
<1> QED BY <1>6, <1>7

\* The queue is no longer than the list of processed ids, 50 in the code.
QueueFits == Cardinality(conv.inputs) <= ProcessedBound

Line(m, b) ==
  /\ answered = 1..m /\ conv.inputs = (b + 1)..(next - 1) /\ b <= m /\ m < next
  /\ Len(conv.processed) = IF m <= ProcessedBound THEN m ELSE ProcessedBound
  /\ \A k \in DOMAIN conv.processed : conv.processed[k] = (m - Len(conv.processed)) + k
  /\ \A k \in DOMAIN conv.inflight.ids : conv.inflight.ids[k] = m + k
  /\ m + Len(conv.inflight.ids) < next
  /\ rec.pc = "prune" => \E d \in b..m : rec.done = (b + 1)..d
Lined == \E m, b \in Nat : Line(m, b)

LEMMA SeqOfMore ==
  ASSUME NEW S, NEW T, S \subseteq T
  PROVE  Seq(S) \subseteq Seq(T)
OBVIOUS

LEMMA LineShape ==
  ASSUME Typed
  PROVE  /\ next \in Nat /\ ProcessedBound \in Nat /\ conv \in Record
         /\ conv.processed \in Seq(Nat) /\ conv.processed \in Seq(Inputs)
         /\ Len(conv.processed) \in Nat /\ DOMAIN conv.processed = 1..Len(conv.processed)
         /\ conv.inflight.ids \in Seq(Nat) /\ conv.inflight.ids \in Seq(Inputs)
         /\ Len(conv.inflight.ids) \in Nat /\ DOMAIN conv.inflight.ids = 1..Len(conv.inflight.ids)
         /\ Len(Nothing.ids) = 0 /\ DOMAIN Nothing.ids = {}
<1>1. Inputs \subseteq Nat
  BY DEF Inputs
<1>2. Seq(Inputs) \subseteq Seq(Nat)
  BY <1>1, SeqOfMore
<1>3. next \in Nat /\ ProcessedBound \in Nat /\ conv \in Record /\ conv.processed \in Seq(Inputs) /\ conv.inflight.ids \in Seq(Inputs)
  BY BoundsAreNaturals DEF Typed, TypeOK, Record, Unit
<1> QED BY <1>2, <1>3 DEF Nothing

\* Nothing that is queued and answered has been forgotten.
LEMMA NothingForgotten ==
  ASSUME Typed, QueueFits, NEW m \in Nat, NEW b \in Nat, Line(m, b)
  PROVE  /\ conv.inputs \cap Elems(conv.processed) = (b + 1)..m
         /\ Elems(conv.processed) \subseteq 1..m
<1> DEFINE p == conv.processed
<1>1. /\ next \in Nat /\ ProcessedBound \in Nat /\ Len(p) \in Nat /\ DOMAIN p = 1..Len(p)
  BY LineShape
<1>2. /\ conv.inputs = (b + 1)..(next - 1) /\ b <= m /\ m < next
      /\ Len(p) = IF m <= ProcessedBound THEN m ELSE ProcessedBound
      /\ \A k \in DOMAIN p : p[k] = (m - Len(p)) + k
  BY DEF Line
<1>3. (next - 1) - b <= ProcessedBound
  <2>1. Cardinality((b + 1)..(next - 1)) = IF b + 1 > next - 1 THEN 0 ELSE (next - 1) - (b + 1) + 1
    BY <1>1, FS_Interval
  <2> QED BY <1>1, <1>2, <2>1 DEF QueueFits
<1> HIDE DEF p
<1>4. Elems(p) \subseteq 1..m
  BY <1>1, <1>2 DEF Elems
<1>5. ASSUME NEW i \in (b + 1)..m PROVE i \in Elems(p)
  <2>1. i - (m - Len(p)) \in DOMAIN p
    BY <1>1, <1>2, <1>3
  <2>2. p[i - (m - Len(p))] = i
    BY <1>1, <1>2, <2>1
  <2> QED BY <2>1, <2>2 DEF Elems
<1>6. conv.inputs \cap (1..m) = (b + 1)..m
  BY <1>1, <1>2
<1> QED BY <1>4, <1>5, <1>6 DEF p

\* A step that leaves queue and marks alone.
LEMMA KeptLine ==
  ASSUME Typed, Typed', Lined, next' = next, answered' = answered,
         conv'.inputs = conv.inputs, conv'.processed = conv.processed, conv'.inflight \in {conv.inflight, Nothing},
         rec'.pc = "prune" => rec.pc = "prune" /\ rec'.done = rec.done
  PROVE  Lined'
<1>1. PICK m \in Nat, b \in Nat : Line(m, b)
  BY DEF Lined
<1>2. Len(Nothing.ids) = 0 /\ DOMAIN Nothing.ids = {} /\ next \in Nat
  BY LineShape
<1>3. Line(m, b)'
  BY <1>1, <1>2 DEF Line
<1> QED BY <1>3 DEF Lined

LEMMA LinedInit == Init => Lined
<1> SUFFICES ASSUME Init PROVE Line(0, 0)
  BY DEF Lined
<1>1. conv = [Fresh EXCEPT !.inputs = {1}] /\ next = 2 /\ answered = {} /\ rec.pc = "idle"
  BY DEF Init, NoPass
<1>2. conv.inputs = {1} /\ conv.processed = <<>> /\ conv.inflight = Nothing
  BY <1>1 DEF Fresh
<1>3. Nothing.ids = <<>>
  BY DEF Nothing
<1> QED BY <1>1, <1>2, <1>3, BoundsAreNaturals DEF Line

LEMMA LinedAppend == ASSUME Typed, Lined, AppendInput PROVE Lined'
<1>1. PICK m \in Nat, b \in Nat : Line(m, b)
  BY DEF Lined
<1>2. /\ conv'.inputs = conv.inputs \cup {next} /\ conv'.processed = conv.processed /\ conv'.inflight = conv.inflight
      /\ next' = next + 1 /\ answered' = answered /\ rec' = rec
  BY LineShape DEF AppendInput, history, Record
<1>3. next \in Nat /\ b <= m /\ m < next /\ conv.inputs = (b + 1)..(next - 1) /\ Len(conv.inflight.ids) \in Nat
      /\ m + Len(conv.inflight.ids) < next
  BY <1>1, LineShape DEF Line
<1>4. (b + 1)..(next - 1) \cup {next} = (b + 1)..(next' - 1)
  BY <1>1, <1>2, <1>3
<1>5. m < next' /\ m + Len(conv.inflight.ids) < next'
  BY <1>1, <1>2, <1>3
<1>6. conv'.inputs = (b + 1)..(next' - 1)
  BY <1>2, <1>3, <1>4
<1>7. Line(m, b)'
  BY <1>1, <1>2, <1>3, <1>5, <1>6 DEF Line
<1> QED BY <1>7 DEF Lined

LEMMA LinedDispatch == ASSUME Typed, QueueFits, Lined, NEW p \in Pods, TryDispatch(p) PROVE Lined'
<1>1. PICK m \in Nat, b \in Nat : Line(m, b)
  BY DEF Lined
<1>2. PICK s \in IdSeqs, resume \in BOOLEAN :
        /\ NextUnit(conv, s)
        /\ conv' = [conv EXCEPT !.inflight = [run |-> [sec |-> clock, resume |-> resume], ids |-> s],
                                !.phase = "Working", !.runtimePod = TRUE]
  BY DEF TryDispatch
<1>3. /\ conv'.inputs = conv.inputs /\ conv'.processed = conv.processed /\ conv'.inflight.ids = s
      /\ next' = next /\ answered' = answered /\ rec' = rec /\ conv.inflight = Nothing
  BY <1>2, LineShape DEF TryDispatch, history, Record
<1>4. s \in Seq(Inputs) /\ s \in Seq(Nat) /\ Len(s) \in Nat
  <2>1. s \in Seq(Inputs)
    BY IdSeqsTyped
  <2>2. Seq(Inputs) \subseteq Seq(Nat)
    <3>1. Inputs \subseteq Nat
      BY DEF Inputs
    <3> QED BY <3>1, SeqOfMore
  <2>3. s \in Seq(Nat)
    BY <2>1, <2>2
  <2> QED BY <2>1, <2>3
<1>5. PendingInputs(conv) = (m + 1)..(next - 1)
  <2>1. PendingInputs(conv) = conv.inputs \ ((b + 1)..m)
    <3>1. PendingInputs(conv) = conv.inputs \ (conv.inputs \cap Elems(conv.processed))
      BY <1>3, NothingTyped DEF PendingInputs
    <3> QED BY <1>1, <3>1, NothingForgotten
  <2> QED BY <1>1, <2>1, LineShape DEF Line
<1>6. /\ \A k \in DOMAIN s : s[k] = m + k
      /\ s # <<>> => m + Len(s) <= next - 1
  <2>1. Increasing(s) /\ \A k \in DOMAIN s : s[k] \in (m + 1)..(next - 1)
    BY <1>2, <1>5 DEF NextUnit, Elems
  <2>2. \A i \in Elems(s) : \A j \in (m + 1)..(next - 1) : j < i => j \in Elems(s)
    BY <1>2, <1>5 DEF NextUnit
  <2>3. next - 1 \in Nat
    BY <1>1, LineShape DEF Line
  <2> QED BY <1>4, <2>1, <2>2, <2>3, CountsOn
<1>7. m + Len(s) < next
  BY <1>1, <1>2, <1>4, <1>6, LineShape DEF NextUnit
<1>8. Line(m, b)'
  BY <1>1, <1>3, <1>6, <1>7 DEF Line
<1> QED BY <1>8 DEF Lined

LEMMA LinedMark ==
  ASSUME Typed, Lined, NEW h \in Handlers, ReportMark(h), conv.inflight.run = hs[h].run, ~hs[h].hold
  PROVE  Lined'
<1> DEFINE ids == conv.inflight.ids
           p == conv.processed
           s == p \o ids
           kept == LastOf(s, ProcessedBound)
<1>1. PICK m \in Nat, b \in Nat : Line(m, b)
  BY DEF Lined
<1>2. /\ conv'.inputs = conv.inputs /\ conv'.processed = kept /\ conv'.inflight = Nothing
      /\ next' = next /\ answered' = answered \cup Elems(ids) /\ rec' = rec
  BY LineShape DEF ReportMark, Reported, Record
<1>3. /\ p \in Seq(Nat) /\ ids \in Seq(Nat) /\ Len(p) \in Nat /\ Len(ids) \in Nat /\ next \in Nat /\ ProcessedBound \in Nat
      /\ DOMAIN p = 1..Len(p) /\ DOMAIN ids = 1..Len(ids)
  BY LineShape
<1>4. /\ answered = 1..m /\ conv.inputs = (b + 1)..(next - 1) /\ b <= m
      /\ Len(p) = IF m <= ProcessedBound THEN m ELSE ProcessedBound
      /\ \A k \in DOMAIN p : p[k] = (m - Len(p)) + k
      /\ \A k \in DOMAIN ids : ids[k] = m + k
      /\ m + Len(ids) < next
      /\ rec.pc = "prune" => \E d \in b..m : rec.done = (b + 1)..d
  BY <1>1 DEF Line
<1> HIDE DEF ids, p
<1>5. /\ s \in Seq(Nat) /\ Len(s) = Len(p) + Len(ids)
      /\ \A k \in 1..Len(s) : s[k] = IF k <= Len(p) THEN p[k] ELSE ids[k - Len(p)]
  BY <1>3
<1>n. PICK n \in Nat : n = m + Len(ids)
  BY <1>3
<1>6. \A k \in 1..Len(s) : s[k] = (n - Len(s)) + k
  <2> SUFFICES ASSUME NEW k \in 1..Len(s) PROVE s[k] = (n - Len(s)) + k
    OBVIOUS
  <2> HIDE DEF s
  <2>1. k \in Nat /\ k >= 1 /\ k <= Len(p) + Len(ids) /\ s[k] = IF k <= Len(p) THEN p[k] ELSE ids[k - Len(p)]
    BY <1>3, <1>5
  <2>2. CASE k <= Len(p)
    <3>1. k \in DOMAIN p
      BY <1>3, <2>1, <2>2
    <3>2. p[k] = (m - Len(p)) + k
      BY <1>4, <3>1
    <3> QED BY <1>n, <1>3, <1>5, <2>1, <2>2, <3>2
  <2>3. CASE ~(k <= Len(p))
    <3>1. k - Len(p) \in DOMAIN ids
      BY <1>3, <2>1, <2>3
    <3>2. ids[k - Len(p)] = m + (k - Len(p))
      BY <1>4, <3>1
    <3> QED BY <1>n, <1>3, <1>5, <2>1, <2>3, <3>2
  <2> QED BY <2>2, <2>3
<1> HIDE DEF s
<1>7. PICK d \in Nat :
        /\ d <= Len(s) /\ Len(kept) = Len(s) - d /\ (d > 0 => Len(kept) = ProcessedBound)
        /\ DOMAIN kept = 1..(Len(s) - d)
        /\ \A k \in DOMAIN kept : d + k \in DOMAIN s /\ kept[k] = s[d + k]
  BY <1>3, <1>5, LastOfEnd
<1>8. Len(kept) = IF n <= ProcessedBound THEN n ELSE ProcessedBound
  <2>1. Len(kept) <= ProcessedBound
    <3>1. Len(s) <= ProcessedBound => Len(kept) <= ProcessedBound
      BY <1>3, <1>5, <1>7
    <3>2. ~(Len(s) <= ProcessedBound) => Len(kept) <= ProcessedBound
      <4>1. ~(Len(s) <= ProcessedBound) => kept # s
        BY <1>3, <1>5 DEF LastOf
      <4>2. d = 0 => Len(kept) = Len(s)
        BY <1>5, <1>7
      <4>3. ~(Len(s) <= ProcessedBound) => Len(kept) = ProcessedBound
        BY <1>3, <1>5 DEF LastOf
      <4> QED BY <1>3, <4>3
    <3> QED BY <3>1, <3>2
  <2> QED BY <1>n, <1>3, <1>4, <1>5, <1>7, <2>1
<1>9. \A k \in DOMAIN kept : kept[k] = (n - Len(kept)) + k
  <2> SUFFICES ASSUME NEW k \in DOMAIN kept PROVE kept[k] = (n - Len(kept)) + k
    OBVIOUS
  <2>1. k \in Nat /\ d + k \in 1..Len(s) /\ kept[k] = s[d + k]
    BY <1>3, <1>5, <1>7
  <2> QED BY <1>n, <1>3, <1>5, <1>6, <1>7, <2>1
<1>10. answered' = 1..n
  <2>1. Elems(ids) = (m + 1)..n
    <3>1. Elems(ids) \subseteq (m + 1)..n
      BY <1>n, <1>3, <1>4 DEF Elems
    <3>2. \A i \in (m + 1)..n : i - m \in DOMAIN ids /\ ids[i - m] = i
      <4> SUFFICES ASSUME NEW i \in (m + 1)..n PROVE i - m \in DOMAIN ids /\ ids[i - m] = i
        OBVIOUS
      <4>1. i - m \in DOMAIN ids
        BY <1>n, <1>3
      <4>2. ids[i - m] = m + (i - m)
        BY <1>4, <4>1
      <4> QED BY <1>3, <4>1, <4>2
    <3> QED BY <3>1, <3>2 DEF Elems
  <2> QED BY <1>n, <1>2, <1>3, <1>4, <2>1
<1>11. Line(n, b)'
  <2>1. Len(Nothing.ids) = 0 /\ DOMAIN Nothing.ids = {}
    BY LineShape
  <2>2. b <= n /\ n < next
    BY <1>n, <1>3, <1>4
  <2>3. rec'.pc = "prune" => \E e \in b..n : rec'.done = (b + 1)..e
    BY <1>n, <1>2, <1>3, <1>4
  <2> HIDE DEF kept
  <2> QED BY <1>2, <1>3, <1>4, <1>6, <1>8, <1>9, <1>10, <2>1, <2>2, <2>3 DEF Line
<1> QED BY <1>11 DEF Lined

LEMMA LinedPruning == ASSUME Typed, QueueFits, Lined, RecBegin \/ RecPrune PROVE Lined'
<1>1. PICK m \in Nat, b \in Nat : Line(m, b)
  BY DEF Lined
<1>2. rec \in Pass /\ NoPass \in Pass
  BY PassUpdates, LineShape DEF Typed, TypeOK
<1>3. CASE RecBegin
  <2>1. /\ conv' = conv /\ next' = next /\ answered' = answered
        /\ rec'.done = conv.inputs \cap Elems(conv.processed)
    BY <1>2, <1>3 DEF RecBegin, history, Pass
  <2>2. rec'.done = (b + 1)..m /\ m \in b..m
    BY <1>1, <2>1, NothingForgotten DEF Line
  <2>3. Line(m, b)'
    BY <1>1, <2>1, <2>2 DEF Line
  <2> QED BY <2>3 DEF Lined
<1>4. CASE RecPrune
  <2>1. /\ rec.pc = "prune" /\ rec'.pc = "pod" /\ next' = next /\ answered' = answered
        /\ conv'.inputs = conv.inputs \ rec.done /\ conv'.processed = conv.processed /\ conv'.inflight = conv.inflight
    BY <1>2, <1>4, LineShape DEF RecPrune, history, Pass, Record
  <2>2. PICK d \in b..m : rec.done = (b + 1)..d
    BY <1>1, <2>1 DEF Line
  <2>3. d \in Nat /\ d <= m /\ conv'.inputs = (d + 1)..(next - 1)
    BY <1>1, <2>1, <2>2, LineShape DEF Line
  <2>4. Line(m, d)'
    BY <1>1, <2>1, <2>3 DEF Line
  <2> QED BY <2>3, <2>4 DEF Lined
<1> QED BY <1>3, <1>4

LEMMA LinedNext == ASSUME Typed, Typed', QueueFits, Lined, [Next]_vars PROVE Lined'
<1> USE DEF podVars, chatVars, history
<1>1. conv \in Record /\ rec \in Pass /\ NoPass.pc = "idle"
  BY DEF Typed, TypeOK, NoPass
<1>2. CASE Chat \/ CacheSync \/ ManagerRestarts \/ UNCHANGED vars
  <2>1. CASE ~AppendInput
    <3>1. UNCHANGED <<next, answered>> /\ (rec' = rec \/ rec' = NoPass)
      BY <1>2, <2>1
         DEF Chat, MessageArrives, CloseConversation, ReopenConversation, ReleaseCheck, ReleaseDelete, CacheSync, ManagerRestarts, vars
    <3>2. conv'.inputs = conv.inputs /\ conv'.processed = conv.processed /\ conv'.inflight = conv.inflight
      BY <1>1, <1>2, <2>1
         DEF Chat, MessageArrives, CloseConversation, ReopenConversation, ReleaseCheck, ReleaseDelete, CacheSync, ManagerRestarts, vars,
             Closing, Record
    <3> QED BY <1>1, <3>1, <3>2, KeptLine
  <2> QED BY <2>1, LinedAppend
<1>3. ASSUME NEW p \in Pods, Runtime(p), ~TryDispatch(p) PROVE Lined'
  <2>1. UNCHANGED <<conv, next, answered, rec>>
    BY <1>3 DEF Runtime, PodStarts, KubeletKills, IdleExit, RuntimeDies, ReportGivenUp
  <2> QED BY <2>1, KeptLine
<1>4. ASSUME NEW h \in Handlers, WorkDone(h), ~(ReportMark(h) /\ conv.inflight.run = hs[h].run /\ ~hs[h].hold) PROVE Lined'
  <2>1. UNCHANGED <<next, answered, rec>>
    BY <1>4 DEF WorkDone, ReportGet, ReportListRuns, ReportAppendRun, ReportMark, ReportPhase
  <2>2. conv'.inputs = conv.inputs /\ conv'.processed = conv.processed /\ conv'.inflight \in {conv.inflight, Nothing}
    BY <1>1, <1>4
       DEF WorkDone, ReportGet, ReportListRuns, ReportAppendRun, ReportMark, ReportPhase, Reported, SetPhaseUnlessClosed, Record
  <2> QED BY <2>1, <2>2, KeptLine
<1>5. ASSUME Reconcile, ~RecBegin, ~RecPrune PROVE Lined'
  <2>1. UNCHANGED <<next, answered>>
    BY <1>5 DEF Reconcile, RecReleaseWorkload, RecForgetRun, RecReadPod, RecReapUnstarted, RecReap, RecReleaseForDrain,
                RecEnterPending, RecCreatePod, RecBindPod, RecSetPhase, RecAutoClose
  <2>2. SameQueue(conv, conv')
    BY <1>5, PassQuiet DEF Quiet
  <2>3. rec'.pc # "prune"
    <3>1. ASSUME NEW overdue \in BOOLEAN, RecReadPod(overdue) PROVE rec'.pc # "prune"
      BY <1>1, <3>1 DEF RecReadPod, Pass, WithoutPod
    <3>2. ASSUME NEW p \in Pods, RecCreatePod(p) PROVE rec'.pc # "prune"
      BY <1>1, <3>2 DEF RecCreatePod, Pass
    <3>3. RecReapUnstarted \/ RecReap => rec'.pc # "prune"
      BY <1>1 DEF RecReapUnstarted, RecReap, Pass, WithoutPod
    <3>4. RecReleaseWorkload \/ RecForgetRun \/ RecReleaseForDrain \/ RecEnterPending \/ RecBindPod \/ RecSetPhase \/ RecAutoClose => rec'.pc # "prune"
      BY <1>1 DEF RecReleaseWorkload, RecForgetRun, RecReleaseForDrain, RecEnterPending, RecBindPod, RecSetPhase, RecAutoClose, Pass
    <3> QED BY <1>5, <3>1, <3>2, <3>3, <3>4 DEF Reconcile
  <2> QED BY <2>1, <2>2, <2>3, KeptLine DEF SameQueue
<1> QED BY <1>2, <1>3, <1>4, <1>5, LinedDispatch, LinedMark, LinedPruning DEF Next, Runtime

\* An input once marked processed is never in flight again, pruned or not, as long as the
\* queue never holds more inputs than the list of processed ids remembers (PendingInputs,
\* the bounded list, pruneProcessed): with run ids that may coincide, outages, stale caches
\* and any number of reports served at once.
THEOREM AnswersAreFinal == Spec /\ []QueueFits => []AnsweredNeverRerun
<1>1. Typed /\ Typed' /\ QueueFits /\ Lined /\ [Next]_vars => Lined'
  BY LinedNext
<1>2. Typed /\ Lined => AnsweredNeverRerun
  <2> SUFFICES ASSUME Typed, NEW m \in Nat, NEW b \in Nat, Line(m, b) PROVE AnsweredNeverRerun
    BY DEF Lined
  <2>1. \A k \in DOMAIN conv.inflight.ids : conv.inflight.ids[k] \notin answered
    BY LineShape DEF Line
  <2> QED BY <2>1 DEF AnsweredNeverRerun, Elems
<1> QED BY <1>1, <1>2, LinedInit, AlwaysTyped, PTL DEF Spec

=============================================================================
