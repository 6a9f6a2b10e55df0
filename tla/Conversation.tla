---------------------------- MODULE Conversation ----------------------------
(***************************************************************************)
(* One conversation: its queue of inputs, the run in flight, its phase,    *)
(* and the four parties that move it concurrently                          *)
(*   - chat, which appends inputs, closes, closes and releases the pod,   *)
(*   - the runtime pods, which poll GET /work, run, and POST /work/done,   *)
(*   - the /work/done handler, several store calls long,                   *)
(*   - the reconciler, which works on a copy it read at the start of a     *)
(*     pass and refreshes only when it writes,                             *)
(* plus the kubelet and the faults the code handles: a manager restart, a  *)
(* dead runtime, a lost response, a report nobody could deliver.           *)
(*                                                                         *)
(* Every access to the store is one step (the record is compare-and-       *)
(* swapped on its revision); what a handler does between two accesses is   *)
(* not visible to anybody else.  An input is its position in arrival order.*)
(***************************************************************************)
EXTENDS Naturals, Sequences, FiniteSets

CONSTANTS
  MaxInputs,      \* inputs are 1..MaxInputs, numbered as they arrive
  InputType,      \* the type of each: task (also job, alert), reply, recurrence
  Pods,           \* runtime pod incarnations
  Handlers,       \* POST /work/done requests the manager may serve at once
  ProcessedBound, \* how many processed ids the record keeps (50 in the code)
  RunHistory,     \* how many runs the record keeps (10 in the code)
  SubSecondRuns,  \* whether two units may be dispatched within one second
  Outage,         \* whether the storage breaker may hold a reported run
  StaleCache,     \* whether the reconciler's pod reads may lag
  AutoClose,      \* whether idle conversations are closed by the manager
  MaxRuns,        \* bound: units dispatched
  MaxCloses,      \* bound: closes, by hand or by the manager
  MaxReleases,    \* bound: /exit commands and evictions that pass their check
  MaxFaults       \* bound: crashes, deaths, lost responses

Inputs == 1..MaxInputs
Types == {"task", "reply", "recurrence"}

ASSUME BoundsAreNaturals ==
  /\ {MaxRuns, MaxCloses, MaxReleases, MaxFaults} \subseteq Nat
  /\ {MaxInputs, ProcessedBound, RunHistory} \subseteq Nat \ {0}
ASSUME InputTypesGiven == InputType \in [Inputs -> Types]
ASSUME SwitchesAreBoolean ==
  {SubSecondRuns, Outage, StaleCache, AutoClose} \subseteq BOOLEAN

VARIABLES
  conv,       \* the stored Conversation record
  runs,       \* the ids of its recorded runs, oldest first
  next,       \* the next input to arrive
  clock,      \* the wall clock, in seconds: a run id is the second it was made
  pod,        \* the conversation's runtime Pod object
  podSeen,    \* that object as the manager's informer cache shows it
  rt,         \* the process of each pod incarnation
  msg,        \* the chat handler appending a reply
  exit,       \* the handler releasing the runtime
  hs,         \* the /work/done handlers
  rec,        \* the reconciler's pass
  closes, releases, faults,   \* what has been spent of the three bounds
  recorded,   \* history: inputs some recorded run carries
  answered    \* history: inputs ever marked processed

chatVars == <<msg, exit, releases>>
podVars == <<pod, podSeen, rt>>
history == <<recorded, answered>>
vars == <<conv, runs, next, clock, podVars, chatVars, hs, rec, closes, faults, history>>

-----------------------------------------------------------------------------
(* The record and its parts. *)

Phases == {"New", "Pending", "Queued", "Working", "Idle", "Closed"}
RunId == [sec: Nat, resume: BOOLEAN]
NoRun == [sec |-> 0, resume |-> FALSE]
Nothing == [run |-> NoRun, ids |-> <<>>]
Unit == [run: RunId, ids: Seq(Inputs)]

Record == [phase: Phases, closedAt: BOOLEAN, inputs: SUBSET Inputs,
           processed: Seq(Inputs), inflight: Unit, runtimePod: BOOLEAN]

Elems(s) == {s[k] : k \in DOMAIN s}
LastOf(s, n) == IF Len(s) <= n THEN s ELSE SubSeq(s, Len(s) - n + 1, Len(s))

\* Mutant: only the run in flight is taken out of the queue.
PendingInputsWithAnswered(c) == c.inputs \ Elems(c.inflight.ids)
PendingInputs(c) == c.inputs \ (Elems(c.processed) \cup Elems(c.inflight.ids))
NeedsWorker(c) == PendingInputs(c) # {} \/ c.inflight # Nothing

\* The units the record may dispatch next: the oldest pending input alone, or
\* a run of consecutive replies (or recurrences) starting at it.  A payload
\* that does not resolve ends the batch early, so every prefix is possible.
Increasing(s) == \A k \in 2..Len(s) : s[k - 1] < s[k]
Batchable(s) == \E t \in {"reply", "recurrence"} : \A i \in Elems(s) : InputType[i] = t
\* Mutant: any pending input may go first.
NextUnitUnordered(c, s) ==
  /\ s # <<>> /\ Increasing(s) /\ Elems(s) \subseteq PendingInputs(c)
  /\ Len(s) = 1 \/ Batchable(s)
NextUnit(c, s) ==
  /\ s # <<>>
  /\ Increasing(s)
  /\ Elems(s) \subseteq PendingInputs(c)
  /\ \A i \in Elems(s), j \in PendingInputs(c) : j < i => j \in Elems(s)
  /\ Len(s) = 1 \/ Batchable(s)

IdSeqs == UNION {[1..n -> Inputs] : n \in 1..MaxInputs}

Recorded(run) == \E k \in DOMAIN runs : runs[k] = run

-----------------------------------------------------------------------------
(* Processes. *)

NoPod == "nopod"
ASSUME NoPodIsNone == NoPod \notin Pods
PodObject == [of: Pods \cup {NoPod}, st: {"none", "starting", "running", "exited"}, dying: BOOLEAN]
Absent == [of |-> NoPod, st |-> "none", dying |-> FALSE]
Process == [st: {"dead", "idle", "busy", "report"}, run: RunId]
Dead == [st |-> "dead", run |-> NoRun]

Handler == [pc: {"idle", "list", "append", "mark", "phase"}, of: Pods \cup {NoPod},
            run: RunId, captured: SUBSET Inputs, hold: BOOLEAN, desired: Phases]
NoReport == [pc |-> "idle", of |-> NoPod, run |-> NoRun, captured |-> {},
             hold |-> FALSE, desired |-> "Idle"]

\* What a pass keeps of the copy it works on.
View(c) == [phase |-> c.phase, bound |-> c.runtimePod, busy |-> c.inflight # Nothing,
            pending |-> PendingInputs(c) # {}]
Copy == [phase: Phases, bound: BOOLEAN, busy: BOOLEAN, pending: BOOLEAN]
Pass == [pc: {"idle", "closed", "unhold", "prune", "pod", "reap", "unstarted", "drain", "create",
              "bind", "phase", "auto"},
         loc: Copy, done: SUBSET Inputs, pending: BOOLEAN, needs: BOOLEAN, podExists: BOOLEAN]

Fresh == [phase |-> "New", closedAt |-> FALSE, inputs |-> {}, processed |-> <<>>,
          inflight |-> Nothing, runtimePod |-> FALSE]
NoPass == [pc |-> "idle", loc |-> View(Fresh), done |-> {}, pending |-> FALSE,
           needs |-> FALSE, podExists |-> FALSE]

\* A conversation is created with its first input.
Init ==
  /\ conv = [Fresh EXCEPT !.inputs = {1}]
  /\ runs = <<>> /\ next = 2 /\ clock = 1
  /\ pod = Absent /\ podSeen = Absent
  /\ rt = [p \in Pods |-> Dead]
  /\ msg = "idle" /\ exit = "idle"
  /\ hs = [h \in Handlers |-> NoReport]
  /\ rec = NoPass
  /\ closes = 0 /\ releases = 0 /\ faults = 0
  /\ recorded = {} /\ answered = {}

Fault == faults < MaxFaults /\ faults' = faults + 1

\* A pod write is in the apiserver at once and in the informer cache at once
\* or, with a stale cache, later.
PodBecomes(o) ==
  /\ pod' = o
  /\ podSeen' \in IF StaleCache THEN {podSeen, o} ELSE {o}

\* DELETE by name: whatever object holds the name now.  With a grace period the
\* object stays, dying, until the process is gone; an exited pod has none left.
DeletePod(grace) ==
  IF pod = Absent THEN UNCHANGED <<pod, podSeen>>
  ELSE PodBecomes(IF grace /\ pod.st # "exited" THEN [pod EXCEPT !.dying = TRUE] ELSE Absent)

-----------------------------------------------------------------------------
(* Chat: a reply in the thread, /close, reopen, /exit. *)

\* HandleMessage has found the conversation open.
MessageArrives ==
  /\ msg = "idle" /\ next <= MaxInputs
  /\ conv.phase # "Closed"
  /\ msg' = "append"
  /\ UNCHANGED <<conv, runs, next, clock, podVars, exit, releases, hs, rec, closes, faults, history>>

AppendInput ==
  /\ msg = "append"
  /\ conv' = [conv EXCEPT !.inputs = @ \cup {next}]
  /\ next' = next + 1
  /\ msg' = "idle"
  /\ UNCHANGED <<runs, clock, podVars, exit, releases, hs, rec, closes, faults, history>>

Closing(c) == [c EXCEPT !.phase = "Closed", !.closedAt = TRUE]

CloseConversation ==
  /\ conv.phase # "Closed" /\ closes < MaxCloses
  /\ conv' = Closing(conv)
  /\ closes' = closes + 1
  /\ UNCHANGED <<runs, next, clock, podVars, chatVars, hs, rec, faults, history>>

ReopenConversation ==
  /\ conv.phase = "Closed"
  /\ conv' = [conv EXCEPT !.phase = "Idle", !.closedAt = FALSE]
  /\ UNCHANGED <<runs, next, clock, podVars, chatVars, hs, rec, closes, faults, history>>

\* /exit and the eviction of an idle worker share their predicate and act on
\* it in a second call.
ReleaseCheck ==
  /\ exit = "idle" /\ releases < MaxReleases
  /\ conv.phase # "Closed" /\ ~NeedsWorker(conv)
  /\ podSeen.st \in {"starting", "running"}
  /\ exit' = "delete" /\ releases' = releases + 1
  /\ UNCHANGED <<conv, runs, next, clock, podVars, msg, hs, rec, closes, faults, history>>

ReleaseDelete ==
  /\ exit = "delete"
  /\ DeletePod(TRUE)
  /\ exit' = "idle"
  /\ UNCHANGED <<conv, runs, next, clock, rt, msg, releases, hs, rec, closes, faults, history>>

-----------------------------------------------------------------------------
(* The runtime pod: kubelet and work loop. *)

PodStarts(p) ==
  /\ pod.of = p /\ pod.st = "starting" /\ ~pod.dying
  /\ PodBecomes([pod EXCEPT !.st = "running"])
  /\ rt' = [rt EXCEPT ![p].st = "idle"]
  /\ UNCHANGED <<conv, runs, next, clock, chatVars, hs, rec, closes, faults, history>>

\* The informer catches up.
CacheSync ==
  /\ podSeen # pod
  /\ podSeen' = pod
  /\ UNCHANGED <<conv, runs, next, clock, pod, rt, chatVars, hs, rec, closes, faults, history>>

\* The process of a deleted pod is killed: with grace the object outlives it,
\* without grace the process may outlive the object.
KubeletKills(p) ==
  /\ \/ pod.of = p /\ pod.dying /\ PodBecomes(Absent)
     \/ pod.of # p /\ rt[p].st # "dead" /\ UNCHANGED <<pod, podSeen>>
  /\ rt' = [rt EXCEPT ![p] = Dead]
  /\ UNCHANGED <<conv, runs, next, clock, chatVars, hs, rec, closes, faults, history>>

Exits(p) ==
  /\ rt' = [rt EXCEPT ![p] = Dead]
  /\ IF pod.of = p THEN PodBecomes([pod EXCEPT !.st = "exited"]) ELSE UNCHANGED <<pod, podSeen>>

\* The idle TTL passed with every poll answered empty.
IdleExit(p) ==
  /\ rt[p].st = "idle"
  /\ conv.inflight # Nothing \/ PendingInputs(conv) = {}
  /\ Exits(p)
  /\ UNCHANGED <<conv, runs, next, clock, chatVars, hs, rec, closes, faults, history>>

RuntimeDies(p) ==
  /\ rt[p].st # "dead" /\ Fault
  /\ Exits(p)
  /\ UNCHANGED <<conv, runs, next, clock, chatVars, hs, rec, closes, history>>

\* GET /work: dispatch.Next under one compare-and-swap.  The run id is the
\* second it was made in, so the next one differs only if the clock moved.
TryDispatch(p) ==
  /\ rt[p].st = "idle"
  /\ clock <= MaxRuns
  /\ conv.inflight = Nothing
  /\ \E s \in IdSeqs, resume \in BOOLEAN :
       /\ NextUnit(conv, s)
       /\ ~resume => Len(s) = 1
       /\ resume => Batchable(s)
       /\ LET run == [sec |-> clock, resume |-> resume] IN
            /\ conv' = [conv EXCEPT !.inflight = [run |-> run, ids |-> s],
                                    !.phase = "Working", !.runtimePod = TRUE]
            /\ \/ rt' = [rt EXCEPT ![p] = [st |-> "busy", run |-> run]] /\ UNCHANGED faults
               \/ Fault /\ UNCHANGED rt   \* the response never arrived
  /\ clock' \in IF SubSecondRuns THEN {clock, clock + 1} ELSE {clock + 1}
  /\ UNCHANGED <<runs, next, pod, podSeen, chatVars, hs, rec, closes, history>>

\* Every attempt to deliver the report failed; polling resumes.
ReportGivenUp(p) ==
  /\ rt[p].st \in {"busy", "report"} /\ Fault
  /\ rt' = [rt EXCEPT ![p] = [st |-> "idle", run |-> NoRun]]
  /\ UNCHANGED <<conv, runs, next, clock, pod, podSeen, chatVars, hs, rec, closes, history>>

-----------------------------------------------------------------------------
(* POST /work/done, one store access at a time. *)

ReportGet(h, p) ==
  /\ hs[h].pc = "idle" /\ rt[p].st \in {"busy", "report"}
  /\ rt' = [rt EXCEPT ![p].st = "report"]
  /\ \E hold \in IF Outage THEN BOOLEAN ELSE {FALSE} :
       hs' = [hs EXCEPT ![h] =
               [pc |-> "list", of |-> p, run |-> rt[p].run, hold |-> hold, desired |-> "Idle",
                captured |-> IF conv.inflight.run = rt[p].run /\ ~hold
                             THEN Elems(conv.inflight.ids) ELSE {}]]
  /\ UNCHANGED <<conv, runs, next, clock, pod, podSeen, chatVars, rec, closes, faults, history>>

\* Mutant: the record is written again on a retry.
ReportWithoutLooking(h) ==
  /\ hs[h].pc = "list"
  /\ hs' = [hs EXCEPT ![h].pc = "append"]
  /\ UNCHANGED <<conv, runs, next, clock, podVars, chatVars, rec, closes, faults, history>>
ReportListRuns(h) ==
  /\ hs[h].pc = "list"
  /\ hs' = [hs EXCEPT ![h].pc = IF Recorded(hs[h].run) THEN "mark" ELSE "append"]
  /\ UNCHANGED <<conv, runs, next, clock, podVars, chatVars, rec, closes, faults, history>>

ReportAppendRun(h) ==
  /\ hs[h].pc = "append"
  /\ runs' = LastOf(Append(runs, hs[h].run), RunHistory)
  /\ recorded' = recorded \cup hs[h].captured
  /\ hs' = [hs EXCEPT ![h].pc = "mark"]
  /\ UNCHANGED <<conv, next, clock, podVars, chatVars, rec, closes, faults, answered>>

Reported(c, h) ==
  IF c.inflight.run # hs[h].run THEN c
  ELSE [c EXCEPT !.inflight = Nothing,
                 !.processed = IF hs[h].hold THEN @ ELSE LastOf(@ \o c.inflight.ids, ProcessedBound)]

ReportMark(h) ==
  /\ hs[h].pc = "mark"
  /\ conv' = Reported(conv, h)
  /\ answered' = answered \cup IF conv.inflight.run = hs[h].run /\ ~hs[h].hold
                               THEN Elems(conv.inflight.ids) ELSE {}
  /\ hs' = [hs EXCEPT ![h].pc = "phase",
                      ![h].desired = IF PendingInputs(conv') # {} THEN "Queued" ELSE "Idle"]
  /\ UNCHANGED <<runs, next, clock, podVars, chatVars, rec, closes, faults, recorded>>

\* The phase moves in a write of its own, and never out of Closed; then the
\* runtime hears back, or retries.
\* Mutant: the phase is set whatever it is.
SetPhaseAnyway(c, phase) == [c EXCEPT !.phase = phase]
SetPhaseUnlessClosed(c, phase) == IF c.phase = "Closed" THEN c ELSE [c EXCEPT !.phase = phase]

ReportPhase(h) ==
  /\ hs[h].pc = "phase"
  /\ conv' = SetPhaseUnlessClosed(conv, hs[h].desired)
  /\ LET p == hs[h].of IN
       \/ /\ rt' = IF p \in Pods /\ rt[p] = [st |-> "report", run |-> hs[h].run]
                   THEN [rt EXCEPT ![p] = [st |-> "idle", run |-> NoRun]] ELSE rt
          /\ UNCHANGED faults
       \/ Fault /\ UNCHANGED rt           \* the response never arrived
  /\ hs' = [hs EXCEPT ![h] = NoReport]
  /\ UNCHANGED <<runs, next, clock, pod, podSeen, chatVars, rec, closes, history>>

-----------------------------------------------------------------------------
(* Reconcile: one pass over the copy read at its start. *)

RecBegin ==
  /\ rec.pc = "idle"
  /\ LET done == conv.inputs \cap Elems(conv.processed) IN
       rec' = [NoPass EXCEPT !.pc = IF conv.phase = "Closed" THEN "closed"
                                    ELSE IF done # {} THEN "prune" ELSE "pod",
                             !.loc = View(conv), !.done = done,
                             !.pending = PendingInputs(conv) # {}, !.needs = NeedsWorker(conv)]
  /\ UNCHANGED <<conv, runs, next, clock, podVars, chatVars, hs, closes, faults, history>>

Released(c) == [c EXCEPT !.inflight = Nothing, !.runtimePod = FALSE]
HoldsRun(loc) == loc.busy \/ loc.bound

\* CLOSED IS INERT: the workload goes, then the record's mention of it.
\* Mutant: the pod is deleted only when the record names one.
RecReleaseNamedWorkload ==
  /\ rec.pc = "closed"
  /\ IF rec.loc.bound THEN DeletePod(FALSE) ELSE UNCHANGED <<pod, podSeen>>
  /\ rec' = [rec EXCEPT !.pc = "unhold"]
  /\ UNCHANGED <<conv, runs, next, clock, rt, chatVars, hs, closes, faults, history>>
RecReleaseWorkload ==
  /\ rec.pc = "closed"
  /\ DeletePod(FALSE)
  /\ rec' = [rec EXCEPT !.pc = "unhold"]
  /\ UNCHANGED <<conv, runs, next, clock, rt, chatVars, hs, closes, faults, history>>

RecForgetRun ==
  /\ rec.pc = "unhold"
  /\ conv' = IF HoldsRun(rec.loc) THEN Released(conv) ELSE conv
  /\ rec' = NoPass
  /\ UNCHANGED <<runs, next, clock, podVars, chatVars, hs, closes, faults, history>>

\* pruneProcessed, and the two facts the rest of the pass runs on.
\* Mutant: what is in flight is pruned with what is answered.
RecPruneEagerly ==
  /\ rec.pc = "prune"
  /\ conv' = [conv EXCEPT !.inputs = @ \ (rec.done \cup Elems(conv.inflight.ids))]
  /\ rec' = [rec EXCEPT !.pc = "pod", !.done = {}, !.loc = View(conv'),
                        !.pending = PendingInputs(conv') # {}, !.needs = NeedsWorker(conv')]
  /\ UNCHANGED <<runs, next, clock, podVars, chatVars, hs, closes, faults, history>>
RecPrune ==
  /\ rec.pc = "prune"
  /\ conv' = [conv EXCEPT !.inputs = @ \ rec.done]
  /\ rec' = [rec EXCEPT !.pc = "pod", !.done = {}, !.loc = View(conv'),
                        !.pending = PendingInputs(conv') # {}, !.needs = NeedsWorker(conv')]
  /\ UNCHANGED <<runs, next, clock, podVars, chatVars, hs, closes, faults, history>>

\* Where a pass goes that found no pod, or deleted it.
WithoutPod == IF rec.needs THEN "create" ELSE "phase"

\* An exited pod is deleted first, so that it stops counting; a pod without
\* work may be on a node that is going away.
RecReadPod(overdue) ==
  /\ rec.pc = "pod" /\ (overdue => podSeen.st = "starting")
  /\ IF podSeen.st = "exited"
     THEN /\ DeletePod(TRUE)
          /\ rec' = [rec EXCEPT !.pc = "reap"]
          /\ UNCHANGED <<faults, releases>>
     ELSE IF overdue
     THEN /\ Fault
          /\ DeletePod(FALSE)
          /\ rec' = [rec EXCEPT !.pc = "unstarted"]
          /\ UNCHANGED releases
     ELSE /\ \E pc \in IF podSeen = Absent THEN {WithoutPod}
                       ELSE {"phase"} \cup IF rec.needs THEN {} ELSE {"drain"} :
               /\ pc = "drain" => releases < MaxReleases
               /\ releases' = IF pc = "drain" THEN releases + 1 ELSE releases
               /\ rec' = [rec EXCEPT !.pc = pc, !.podExists = podSeen # Absent]
          /\ UNCHANGED <<pod, podSeen, faults>>
  /\ UNCHANGED <<conv, runs, next, clock, rt, msg, exit, hs, closes, history>>

\* Mutant: the dead pod's run stays in flight.
RecReapPodOnly ==
  /\ rec.pc = "reap"
  /\ conv' = IF HoldsRun(rec.loc) THEN [conv EXCEPT !.runtimePod = FALSE] ELSE conv
  /\ rec' = [rec EXCEPT !.pc = WithoutPod, !.loc = IF HoldsRun(@) THEN View(conv') ELSE @]
  /\ UNCHANGED <<runs, next, clock, podVars, chatVars, hs, closes, faults, history>>
RecReap ==
  /\ rec.pc = "reap"
  /\ conv' = IF HoldsRun(rec.loc) THEN Released(conv) ELSE conv
  /\ rec' = [rec EXCEPT !.pc = WithoutPod, !.loc = IF HoldsRun(@) THEN View(conv') ELSE @]
  /\ UNCHANGED <<runs, next, clock, podVars, chatVars, hs, closes, faults, history>>

RecReleaseForDrain ==
  /\ rec.pc = "drain"
  /\ DeletePod(FALSE)
  /\ conv' = IF rec.loc.bound THEN [conv EXCEPT !.runtimePod = FALSE] ELSE conv
  /\ rec' = [rec EXCEPT !.pc = "phase", !.podExists = FALSE,
                        !.loc = IF @.bound THEN View(conv') ELSE @]
  /\ UNCHANGED <<runs, next, clock, rt, chatVars, hs, closes, faults, history>>

\* The pod did not start within its deadline: it is deleted, and the start
\* backoff ends the pass.
RecReapUnstarted ==
  /\ rec.pc = "unstarted"
  /\ conv' = [conv EXCEPT !.runtimePod = FALSE]
  /\ rec' = IF NeedsWorker(conv') THEN NoPass ELSE [rec EXCEPT !.pc = WithoutPod, !.loc = View(conv')]
  /\ UNCHANGED <<runs, next, clock, podVars, chatVars, hs, closes, faults, history>>

\* No slot, or the storage breaker: the conversation waits.
RecEnterPending ==
  /\ rec.pc = "create"
  /\ conv' = IF rec.loc.phase = "Pending" THEN conv ELSE [conv EXCEPT !.phase = "Pending"]
  /\ rec' = NoPass
  /\ UNCHANGED <<runs, next, clock, podVars, chatVars, hs, closes, faults, history>>

RecCreatePod(p) ==
  /\ rec.pc = "create"
  /\ IF pod = Absent
     THEN /\ rt[p].st = "dead"
          /\ PodBecomes([of |-> p, st |-> "starting", dying |-> FALSE])
          /\ rec' = [rec EXCEPT !.pc = "bind"]
     ELSE /\ rec' = [rec EXCEPT !.pc = "phase"]     \* AlreadyExists
          /\ UNCHANGED <<pod, podSeen>>
  /\ UNCHANGED <<conv, runs, next, clock, rt, chatVars, hs, closes, faults, history>>

\* Mutant: the new pod starts from a clean record.
RecBindCleanPod ==
  /\ rec.pc = "bind"
  /\ conv' = [conv EXCEPT !.runtimePod = TRUE, !.inflight = Nothing]
  /\ rec' = [rec EXCEPT !.pc = "phase", !.loc = View(conv')]
  /\ UNCHANGED <<runs, next, clock, podVars, chatVars, hs, closes, faults, history>>
RecBindPod ==
  /\ rec.pc = "bind"
  /\ conv' = [conv EXCEPT !.runtimePod = TRUE]
  /\ rec' = [rec EXCEPT !.pc = "phase", !.loc = View(conv')]
  /\ UNCHANGED <<runs, next, clock, podVars, chatVars, hs, closes, faults, history>>

\* Mutant: no phase for a conversation without work.
PhaseOfWork(busy, pending) == IF busy THEN "Working" ELSE IF pending THEN "Queued" ELSE ""
PhaseOf(busy, pending) == IF busy THEN "Working" ELSE IF pending THEN "Queued" ELSE "Idle"

\* Whether the idle window of a finished conversation has passed is up to the
\* clock.
Finished(loc, podExists) == loc.phase = "Idle" /\ ~loc.busy /\ ~loc.pending /\ ~podExists

\* Mutant: the pass leaves a conversation without work alone.
RecSetWorkingPhase ==
  /\ rec.pc = "phase"
  /\ conv' = IF rec.needs /\ rec.loc.phase # PhaseOf(rec.loc.busy, rec.pending)
             THEN [conv EXCEPT !.phase = PhaseOf(rec.loc.busy, rec.pending)] ELSE conv
  /\ rec' = NoPass
  /\ UNCHANGED <<runs, next, clock, podVars, chatVars, hs, closes, faults, history>>
RecSetPhase ==
  /\ rec.pc = "phase"
  /\ LET phase == PhaseOf(rec.loc.busy, rec.pending)
         same == rec.loc.phase = phase
         loc == IF same THEN rec.loc ELSE View(conv')
     IN /\ conv' = IF same THEN conv ELSE [conv EXCEPT !.phase = phase]
        /\ \/ rec' = NoPass
           \/ /\ AutoClose /\ closes < MaxCloses /\ ~rec.needs /\ Finished(loc, rec.podExists)
              /\ rec' = [rec EXCEPT !.pc = "auto"]
  /\ UNCHANGED <<runs, next, clock, podVars, chatVars, hs, closes, faults, history>>

RecAutoClose ==
  /\ rec.pc = "auto"
  /\ conv' = Closing(conv)
  /\ closes' = closes + 1
  /\ rec' = NoPass
  /\ UNCHANGED <<runs, next, clock, podVars, chatVars, hs, faults, history>>

\* The manager process is replaced: every handler and the pass are gone.
ManagerRestarts ==
  /\ Fault
  /\ msg' = "idle" /\ exit' = "idle"
  /\ hs' = [h \in Handlers |-> NoReport]
  /\ rec' = NoPass
  /\ UNCHANGED <<conv, runs, next, clock, podVars, releases, closes, history>>

-----------------------------------------------------------------------------

Chat == MessageArrives \/ AppendInput \/ CloseConversation \/ ReopenConversation
          \/ ReleaseCheck \/ ReleaseDelete
Runtime(p) == PodStarts(p) \/ KubeletKills(p) \/ IdleExit(p) \/ RuntimeDies(p)
                \/ TryDispatch(p) \/ ReportGivenUp(p)
WorkDone(h) == \/ \E p \in Pods : ReportGet(h, p)
               \/ ReportListRuns(h) \/ ReportAppendRun(h) \/ ReportMark(h) \/ ReportPhase(h)
Reconcile == \/ RecBegin \/ RecReleaseWorkload \/ RecForgetRun \/ RecPrune \/ RecReadPod(FALSE)
             \/ RecReadPod(TRUE) \/ RecReapUnstarted \/ RecReap \/ RecReleaseForDrain \/ RecEnterPending
             \/ (\E p \in Pods : RecCreatePod(p)) \/ RecBindPod \/ RecSetPhase \/ RecAutoClose

Next == \/ Chat \/ CacheSync \/ ManagerRestarts \/ Reconcile
        \/ \E p \in Pods : Runtime(p)
        \/ \E h \in Handlers : WorkDone(h)

Spec == Init /\ [][Next]_vars

\* The work queue keeps reconciling, the kubelet keeps up, a live runtime polls,
\* finishes and reports, the manager finishes the requests it serves, and a
\* conversation asking for a slot again and again is given one in the end.
Fairness ==
  /\ WF_vars(Reconcile)
  /\ SF_vars(\E p \in Pods : RecCreatePod(p))
  /\ WF_vars(CacheSync) /\ WF_vars(AppendInput) /\ WF_vars(ReleaseDelete)
  /\ \A p \in Pods :
       /\ WF_vars(PodStarts(p)) /\ WF_vars(KubeletKills(p)) /\ WF_vars(IdleExit(p))
       /\ WF_vars(TryDispatch(p))
  /\ \A h \in Handlers : WF_vars(WorkDone(h))

FairSpec == Spec /\ Fairness

-----------------------------------------------------------------------------
(* Properties. *)

\* Every variable stays inside the shape the code gives it.
TypeOK ==
  /\ conv \in Record
  /\ runs \in Seq(RunId)
  /\ next \in 1..(MaxInputs + 1) /\ clock \in Nat
  /\ pod \in PodObject /\ podSeen \in PodObject
  /\ rt \in [Pods -> Process]
  /\ msg \in {"idle", "append"} /\ exit \in {"idle", "delete"}
  /\ hs \in [Handlers -> Handler]
  /\ rec \in Pass
  /\ {closes, releases, faults} \subseteq Nat
  /\ recorded \subseteq Inputs /\ answered \subseteq Inputs

\* What somebody said is never lost: an input that arrived is still queued, or
\* a recorded run carries it.  The record must exist before the reconciler may
\* prune the queue entry, whatever the handler, the pass and the faults do in
\* between (handleWorkDone, pruneProcessed).
RecordedBeforePruned == \A i \in 1..(next - 1) : i \in conv.inputs \/ i \in recorded

\* Answered work does not run twice: an input once marked processed is never
\* in flight again, pruned or not (PendingInputs, the bounded processed list).
AnsweredNeverRerun == Elems(conv.inflight.ids) \cap answered = {}

\* Inputs are answered in the order they arrived, across lost runs, dead pods
\* and restarts: none is answered before an older one (Next).
AnsweredInOrder == \A j \in answered : \A i \in 1..j : i \in answered

\* A run's record exists once however often its report is retried (recordRun).
RunRecordedOnce == \A j, k \in DOMAIN runs : runs[j] = runs[k] => j = k

\* The inflight entry outlives the run: while the conversation's pod works on a
\* run, that run is the one in flight, so no second pod can be handed its
\* inputs (Reconcile clears the entry only for a pod that has exited).
RunningIsInflight ==
  \A p \in Pods : pod.of = p /\ ~pod.dying /\ rt[p].st = "busy" => conv.inflight.run = rt[p].run

\* A work report, however late, never moves a conversation out of Closed:
\* Closed is sticky until an explicit reopen (setPhaseUnlessClosed).
ReportKeepsClosed == [][hs' # hs /\ conv.phase = "Closed" => conv'.phase = "Closed"]_vars

\* Only a reopen, which clears closedAt, takes a conversation out of Closed: not
\* a pass begun before the close, not a pod that still polls (setPhase,
\* tryDispatch).
ClosedIsSticky ==
  [][conv.phase = "Closed" /\ conv'.phase # "Closed" => ~conv'.closedAt]_vars

\* A message to a closed conversation creates no input (HandleMessage).
ClosedAcceptsNoInput == [][conv.phase = "Closed" => conv'.inputs \subseteq conv.inputs]_vars

\* A runtime released as idle has no run in flight (ReleaseRuntime).
ReleaseSparesRuns ==
  [][exit = "delete" /\ pod' # pod => conv.inflight = Nothing]_vars

\* The id of a unit is unique: no recorded run carries it already (Next).
RunIdIsFresh ==
  [][conv'.inflight.run \notin {NoRun, conv.inflight.run} => ~Recorded(conv'.inflight.run)]_vars

\* Every input that arrives is answered in the end, unless the conversation is
\* closed: through dead pods, restarts, lost responses and reports given up.
EveryInputSettles ==
  \A i \in Inputs : []<>(i >= next \/ i \in answered \/ conv.phase = "Closed")

\* A conversation that stays closed gives its slot back: in the end it has no
\* pod and holds no run, whatever was in motion at the close (reconcileClosed).
ClosedLetsGo ==
  <>[](conv.phase = "Closed") => <>[](pod = Absent /\ conv.inflight = Nothing /\ ~conv.runtimePod)

\* However the writers of the phase interleave and whichever of them crashes,
\* once everything is answered it ends up saying so (Reconcile's bookkeeping).
PhaseSettles == <>[](conv.phase \in {"Idle", "Closed"})

=============================================================================
