---------------------------- MODULE ContextSync ----------------------------
(***************************************************************************)
(* The context of one conversation and the sidecar that keeps it.  The      *)
(* agent writes to a tree that lives and dies with its pod.  The sidecar    *)
(* stands between the agent and the manager: before the first unit it       *)
(* restores the tree from the volume, before a report goes on it copies the *)
(* tree there, and it does so on a timer and when the pod ends.  A copy is  *)
(* a new generation, built file by file and then made the current one.      *)
(*                                                                         *)
(* Requests are served by threads of the sidecar that go on after the agent *)
(* has stopped waiting; restores and checkpoints share one mutex.  The      *)
(* content of a file is the set of runs that have written to it, and two    *)
(* contents are the same where size and time of change are.                 *)
(***************************************************************************)
EXTENDS Naturals, Sequences, FiniteSets, SequencesExt

CONSTANTS
  Files,     \* what the include globs match
  Polls,     \* GET /work requests that may be served at once
  Reports,   \* POST /work/done requests that may be served at once
  Retain,    \* generations kept
  MaxRuns,   \* bound: units handed out
  MaxPods,   \* bound: pods
  MaxFaults  \* bound: crashes, lost pods, failed copies, requests given up

ASSUME ContextSyncBounds ==
  /\ Retain \in Nat \ {0}
  /\ {MaxRuns, MaxPods, MaxFaults} \subseteq Nat

VARIABLES
  pod, pods,
  live,      \* the tree the agent writes to
  gens,      \* the volume: generations, oldest first
  agent,
  sidecar,   \* its memory
  th,        \* its threads
  recorded,  \* runs whose report the manager has: the handle is of the latest
  given,     \* units handed out
  faults,
  past       \* what happened, for the properties

vars == <<pod, pods, live, gens, agent, sidecar, th, recorded, given, faults, past>>

Threads == Polls \cup Reports \cup {"tick", "term"}
Empty == [f \in Files |-> {}]
NoOne == "none"
ASSUME ThreadsAreDistinct ==
  Polls \cap Reports = {} /\ (Polls \cup Reports) \cap {"tick", "term", NoOne} = {}
NoAgent == [st |-> "none", run |-> 0, todo |-> {}, needs |-> {}, on |-> NoOne]
Idle == [NoAgent EXCEPT !.st = "idle"]
Fresh == [restored |-> FALSE, inflight |-> FALSE, last |-> Empty, mu |-> NoOne]
AtRest == [pc |-> "idle", run |-> 0, scan |-> Empty, todo |-> {}, failed |-> FALSE]

\* What a restore would use.
Current ==
  LET cur == {i \in 1..Len(gens) : gens[i].current} IN
    IF cur = {} THEN Empty ELSE gens[CHOOSE i \in cur : TRUE].at

Init ==
  /\ pod = "none" /\ pods = 0
  /\ live = Empty /\ gens = <<>>
  /\ agent = NoAgent /\ sidecar = Fresh /\ th = [t \in Threads |-> AtRest]
  /\ recorded = {} /\ given = 0 /\ faults = 0
  /\ past = [unsaved |-> {}, partial |-> FALSE, bare |-> FALSE, late |-> FALSE, seeded |-> FALSE, calm |-> {Empty}]

Fault == faults < MaxFaults /\ faults' = faults + 1
Go(t, pc) == th' = [th EXCEPT ![t].pc = pc]
Lock(t) == sidecar.mu = NoOne /\ sidecar' = [sidecar EXCEPT !.mu = t]
\* A tree the agent is not writing to.
Calmly(p, tree) == [p EXCEPT !.calm = @ \cup {tree}]
Waits(t) == agent.on = t

-----------------------------------------------------------------------------
(* The pod. *)

\* emptyDir, a fresh sidecar and a fresh agent.
PodStarts ==
  /\ pod = "none" /\ pods < MaxPods
  /\ pod' = "up" /\ pods' = pods + 1
  /\ agent' = Idle
  /\ UNCHANGED <<live, gens, sidecar, th, recorded, given, faults, past>>

\* The agent exits, or the pod is deleted: the sidecar is told last.
PodEnds ==
  /\ pod = "up"
  /\ pod' = "ending" /\ agent' = NoAgent
  /\ Go("term", "scan")
  /\ UNCHANGED <<pods, live, gens, sidecar, recorded, given, faults, past>>

Gone ==
  /\ pod' = "none" /\ live' = Empty /\ agent' = NoAgent
  /\ sidecar' = Fresh /\ th' = [t \in Threads |-> AtRest]
  /\ past' = Calmly([past EXCEPT !.partial = FALSE], Empty)
  /\ UNCHANGED <<pods, gens, recorded, given>>

\* The final checkpoint is over.
PodGone == pod = "ending" /\ th["term"].pc = "over" /\ Gone /\ UNCHANGED faults

\* Its node is lost, or its grace period ends.
PodLost == pod # "none" /\ Fault /\ Gone

\* The sidecar alone is restarted: the tree stays, its memory does not.  Requests
\* under way fail.
SidecarRestarts ==
  /\ pod = "up" /\ Fault
  /\ sidecar' = Fresh /\ th' = [t \in Threads |-> AtRest]
  /\ agent' = [agent EXCEPT !.on = NoOne, !.st = IF @ = "polling" THEN "idle" ELSE @]
  /\ past' = [past EXCEPT !.partial = @ \/ \E p \in Polls : th[p].pc = "restore"]
  /\ UNCHANGED <<pod, pods, live, gens, recorded, given>>

-----------------------------------------------------------------------------
(* The agent. *)

\* A run writes to each file.
RunWrites(f) ==
  /\ agent.st = "running" /\ f \in agent.todo
  /\ live' = [live EXCEPT ![f] = @ \cup {agent.run}]
  /\ agent' = [agent EXCEPT !.todo = @ \ {f}, !.st = IF agent.todo = {f} THEN "reporting" ELSE @]
  /\ past' = IF agent.todo = {f} THEN Calmly(past, live') ELSE past
  /\ UNCHANGED <<pod, pods, gens, sidecar, th, recorded, given, faults>>

\* It stops waiting: a poll is tried again, and so is a report, or it is given up.
RequestTimesOut ==
  /\ agent.on # NoOne /\ Fault
  /\ agent' = [agent EXCEPT !.on = NoOne, !.st = IF @ = "polling" THEN "idle" ELSE @]
  /\ UNCHANGED <<pod, pods, live, gens, sidecar, th, recorded, given, past>>

ReportGivenUp ==
  /\ agent.st = "reporting" /\ agent.on = NoOne /\ Fault
  /\ agent' = Idle
  /\ UNCHANGED <<pod, pods, live, gens, sidecar, th, recorded, given, past>>

-----------------------------------------------------------------------------
(* GET /work. *)

\* Mutant: a unit is handed out before the context is there.
RestoreLater == "forward"

AfterArrival == IF sidecar.restored THEN "forward" ELSE "lock"

\* ensureRestored looks at the flag and lets go of the lock that guards it.
PollArrives(p) ==
  /\ agent.st = "idle" /\ th[p].pc = "idle"
  /\ agent' = [agent EXCEPT !.st = "polling", !.on = p]
  /\ Go(p, AfterArrival)
  /\ UNCHANGED <<pod, pods, live, gens, sidecar, recorded, given, faults, past>>

\* Runs whose report still waits for its checkpoint: a restore takes away what it would
\* have copied.
Waiting == {th[d].run : d \in {d \in Reports : th[d].pc = "scan"}}

RestoreBegins(p) ==
  /\ th[p].pc = "lock" /\ Lock(p)
  /\ th' = [th EXCEPT ![p].pc = "restore", ![p].todo = {f \in Files : Current[f] # {}}]
  /\ past' = [past EXCEPT !.late = @ \/ ~Waits(p), !.unsaved = @ \cup (Waiting \ recorded)]
  /\ UNCHANGED <<pod, pods, live, gens, agent, recorded, given, faults>>

RestoreCopies(p, f) ==
  /\ th[p].pc = "restore" /\ f \in th[p].todo
  /\ live' = [live EXCEPT ![f] = Current[f]]
  /\ th' = [th EXCEPT ![p].todo = @ \ {f}]
  /\ UNCHANGED <<pod, pods, gens, agent, sidecar, recorded, given, faults, past>>

\* The manifest is what a scan finds now, whatever the restore brought.
RestoreEnds(p) ==
  /\ th[p].pc = "restore" /\ th[p].todo = {}
  /\ sidecar' = [sidecar EXCEPT !.last = live, !.mu = NoOne]
  /\ Go(p, "forward")
  /\ past' = Calmly([past EXCEPT !.partial = FALSE, !.seeded = @ \/ live # Current], live)
  /\ UNCHANGED <<pod, pods, live, gens, agent, recorded, given, faults>>

\* The volume does not answer: the request fails, what was copied stays.
RestoreFails(p) ==
  /\ th[p].pc = "restore" /\ Fault
  /\ sidecar' = [sidecar EXCEPT !.mu = NoOne]
  /\ th' = [th EXCEPT ![p] = AtRest]
  /\ agent' = IF Waits(p) THEN Idle ELSE agent
  /\ past' = [past EXCEPT !.partial = TRUE]
  /\ UNCHANGED <<pod, pods, live, gens, recorded, given>>

\* Marked in flight whether there is a unit or not.  A request nobody waits for
\* any more is not forwarded.
PollForwards(p) ==
  /\ th[p].pc = "forward"
  /\ sidecar' = [sidecar EXCEPT !.restored = TRUE, !.inflight = TRUE]
  /\ th' = [th EXCEPT ![p] = AtRest]
  /\ past' = [past EXCEPT !.late = @ \/ ~Waits(p)]
  /\ \/ /\ Waits(p) /\ given < MaxRuns
        /\ given' = given + 1
        /\ agent' = [st |-> "running", run |-> given + 1, todo |-> Files, needs |-> recorded, on |-> NoOne]
     \/ /\ agent' = IF Waits(p) THEN Idle ELSE agent
        /\ UNCHANGED given
  /\ UNCHANGED <<pod, pods, live, gens, recorded, faults>>

-----------------------------------------------------------------------------
(* POST /work/done, and the checkpoint it takes first. *)

\* Mutant: a report goes on without a checkpoint.
ForwardFirst == "forward"

Before == "scan"

\* Mutant: the mark is cleared after the checkpoint.
MarkLater == sidecar.inflight

MarkAtReport == FALSE

ReportArrives(d) ==
  /\ agent.st = "reporting" /\ agent.on = NoOne /\ th[d].pc = "idle"
  /\ agent' = [agent EXCEPT !.on = d]
  /\ sidecar' = [sidecar EXCEPT !.inflight = MarkAtReport]
  /\ th' = [th EXCEPT ![d].pc = Before, ![d].run = agent.run]
  /\ UNCHANGED <<pod, pods, live, gens, recorded, given, faults, past>>

\* The manager hears it.
Heard(d) ==
  /\ recorded' = recorded \cup {th[d].run}
  /\ past' = IF th[d].failed THEN [past EXCEPT !.unsaved = @ \cup {th[d].run}] ELSE past

\* A report nobody waits for any more goes on as well: that its client is gone shows
\* only where its body was read.  The manager may hear a report and the answer be lost,
\* or not hear it.
ReportForwards(d) ==
  /\ th[d].pc = "forward"
  /\ th' = [th EXCEPT ![d] = AtRest]
  /\ \/ /\ ~Waits(d) /\ UNCHANGED <<agent, faults>>
        /\ (Heard(d) \/ UNCHANGED <<recorded, past>>)
     \/ /\ Waits(d) /\ Heard(d)
        /\ \/ agent' = Idle /\ UNCHANGED faults
           \/ Fault /\ agent' = [agent EXCEPT !.on = NoOne]
     \/ /\ Waits(d) /\ Fault
        /\ agent' = [agent EXCEPT !.on = NoOne]
        /\ UNCHANGED <<recorded, past>>
  /\ UNCHANGED <<pod, pods, live, gens, sidecar, given>>

-----------------------------------------------------------------------------
(* Checkpoints: of a report, of the timer, of the end of the pod. *)

After(t) == IF t \in Reports THEN "forward" ELSE IF t = "term" THEN "over" ELSE "idle"

Changed(scan) == scan # sidecar.last

\* The timer.  Ticks that find nothing changed, or come too soon after a copy, do nothing.
TickDue ==
  /\ pod = "up" /\ th["tick"].pc = "idle" /\ Changed(live)
  /\ Go("tick", "scan")
  /\ UNCHANGED <<pod, pods, live, gens, agent, sidecar, recorded, given, faults, past>>

Scan(t) ==
  /\ th[t].pc = "scan" /\ sidecar.mu = NoOne
  /\ IF Changed(live)
       THEN Lock(t) /\ th' = [th EXCEPT ![t].pc = "label", ![t].scan = live]
       ELSE Go(t, After(t)) /\ UNCHANGED sidecar
  /\ UNCHANGED <<pod, pods, live, gens, agent, recorded, given, faults, past>>

\* Whether a run is in flight is asked after the scan.
Label(t) ==
  /\ th[t].pc = "label"
  /\ gens' = Append(gens, [at |-> Empty, quiesced |-> ~sidecar.inflight, current |-> FALSE,
                           whole |-> FALSE, boundary |-> FALSE])
  /\ th' = [th EXCEPT ![t].pc = "copy", ![t].todo = {f \in Files : th[t].scan[f] # {}}]
  /\ UNCHANGED <<pod, pods, live, agent, sidecar, recorded, given, faults, past>>

\* A file the previous generation has as it was scanned is linked, any other is copied
\* as it is now.
Copy(t, f) ==
  /\ th[t].pc = "copy" /\ f \in th[t].todo
  /\ gens' = [gens EXCEPT ![Len(gens)].at[f] = IF Current[f] = th[t].scan[f] THEN Current[f] ELSE live[f]]
  /\ th' = [th EXCEPT ![t].todo = @ \ {f}]
  /\ UNCHANGED <<pod, pods, live, agent, sidecar, recorded, given, faults, past>>

\* Everything is there: now it is the current one.
Swap(t) ==
  /\ th[t].pc = "copy" /\ th[t].todo = {}
  /\ gens' = [i \in 1..Len(gens) |->
       IF i = Len(gens)
       THEN [gens[i] EXCEPT !.current = TRUE, !.whole = gens[i].at \in past.calm,
                            !.boundary = t \in Reports /\ Waits(t)]
       ELSE [gens[i] EXCEPT !.current = FALSE]]
  /\ Go(t, "prune")
  /\ past' = [past EXCEPT !.bare = @ \/ past.partial]
  /\ UNCHANGED <<pod, pods, live, agent, sidecar, recorded, given, faults>>

\* The oldest beyond those that are retained go, but never the current one.
Kept ==
  LET n == Len(gens) - Retain
      spared == {i \in 1..n : gens[i].current} IN
    IF n <= 0 THEN gens
    ELSE (IF spared = {} THEN <<>> ELSE <<gens[CHOOSE i \in spared : TRUE]>>) \o SubSeq(gens, n + 1, Len(gens))

\* Mutant: what the tree holds by now counts as copied.
RememberNow(t) == live

Remembered(t) == th[t].scan

Prune(t) ==
  /\ th[t].pc = "prune"
  /\ gens' = Kept
  /\ sidecar' = [sidecar EXCEPT !.last = Remembered(t), !.mu = NoOne]
  /\ Go(t, After(t))
  /\ UNCHANGED <<pod, pods, live, agent, recorded, given, faults, past>>

\* An error on the way is reported and goes no further: what comes after comes all the
\* same.
CheckpointFails(t) ==
  /\ th[t].pc \in {"label", "copy", "prune"} /\ Fault
  /\ sidecar' = [sidecar EXCEPT !.mu = NoOne]
  /\ th' = [th EXCEPT ![t].pc = After(t), ![t].failed = th[t].pc # "prune"]
  /\ UNCHANGED <<pod, pods, live, gens, agent, recorded, given, past>>

-----------------------------------------------------------------------------
Checkpointers == Reports \cup {"tick", "term"}

Poll(p) ==
  \/ PollArrives(p) \/ RestoreBegins(p) \/ RestoreEnds(p) \/ RestoreFails(p) \/ PollForwards(p)
  \/ \E f \in Files : RestoreCopies(p, f)
Report(d) == ReportArrives(d) \/ ReportForwards(d)
Checkpoint(t) == Scan(t) \/ Label(t) \/ Swap(t) \/ Prune(t) \/ CheckpointFails(t) \/ \E f \in Files : Copy(t, f)
Pod == PodStarts \/ PodEnds \/ PodGone \/ PodLost \/ SidecarRestarts
Agent == RequestTimesOut \/ ReportGivenUp \/ \E f \in Files : RunWrites(f)

Next ==
  \/ Pod \/ Agent \/ TickDue
  \/ \E p \in Polls : Poll(p)
  \/ \E d \in Reports : Report(d)
  \/ \E t \in Checkpointers : Checkpoint(t)

Spec == Init /\ [][Next]_vars

\* The timer runs, whoever waits for the mutex gets it, a copy goes on, and a pod whose
\* containers have ended goes away.
GoesOn(t) == Label(t) \/ Swap(t) \/ Prune(t) \/ \E f \in Files : Copy(t, f)
Restores(p) == RestoreEnds(p) \/ \E f \in Files : RestoreCopies(p, f)
Fairness ==
  /\ WF_vars(TickDue) /\ WF_vars(PodGone)
  /\ \A t \in Checkpointers : SF_vars(Scan(t)) /\ WF_vars(GoesOn(t))
  /\ \A p \in Polls : WF_vars(Restores(p))
FairSpec == Spec /\ Fairness

-----------------------------------------------------------------------------
(* Properties. *)

\* Every variable stays inside its shape.
TypeOK ==
  /\ pod \in {"none", "up", "ending"} /\ pods \in 0..MaxPods /\ given \in 0..MaxRuns /\ faults \in 0..MaxFaults
  /\ live \in [Files -> SUBSET (1..MaxRuns)] /\ recorded \subseteq 1..MaxRuns
  /\ sidecar.mu \in Threads \cup {NoOne}
  /\ \A t \in Threads : th[t].pc \in {"idle", "lock", "restore", "forward", "scan", "label", "copy", "prune", "over"}

\* Nothing but what is known to have failed, a copy of a tree that was restored in
\* part, and a restore nobody waited for, has come between the agent and the volume.
Undisturbed == ~past.bare /\ ~past.late

\* What the manager has the handle of is on the volume, through every later
\* checkpoint, restart and restore (proxy.go: a recorded handle whose context was
\* never persisted would fail the next run).  Left out are runs known to be unsaved: the
\* copy for their report failed, or a restore came while the report waited to copy.
RecordedIsKept ==
  Undisturbed => \A r \in recorded \ past.unsaved : \A f \in Files : r \in Current[f]

\* A run starts on a tree that holds what its handle stands for.
RunsContinue ==
  Undisturbed /\ agent.st = "running" =>
    \A r \in agent.needs \ past.unsaved : \A f \in Files : r \in live[f]

\* A generation copied while the agent waits for its report to be taken is labelled
\* quiesced, and it is a tree that stood still.
BoundaryIsWhole ==
  ~past.late => \A i \in 1..Len(gens) : gens[i].boundary => gens[i].quiesced /\ gens[i].whole

\* When a pod ends as it should and its final checkpoint does not fail, nothing that was
\* written is lost with it (main.go: this covers every ordinary end of a pod).  Where a
\* restore found files that are not on the volume they pass for saved.
EndKeepsWork ==
  [][PodGone /\ ~th["term"].failed /\ ~past.seeded => \A f \in Files : live[f] \subseteq Current[f]]_vars

\* What a run has written is on the volume in the end, as long as the pod is there:
\* the timer makes up for a copy that failed.  No run checks it: see README.
KeptInTheEnd ==
  \A r \in 1..MaxRuns :
    (\A f \in Files : r \in live[f]) ~> \/ \A f \in Files : r \in Current[f]
                                        \/ \E f \in Files : r \notin live[f]
                                        \/ past.seeded

\* TLC refutes it: a label is asked for between the scan and the copy.
QuiescedIsWhole ==
  \A i \in 1..Len(gens) : gens[i].quiesced /\ gens[i].current => gens[i].whole

\* TLC refutes it: a long run is copied more often than generations are kept.
TornHasFallback ==
  (\E i \in 1..Len(gens) : gens[i].current /\ ~gens[i].whole) /\ recorded \ past.unsaved # {} =>
    \E i \in 1..Len(gens) : gens[i].whole
=============================================================================
