---------------------------- MODULE StorageBreaker ----------------------------
(***************************************************************************)
(* The context-storage breaker and everything that reads or feeds it: the  *)
(* reconciler, which provisions runtime pods and counts the ones that never *)
(* start, GET /work, which holds continuations while the breaker is open,  *)
(* and POST /work/done, which reports whether a context could be continued. *)
(* A conversation whose pods keep failing on storage is in the end started *)
(* without its volume, and loses its memory.  What decides that is a count *)
(* of failed starts and the reason that was last written beside it, and    *)
(* both are written for other causes too: a pod nobody can schedule, a     *)
(* hold, a pod reaped again because the cache still shows it.              *)
(***************************************************************************)
EXTENDS Naturals, Sequences, FiniteSets

CONSTANTS
  Convs,        \* conversations
  Threshold,    \* reports within the window that make an outage (3 in the code)
  DegradeAfter, \* failed starts after which a pod does without its volume (5)
  StaleCache,   \* whether a pod that was reaped may be seen again
  MaxMessages,  \* bound: messages said
  MaxOutages,   \* bound: times the context store goes down
  MaxLosses,    \* bound: contexts that are lost on their own
  MaxTrouble    \* bound: starts that fail for another reason than storage

ASSUME BreakerBounds ==
  /\ {MaxMessages, MaxOutages, MaxLosses, MaxTrouble} \subseteq Nat
  /\ StaleCache \in BOOLEAN
  /\ {Threshold, DegradeAfter} \subseteq Nat \ {0}

VARIABLES
  open,     \* whether unavailability is being treated as an outage
  reports,  \* the evidence inside the window, oldest first: who reported it
  probed,   \* whether the probe of this interval is taken
  blame,    \* history: whose reports opened the breaker
  waiting,  \* inputs of each conversation not yet answered
  ctx,      \* its context: no handle, a stored one, one local to a pod, a lost one
  pod,      \* its runtime pod
  run,      \* the run in flight: from scratch, or a continuation
  fails,    \* RuntimeStartFailures: failed starts since the last good one
  why,      \* the reason of the RuntimeStarted condition
  row,      \* history: starts that really failed on storage since then
  storage,  \* whether the context store answers
  said, outages, losses, trouble

breaker == <<open, reports, probed, blame>>
starts == <<fails, why, row>>
env == <<storage, said, outages, losses, trouble>>
vars == <<breaker, waiting, ctx, pod, run, starts, env>>

Init ==
  /\ open = FALSE /\ reports = <<>> /\ probed = FALSE /\ blame = {}
  /\ waiting = [c \in Convs |-> 0] /\ ctx = [c \in Convs |-> "none"]
  /\ pod = [c \in Convs |-> "none"] /\ run = [c \in Convs |-> "none"]
  /\ fails = [c \in Convs |-> 0] /\ row = fails /\ why = [c \in Convs |-> "none"]
  /\ storage = "up" /\ said = 0 /\ outages = 0 /\ losses = 0 /\ trouble = 0

-----------------------------------------------------------------------------
(* The breaker.  What it has recorded matters only until it opens: nothing  *)
(* but Continued closes it, and that forgets everything.                   *)

Opens == ~open /\ Len(reports) + 1 >= Threshold

Report(c) ==
  /\ open' = (open \/ Opens)
  /\ reports' = IF open' THEN <<>> ELSE Append(reports, c)
  /\ blame' = IF Opens THEN {c} \cup {reports[k] : k \in DOMAIN reports} ELSE blame
  /\ UNCHANGED probed

Continued == open' = FALSE /\ reports' = <<>> /\ probed' = FALSE /\ UNCHANGED blame

\* Mutant: no pod at all while the breaker is open.
NoProbe == ~open
ProbeDue == open => ~probed

\* A report leaves the window; a probe interval ends.
WindowPasses ==
  /\ reports # <<>>
  /\ reports' = Tail(reports)
  /\ UNCHANGED <<open, probed, blame, waiting, ctx, pod, run, starts, env>>

IntervalPasses ==
  /\ probed
  /\ probed' = FALSE
  /\ UNCHANGED <<open, reports, blame, waiting, ctx, pod, run, starts, env>>

-----------------------------------------------------------------------------
(* The conversations' pods. *)

Live(c) == pod[c] \in {"up", "bare"}

\* Held: the conversation has a context to continue and the breaker is open.
Held(c) == open /\ ctx[c] # "none"

Say(c) ==
  /\ said < MaxMessages
  /\ waiting' = [waiting EXCEPT ![c] = @ + 1]
  /\ said' = said + 1
  /\ UNCHANGED <<breaker, ctx, pod, run, starts, storage, outages, losses, trouble>>

\* Failed starts are counted whatever their cause, and the reason is the last one.
ContextLost(c) == fails[c] >= DegradeAfter /\ why[c] = "volume"

\* Reconcile: while the breaker is open one canary per interval gets a pod.
\* A pod without its volume forgets the handle it could not reach.
Provision(c) ==
  /\ pod[c] = "none" /\ waiting[c] > 0
  /\ ProbeDue
  /\ probed' = open
  /\ pod' = [pod EXCEPT ![c] = IF ContextLost(c) THEN "barestart" ELSE "starting"]
  /\ ctx' = IF ContextLost(c) THEN [ctx EXCEPT ![c] = "none"] ELSE ctx
  /\ UNCHANGED <<open, reports, blame, waiting, run, starts, env>>

\* Who is refused is told why (enterPendingFor), in the place of the last failure.
Hold(c) ==
  /\ pod[c] = "none" /\ waiting[c] > 0
  /\ ~ProbeDue
  /\ why' = [why EXCEPT ![c] = "held"]
  /\ UNCHANGED <<breaker, waiting, ctx, pod, run, fails, row, env>>

\* clearRuntimeStartFailure, when the pass has seen the pod running.
PodStarts(c) ==
  /\ \/ pod[c] = "starting" /\ storage = "up" /\ pod' = [pod EXCEPT ![c] = "up"]
     \/ pod[c] = "barestart" /\ pod' = [pod EXCEPT ![c] = "bare"]
  /\ fails' = [fails EXCEPT ![c] = 0] /\ row' = [row EXCEPT ![c] = 0]
  /\ why' = [why EXCEPT ![c] = "none"]
  /\ UNCHANGED <<breaker, waiting, ctx, run, env>>

OneMore(n) == IF n < DegradeAfter THEN n + 1 ELSE n
Counts(c, reason) ==
  fails' = [fails EXCEPT ![c] = OneMore(@)] /\ why' = [why EXCEPT ![c] = reason]

\* Mutant: the failed start is reported but not counted.
ReapUncounted(c) ==
  /\ pod[c] = "starting" /\ storage = "down"
  /\ pod' = [pod EXCEPT ![c] = "none"]
  /\ Report(c)
  /\ UNCHANGED <<waiting, ctx, run, starts, env>>
\* The volume did not attach before the start deadline.  The pod is gone at once,
\* but the cache may go on showing it.
ReapUnstartedPod(c) ==
  /\ pod[c] = "starting" /\ storage = "down"
  /\ \E st \in {"none"} \cup (IF StaleCache THEN {"ghost"} ELSE {}) : pod' = [pod EXCEPT ![c] = st]
  /\ Counts(c, "volume") /\ row' = [row EXCEPT ![c] = OneMore(@)]
  /\ Report(c)
  /\ UNCHANGED <<waiting, ctx, run, env>>

\* The next pass finds it overdue once more: nothing is left to delete, which is no
\* error, and the same failure is reported and counted again.
ReapGhost(c) ==
  /\ pod[c] = "ghost"
  /\ Counts(c, "volume")
  /\ Report(c)
  /\ UNCHANGED <<waiting, ctx, pod, run, row, env>>

CacheSync(c) ==
  /\ pod[c] = "ghost"
  /\ pod' = [pod EXCEPT ![c] = "none"]
  /\ UNCHANGED <<breaker, waiting, ctx, run, starts, env>>

\* No node takes the pod, its image cannot be pulled: counted, but no evidence
\* against the store (classifyStuckPod).
ReapForAnother(c) ==
  /\ pod[c] \in {"starting", "barestart"} /\ trouble < MaxTrouble
  /\ trouble' = trouble + 1
  /\ pod' = [pod EXCEPT ![c] = "none"]
  /\ Counts(c, "other")
  /\ UNCHANGED <<breaker, waiting, ctx, run, row, storage, said, outages, losses>>

TryDispatch(c) ==
  /\ Live(c) /\ run[c] = "none" /\ waiting[c] > 0
  /\ ~Held(c)
  /\ run' = [run EXCEPT ![c] = IF ctx[c] = "none" THEN "fresh" ELSE "continues"]
  /\ UNCHANGED <<breaker, waiting, ctx, pod, starts, env>>

Answered(c) == waiting' = [waiting EXCEPT ![c] = @ - 1]

\* A run from scratch reports a new handle, whether its context could be saved
\* where the next pod will find it or not.
FreshRunEnds(c) ==
  /\ run[c] = "fresh"
  /\ Answered(c)
  /\ ctx' = [ctx EXCEPT ![c] = IF pod[c] = "bare" THEN "local"
                               ELSE IF storage = "up" THEN "stored" ELSE "lost"]
  /\ run' = [run EXCEPT ![c] = "none"]
  /\ UNCHANGED <<breaker, pod, starts, env>>

Reachable(c) == ctx[c] = "local" \/ (ctx[c] = "stored" /\ storage = "up")

\* A continuation succeeded, or its context was unavailable: then the input is
\* spent on the failure unless that is treated as an outage.
ContinuationEnds(c) ==
  /\ run[c] = "continues"
  /\ IF Reachable(c)
     THEN Continued /\ Answered(c)
     ELSE Report(c) /\ IF open' THEN UNCHANGED waiting ELSE Answered(c)
  /\ run' = [run EXCEPT ![c] = "none"]
  /\ UNCHANGED <<ctx, pod, starts, env>>

\* The idle TTL passed with every poll answered empty.
IdleExit(c) ==
  /\ Live(c) /\ run[c] = "none"
  /\ waiting[c] = 0 \/ Held(c)
  /\ pod' = [pod EXCEPT ![c] = "none"]
  /\ ctx' = IF ctx[c] = "local" THEN [ctx EXCEPT ![c] = "lost"] ELSE ctx
  /\ UNCHANGED <<breaker, waiting, run, starts, env>>

-----------------------------------------------------------------------------
(* The context store. *)

StorageFails ==
  /\ storage = "up" /\ outages < MaxOutages
  /\ storage' = "down" /\ outages' = outages + 1
  /\ UNCHANGED <<breaker, waiting, ctx, pod, run, starts, said, losses, trouble>>

StorageRecovers ==
  /\ storage = "down"
  /\ storage' = "up"
  /\ UNCHANGED <<breaker, waiting, ctx, pod, run, starts, said, outages, losses, trouble>>

LoseContext(c) ==
  /\ ctx[c] = "stored" /\ losses < MaxLosses
  /\ ctx' = [ctx EXCEPT ![c] = "lost"] /\ losses' = losses + 1
  /\ UNCHANGED <<breaker, waiting, pod, run, starts, storage, said, outages, trouble>>

-----------------------------------------------------------------------------

Conversation(c) ==
  \/ Say(c) \/ Provision(c) \/ Hold(c) \/ PodStarts(c) \/ ReapUnstartedPod(c) \/ ReapGhost(c)
  \/ CacheSync(c) \/ ReapForAnother(c) \/ TryDispatch(c)
  \/ FreshRunEnds(c) \/ ContinuationEnds(c) \/ IdleExit(c) \/ LoseContext(c)

Next == \/ \E c \in Convs : Conversation(c)
        \/ WindowPasses \/ IntervalPasses \/ StorageFails \/ StorageRecovers

Spec == Init /\ [][Next]_vars

\* Intervals end, the reconciler comes back to every conversation that waits, pods
\* start or time out and the cache shows it, runtimes poll, finish, report and go idle.
Work ==
  /\ WF_vars(IntervalPasses)
  /\ \A c \in Convs : SF_vars(Provision(c)) /\ WF_vars(PodStarts(c)) /\ WF_vars(ReapUnstartedPod(c))
                     /\ WF_vars(CacheSync(c)) /\ WF_vars(TryDispatch(c)) /\ WF_vars(FreshRunEnds(c))
                     /\ WF_vars(ContinuationEnds(c)) /\ WF_vars(IdleExit(c))

FairSpec == Spec /\ Work
RecoveringSpec == Spec /\ Work /\ WF_vars(StorageRecovers)

-----------------------------------------------------------------------------
(* Properties. *)

\* Every variable stays inside its shape.
TypeOK ==
  /\ {open, probed} \subseteq BOOLEAN
  /\ reports \in Seq(Convs) /\ blame \subseteq Convs
  /\ waiting \in [Convs -> 0..MaxMessages]
  /\ ctx \in [Convs -> {"none", "stored", "local", "lost"}]
  /\ pod \in [Convs -> {"none", "ghost", "starting", "barestart", "up", "bare"}]
  /\ run \in [Convs -> {"none", "fresh", "continues"}]
  /\ {fails, row} \subseteq [Convs -> 0..DegradeAfter]
  /\ why \in [Convs -> {"none", "volume", "held", "other"}]
  /\ storage \in {"up", "down"}
  /\ said \in 0..MaxMessages /\ outages \in 0..MaxOutages /\ losses \in 0..MaxLosses
  /\ trouble \in 0..MaxTrouble

\* Whoever waits is answered, or the breaker holds everybody: with the store
\* down for good, a conversation ends up without its memory but answered
\* (createRuntimePod, reapUnstartedPod).
AnsweredOrHeld == \A c \in Convs : []<>(waiting[c] = 0 \/ open)

\* Held work is not abandoned: an open breaker lets every conversation that
\* waits try again (ProbeDue).
HeldWorkRetried == \A c \in Convs : []<>(waiting[c] = 0 \/ pod[c] # "none")

\* One conversation's lost context is a loss and not an outage: what opened the
\* breaker was reported by more than one conversation (Report).
IsolatedLossIsNoOutage == open => Cardinality(blame) > 1

\* A conversation loses its memory only after its starts have failed on storage as
\* many times in a row as degradedStartAfter says (createRuntimePod, contextLost).
MemoryIsGivenUpLate ==
  [][\A c \in Convs : pod'[c] = "barestart" /\ pod[c] # "barestart" => row[c] >= DegradeAfter]_vars

\* When the store answers again, held work whose context it still has is
\* dispatched (tryDispatch, Continued).
HeldWorkResumes == \A c \in Convs : waiting[c] > 0 /\ ctx[c] = "stored" ~> waiting[c] = 0

=============================================================================
