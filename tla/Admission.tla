------------------------------ MODULE Admission ------------------------------
(***************************************************************************)
(* How conversations share the runtime pods the install allows: one worker  *)
(* reconciles them in turn, admits those that wait in the order they were   *)
(* created, and frees a slot by deleting the pod of a conversation that has *)
(* nothing to do.  A deleted pod lives on for its grace period, pods are    *)
(* listed from a cache, and each call of a pass is a step.  A pod that does *)
(* not start holds its slot until a deadline, and its conversation then     *)
(* stands back for an interval; a closed conversation waits for nothing.    *)
(***************************************************************************)
EXTENDS Naturals, Sequences, FiniteSets

CONSTANTS
  MaxConvs,     \* conversations are 1..MaxConvs, in order of creation
  Cap,          \* MaxActiveConversations
  StaleCache,   \* whether the pod cache may lag
  Stuck,        \* conversations whose pods may fail to start, each time
  MaxMessages,  \* bound: messages said
  MaxCloses     \* bound: conversations closed

ASSUME AdmissionBounds ==
  /\ {MaxMessages, MaxCloses} \subseteq Nat /\ {MaxConvs, Cap} \subseteq Nat \ {0}
  /\ Stuck \subseteq 1..MaxConvs /\ StaleCache \in BOOLEAN

VARIABLES
  born,    \* conversations created so far
  work,    \* inputs of each not yet answered, the one in flight included
  busy,    \* whether one is in flight
  pod,     \* its runtime pod
  seen,    \* that pod as the cache shows it
  backoff, \* conversations that stand back after a failed start
  closed,  \* those whose phase is Closed
  recency, \* conversations by last activity, the longest idle first
  pass,    \* the reconcile pass
  said, closes,
  had,     \* history: conversations that were ever given a pod
  crowd    \* history: the slots, or the most pods listed when somebody was admitted

waits == <<backoff, closed>>
bounds == <<said, closes>>
past == <<had, crowd>>
vars == <<born, work, busy, pod, seen, waits, recency, pass, bounds, past>>

Convs == 1..MaxConvs
Pods == {"none", "starting", "up", "dying"}
NoPass == [pc |-> "idle", c |-> 1, victim |-> 1]

Init ==
  /\ born = 0
  /\ work = [c \in Convs |-> 0] /\ busy = [c \in Convs |-> FALSE]
  /\ pod = [c \in Convs |-> "none"] /\ seen = pod
  /\ recency = [c \in Convs |-> c]
  /\ backoff = {} /\ closed = {}
  /\ pass = NoPass /\ said = 0 /\ closes = 0 /\ had = {} /\ crowd = Cap

-----------------------------------------------------------------------------
(* People, pods. *)

NeedsWorker(c) == work[c] > 0

Active(c) ==
  LET Other(d) == d # c IN recency' = Append(SelectSeq(recency, Other), c)

PodBecomes(c, st) ==
  /\ pod' = [pod EXCEPT ![c] = st]
  /\ seen' \in IF StaleCache THEN {seen, [seen EXCEPT ![c] = st]} ELSE {pod'}

\* A message to a conversation, or the first one of a new conversation; a closed
\* one takes none.
Say(c) ==
  /\ said < MaxMessages /\ c <= born + 1 /\ c \notin closed
  /\ said' = said + 1
  /\ born' = IF c > born THEN c ELSE born
  /\ work' = [work EXCEPT ![c] = @ + 1]
  /\ UNCHANGED <<busy, pod, seen, waits, recency, pass, closes, past>>

\* By a person; what is queued stays queued.
Close(c) ==
  /\ c \in 1..born \ closed /\ closes < MaxCloses
  /\ closed' = closed \cup {c} /\ closes' = closes + 1
  /\ UNCHANGED <<born, work, busy, pod, seen, backoff, recency, pass, said, past>>

PodStarts(c) ==
  /\ pod[c] = "starting"
  /\ PodBecomes(c, "up")
  /\ UNCHANGED <<born, work, busy, waits, recency, pass, bounds, past>>

\* A pod that still polls is given work though its conversation was closed, and
\* the phase becomes Working.
TryDispatch(c) ==
  /\ pod[c] = "up" /\ NeedsWorker(c) /\ ~busy[c]
  /\ busy' = [busy EXCEPT ![c] = TRUE]
  /\ closed' = closed \ {c}
  /\ Active(c)
  /\ UNCHANGED <<born, work, pod, seen, backoff, pass, bounds, past>>

WorkDone(c) ==
  /\ busy[c]
  /\ busy' = [busy EXCEPT ![c] = FALSE]
  /\ work' = [work EXCEPT ![c] = @ - 1]
  /\ Active(c)
  /\ UNCHANGED <<born, pod, seen, waits, pass, bounds, past>>

\* A run goes with its pod, and is dispatched again later.
Vanishes(c) ==
  /\ PodBecomes(c, "none")
  /\ busy' = [busy EXCEPT ![c] = FALSE]

\* The pod's grace period is over, or it exits by itself with nothing to do.
PodGone(c) ==
  /\ pod[c] = "dying" \/ (pod[c] = "up" /\ ~NeedsWorker(c))
  /\ Vanishes(c)
  /\ UNCHANGED <<born, work, waits, recency, pass, bounds, past>>

CacheSync ==
  /\ seen # pod
  /\ seen' = pod
  /\ UNCHANGED <<born, work, busy, pod, waits, recency, pass, bounds, past>>

\* The interval is over: half a minute or more, in which a pass ends and the cache
\* catches up.
BackoffEnds(c) ==
  /\ c \in backoff /\ pass.pc = "idle" /\ seen[c] = pod[c]
  /\ backoff' = backoff \ {c}
  /\ UNCHANGED <<born, work, busy, pod, seen, closed, recency, pass, bounds, past>>

-----------------------------------------------------------------------------
(* The reconciler. *)

\* A pod counts until it is gone.
LivePods == {c \in Convs : seen[c] # "none"}
Evictable == {c \in LivePods : ~NeedsWorker(c)}

\* waitingFIFO: whoever wants a worker and has none; not who is closed, nor who
\* stands back.
\* Mutant: the order of the waiting is lost.
AheadOfNobody(c) == {}
\* Mutant: who stands back keeps the place in the queue.
AheadOfStandingBack(c) == {d \in 1..born : d < c /\ seen[d] = "none" /\ NeedsWorker(d) /\ d \notin closed}
Waits(c) == seen[c] = "none" /\ NeedsWorker(c) /\ c \notin closed \cup backoff
AheadOf(c) == {d \in 1..born : d < c /\ Waits(d)}

Free == IF Cardinality(LivePods) < Cap THEN Cap - Cardinality(LivePods) ELSE Cardinality(Evictable)

Admits(c) == Cardinality(AheadOf(c)) < Free

\* Who is not admitted goes on waiting.
Admit(c) ==
  /\ pass.pc = "idle" /\ c <= born
  /\ Waits(c) /\ Admits(c)
  /\ pass' = [NoPass EXCEPT !.pc = "recheck", !.c = c]
  /\ crowd' = IF Cardinality(LivePods) > crowd THEN Cardinality(LivePods) ELSE crowd
  /\ UNCHANGED <<born, work, busy, pod, seen, waits, recency, bounds, had>>

\* A pod the cache still shows as starting when its deadline is over is deleted at
\* once, by its name, and the conversation stands back.
ReapUnstartedPod(c) ==
  /\ pass.pc = "idle" /\ c \in Stuck \ closed
  /\ seen[c] = "starting"
  /\ Vanishes(c)
  /\ backoff' = backoff \cup {c}
  /\ UNCHANGED <<born, work, closed, recency, pass, bounds, past>>

\* reconcileClosed: the pod is deleted at once, the run forgotten.
ReleaseWorkload(c) ==
  /\ pass.pc = "idle" /\ c \in closed /\ pod[c] # "none"
  /\ Vanishes(c)
  /\ UNCHANGED <<born, work, waits, recency, pass, bounds, past>>

LongestIdle == LET Idle(c) == c \in Evictable IN Head(SelectSeq(recency, Idle))

\* The cap is checked again before the pod is created.
RecheckCap ==
  /\ pass.pc = "recheck"
  /\ pass' = CASE Cardinality(LivePods) < Cap -> [pass EXCEPT !.pc = "create"]
               [] Cardinality(LivePods) >= Cap /\ Evictable # {} ->
                    [pass EXCEPT !.pc = "evict", !.victim = LongestIdle]
               [] OTHER -> NoPass
  /\ UNCHANGED <<born, work, busy, pod, seen, waits, recency, bounds, past>>

EvictIdleWorker ==
  /\ pass.pc = "evict"
  /\ IF pod[pass.victim] \in {"starting", "up"}
     THEN PodBecomes(pass.victim, "dying") ELSE UNCHANGED <<pod, seen>>
  /\ pass' = [pass EXCEPT !.pc = "create"]
  /\ UNCHANGED <<born, work, busy, waits, recency, bounds, past>>

\* The phase the pass ends with may overwrite a close that came in between.
CreateRuntimePod ==
  /\ pass.pc = "create"
  /\ IF pod[pass.c] = "none"
     THEN PodBecomes(pass.c, "starting") /\ had' = had \cup {pass.c}
     ELSE UNCHANGED <<pod, seen, had>>          \* AlreadyExists
  /\ closed' \in {closed, closed \ {pass.c}}
  /\ pass' = NoPass
  /\ UNCHANGED <<born, work, busy, backoff, recency, bounds, crowd>>

-----------------------------------------------------------------------------

Pass == RecheckCap \/ EvictIdleWorker \/ CreateRuntimePod

Runtime(c) == TryDispatch(c) \/ WorkDone(c) \/ PodGone(c)

Next == \/ Pass \/ CacheSync
        \/ \E c \in Convs : \/ Say(c) \/ Close(c) \/ PodStarts(c) \/ Runtime(c) \/ BackoffEnds(c)
                            \/ Admit(c) \/ ReapUnstartedPod(c) \/ ReleaseWorkload(c)

Spec == Init /\ [][Next]_vars

\* Every conversation that waits is reconciled again and again, pods start unless
\* they are stuck, poll, finish and die; the cache catches up and intervals end.
Fairness ==
  /\ WF_vars(Pass) /\ WF_vars(CacheSync)
  /\ \A c \in Convs : SF_vars(Admit(c)) /\ WF_vars(Runtime(c)) /\ WF_vars(ReleaseWorkload(c))
  /\ \A c \in Convs \ Stuck : WF_vars(PodStarts(c))
  /\ \A c \in Stuck : WF_vars(ReapUnstartedPod(c)) /\ WF_vars(BackoffEnds(c))
FairSpec == Spec /\ Fairness

-----------------------------------------------------------------------------
(* Properties. *)

\* Every variable stays inside its shape.
TypeOK ==
  /\ born \in 0..MaxConvs /\ said \in 0..MaxMessages
  /\ work \in [Convs -> 0..MaxMessages] /\ busy \in [Convs -> BOOLEAN]
  /\ pod \in [Convs -> Pods] /\ seen \in [Convs -> Pods]
  /\ backoff \subseteq Stuck /\ closed \subseteq Convs /\ closes \in 0..MaxCloses
  /\ recency \in Seq(Convs)
  /\ pass \in [pc: {"idle", "recheck", "evict", "create"}, c: Convs, victim: Convs]
  /\ had \subseteq Convs /\ crowd \in Nat

Passed(c) == {d \in 1..(c - 1) : d \notin had \cup closed}

\* Whoever came first is started first: a conversation is never given a pod while
\* as many older ones as there are slots have never had one and are not closed,
\* whatever the cache shows, whoever is evicted meanwhile and whoever's pod fails
\* to start (waitingFIFO, admit).  More may be passed over only where more pods
\* than slots were listed: an evicted pod that lingers is counted as a slot.
FirstComeFirstServed ==
  \A c \in had : Cardinality(Passed(c)) < crowd

\* No more are ever passed over than there are slots beside the one that is taken
\* (docs/concepts.md: only when no older waiter needs it).  TLC refutes it with a
\* fourth conversation: a dying pod and an idle one are two evictable pods.
NoneIsPassedOver == \A c \in had : Cardinality(Passed(c)) < Cap

\* Nobody waits for ever: what a conversation was told is answered in the end or
\* the conversation closed, with fewer slots than conversations, though a worker
\* may be evicted just as it is given work, and though another's pods, which take
\* slots too, never start (admit, waitingFIFO, reapUnstartedPod, evictIdleWorker).
EveryoneIsServed == \A c \in Convs \ Stuck : []<>(~NeedsWorker(c) \/ c \in closed)

\* At most MAX_ACTIVE_CONVERSATIONS conversations are active at a time, a pod
\* that is being deleted not even counted (createRuntimePod).
CapHolds == Cardinality({c \in Convs : pod[c] \in {"starting", "up"}}) <= Cap

=============================================================================
