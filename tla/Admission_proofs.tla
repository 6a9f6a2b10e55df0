-------------------------- MODULE Admission_proofs --------------------------
(***************************************************************************)
(* Who came first is started first, for any number of conversations, slots, *)
(* messages and closes, with a pod cache that lags or not.  The argument is  *)
(* about the conversations that never had a pod: no cache shows a pod of     *)
(* theirs and what they were told is unanswered, so whoever is admitted has  *)
(* all of them ahead of it that are older and not closed.                   *)
(***************************************************************************)
EXTENDS Admission, FiniteSetTheorems, TLAPS

Shapes ==
  /\ born \in 0..MaxConvs /\ crowd \in Nat /\ Cap <= crowd
  /\ work \in [Convs -> Nat] /\ busy \in [Convs -> BOOLEAN]
  /\ pod \in [Convs -> Pods] /\ seen \in [Convs -> Pods]
  /\ had \subseteq Convs
  /\ pass.c \in Convs /\ pass.pc \in {"idle", "recheck", "evict", "create"}

\* A run is in flight only where there is work.
BusyWorks == \A c \in Convs : busy[c] => work[c] > 0

\* What the store and the cache show of a conversation that never had a pod.
NeverHad(c) ==
  /\ pod[c] = "none" /\ seen[c] = "none" /\ c \notin backoff /\ ~busy[c]
  /\ c <= born => work[c] > 0

\* Few enough have been passed over by those that had a pod, and by the one that is
\* about to be given one.
InOrder(c) == Cardinality(Passed(c)) < crowd

IInv ==
  /\ Shapes /\ BusyWorks
  /\ \A c \in Convs \ had : NeverHad(c)
  /\ pass.pc # "idle" => InOrder(pass.c)
  /\ FirstComeFirstServed

-----------------------------------------------------------------------------

LEMMA PassedFinite ==
  ASSUME NEW c \in Convs
  PROVE  IsFiniteSet(Passed(c)) /\ Cardinality(Passed(c)) \in Nat
<1>1. c \in Int /\ c - 1 \in Int
  BY AdmissionBounds DEF Convs
<1>2. IsFiniteSet(1..(c - 1)) /\ Passed(c) \in SUBSET (1..(c - 1))
  BY <1>1, FS_Interval DEF Passed
<1> QED BY <1>2, FS_Subset, FS_CardinalityType

\* Who was in order stays so: only who had a pod is taken back from Closed.
LEMMA OrderKept ==
  ASSUME Shapes, crowd' \in Nat, crowd <= crowd', had \subseteq had', closed \ closed' \subseteq had',
         NEW c \in Convs, InOrder(c)
  PROVE  InOrder(c)'
<1>1. Passed(c)' \in SUBSET Passed(c)
  BY DEF Passed
<1>2. /\ IsFiniteSet(Passed(c)) /\ Cardinality(Passed(c)) \in Nat
  BY PassedFinite
<1>3. Cardinality(Passed(c)') <= Cardinality(Passed(c)) /\ Cardinality(Passed(c)') \in Nat
  BY <1>1, <1>2, FS_Subset, FS_CardinalityType
<1> QED BY <1>2, <1>3 DEF InOrder, Shapes

\* What a step has to show besides its effect on those that never had a pod.
LEMMA StepKeeps ==
  ASSUME IInv, Shapes', BusyWorks', crowd <= crowd', had \subseteq had', closed \ closed' \subseteq had',
         \A c \in Convs \ had' : NeverHad(c)',
         \A c \in had' \ had : InOrder(c),
         pass'.pc # "idle" => InOrder(pass'.c)
  PROVE  IInv'
<1>1. crowd' \in Nat /\ had' \subseteq Convs /\ pass'.c \in Convs /\ Shapes
  BY DEF Shapes, IInv
<1>2. \A c \in had' : InOrder(c)
  BY <1>1 DEF IInv, FirstComeFirstServed, InOrder
<1>3. FirstComeFirstServed'
  <2> SUFFICES ASSUME NEW c \in had' PROVE InOrder(c)'
    BY DEF FirstComeFirstServed, InOrder
  <2> QED BY <1>1, <1>2, OrderKept
<1>4. \A c \in Convs : InOrder(c) => InOrder(c)'
  BY <1>1, OrderKept
<1>5. pass'.pc # "idle" => InOrder(pass.c)'
  BY <1>1, <1>4 DEF InOrder, Passed
<1> QED BY <1>3, <1>5 DEF IInv

\* The other steps: nobody new is given a pod, and the pass turns to nobody else.
LEMMA QuietStepKeeps ==
  ASSUME IInv, Shapes', BusyWorks', UNCHANGED past, closed \ closed' \subseteq had,
         \A c \in Convs \ had : NeverHad(c)',
         pass'.pc # "idle" => pass.pc # "idle" /\ pass'.c = pass.c
  PROVE  IInv'
BY StepKeeps DEF IInv, Shapes, past

LEMMA InitIInv == Init => IInv
<1> SUFFICES ASSUME Init PROVE IInv
  OBVIOUS
<1> USE AdmissionBounds
<1>1. Shapes
  BY DEF Init, Shapes, Pods, Convs, NoPass
<1>2. BusyWorks /\ \A c \in Convs \ had : NeverHad(c)
  BY DEF Init, BusyWorks, NeverHad, Convs
<1> QED BY <1>1, <1>2 DEF Init, IInv, FirstComeFirstServed, NoPass

-----------------------------------------------------------------------------
(* Messages, closes, the cache. *)

LEMMA SayKeeps == ASSUME IInv, NEW c \in Convs, Say(c) PROVE IInv'
<1> USE AdmissionBounds
<1>1. born' \in 0..MaxConvs
  BY DEF Say, IInv, Shapes, Convs
<1>2. work' \in [Convs -> Nat] /\ \A d \in Convs : work'[d] >= work[d] /\ work'[c] > 0
  BY DEF Say, IInv, Shapes
<1>3. Shapes' /\ BusyWorks'
  BY <1>1, <1>2 DEF Say, IInv, Shapes, BusyWorks, past
<1>4. \A d \in Convs \ had : NeverHad(d)'
  BY <1>2 DEF Say, IInv, Shapes, NeverHad, waits, Convs
<1> QED BY <1>3, <1>4, QuietStepKeeps DEF Say, waits, past

LEMMA CloseKeeps == ASSUME IInv, NEW c \in Convs, Close(c) PROVE IInv'
<1>1. Shapes' /\ BusyWorks' /\ \A d \in Convs \ had : NeverHad(d)'
  BY DEF Close, IInv, Shapes, BusyWorks, NeverHad, past
<1> QED BY <1>1, QuietStepKeeps DEF Close, past

LEMMA CacheSyncKeeps == ASSUME IInv, CacheSync PROVE IInv'
<1>1. Shapes' /\ BusyWorks' /\ \A d \in Convs \ had : NeverHad(d)'
  BY DEF CacheSync, IInv, Shapes, BusyWorks, NeverHad, past, waits
<1> QED BY <1>1, QuietStepKeeps DEF CacheSync, past, waits

LEMMA BackoffEndsKeeps == ASSUME IInv, NEW c \in Convs, BackoffEnds(c) PROVE IInv'
<1>1. Shapes' /\ BusyWorks' /\ \A d \in Convs \ had : NeverHad(d)'
  BY DEF BackoffEnds, IInv, Shapes, BusyWorks, NeverHad, past
<1> QED BY <1>1, QuietStepKeeps DEF BackoffEnds, past

-----------------------------------------------------------------------------
(* Pods that exist. *)

\* A pod that is there belongs to somebody who had one.
LEMMA HadOne ==
  ASSUME IInv, NEW c \in Convs, pod[c] # "none" \/ seen[c] # "none" \/ busy[c]
  PROVE  c \in had
BY DEF IInv, NeverHad

\* A change of such a pod is not seen at those that never had one.
LEMMA PodOfAnother ==
  ASSUME IInv, NEW c \in had, NEW st \in Pods, PodBecomes(c, st)
  PROVE  /\ pod' \in [Convs -> Pods] /\ seen' \in [Convs -> Pods]
         /\ \A d \in Convs \ had : pod'[d] = "none" /\ seen'[d] = "none"
BY DEF IInv, Shapes, PodBecomes, NeverHad

LEMMA PodStartsKeeps == ASSUME IInv, NEW c \in Convs, PodStarts(c) PROVE IInv'
<1>1. c \in had /\ "up" \in Pods /\ PodBecomes(c, "up")
  BY HadOne DEF PodStarts, Pods
<1>2. /\ pod' \in [Convs -> Pods] /\ seen' \in [Convs -> Pods]
      /\ \A d \in Convs \ had : pod'[d] = "none" /\ seen'[d] = "none"
  BY <1>1, PodOfAnother
<1>3. Shapes' /\ BusyWorks' /\ \A d \in Convs \ had : NeverHad(d)'
  BY <1>2 DEF PodStarts, IInv, Shapes, BusyWorks, NeverHad, past, waits
<1> QED BY <1>3, QuietStepKeeps DEF PodStarts, past, waits

LEMMA TryDispatchKeeps == ASSUME IInv, NEW c \in Convs, TryDispatch(c) PROVE IInv'
<1>1. c \in had
  BY HadOne DEF TryDispatch
<1>2. Shapes' /\ BusyWorks' /\ \A d \in Convs \ had : NeverHad(d)'
  BY <1>1 DEF TryDispatch, NeedsWorker, IInv, Shapes, BusyWorks, NeverHad, past
<1> QED BY <1>1, <1>2, QuietStepKeeps DEF TryDispatch, past

LEMMA WorkDoneKeeps == ASSUME IInv, NEW c \in Convs, WorkDone(c) PROVE IInv'
<1>1. c \in had /\ work[c] > 0
  BY HadOne DEF WorkDone, IInv, BusyWorks
<1>2. Shapes' /\ BusyWorks' /\ \A d \in Convs \ had : NeverHad(d)'
  BY <1>1 DEF WorkDone, IInv, Shapes, BusyWorks, NeverHad, past, waits
<1> QED BY <1>2, QuietStepKeeps DEF WorkDone, past, waits

\* What a pod that goes takes with it.
LEMMA VanishesKeeps ==
  ASSUME IInv, NEW c \in had, Vanishes(c), UNCHANGED <<born, work, closed, pass, past>>,
         backoff' \subseteq backoff \cup {c}
  PROVE  IInv'
<1>1. /\ pod' \in [Convs -> Pods] /\ seen' \in [Convs -> Pods]
      /\ \A d \in Convs \ had : pod'[d] = "none" /\ seen'[d] = "none"
  BY PodOfAnother DEF Vanishes, Pods
<1>2. Shapes' /\ BusyWorks' /\ \A d \in Convs \ had : NeverHad(d)'
  BY <1>1 DEF Vanishes, IInv, Shapes, BusyWorks, NeverHad, past
<1> QED BY <1>2, QuietStepKeeps DEF past

LEMMA PodGoesKeeps ==
  ASSUME IInv, NEW c \in Convs, PodGone(c) \/ ReapUnstartedPod(c) \/ ReleaseWorkload(c)
  PROVE  IInv'
<1>1. c \in had
  BY HadOne DEF PodGone, ReapUnstartedPod, ReleaseWorkload
<1>2. Vanishes(c) /\ UNCHANGED <<born, work, closed, pass, past>> /\ backoff' \subseteq backoff \cup {c}
  BY DEF PodGone, ReapUnstartedPod, ReleaseWorkload, waits
<1> QED BY <1>1, <1>2, VanishesKeeps

-----------------------------------------------------------------------------
(* The pass. *)

\* Whoever is admitted has everybody ahead of it that it could pass over, and there
\* are fewer of them than slots that are free, or can be freed.
LEMMA AdmitKeeps == ASSUME IInv, NEW c \in Convs, Admit(c) PROVE IInv'
<1> USE AdmissionBounds
<1>1. IsFiniteSet(Convs) /\ LivePods \in SUBSET Convs /\ Evictable \in SUBSET LivePods
  <2>1. 1 \in Int /\ MaxConvs \in Int
    OBVIOUS
  <2>2. IsFiniteSet(Convs)
    BY <2>1, FS_Interval DEF Convs
  <2> QED BY <2>2 DEF LivePods, Evictable
<1>2. /\ IsFiniteSet(LivePods) /\ Cardinality(LivePods) \in Nat /\ Cardinality(Evictable) \in Nat
      /\ Cardinality(Evictable) <= Cardinality(LivePods)
  BY <1>1, FS_Subset, FS_CardinalityType
<1>3. crowd' \in Nat /\ crowd <= crowd' /\ Cardinality(LivePods) <= crowd'
  BY <1>2 DEF Admit, IInv, Shapes
<1>4. Free <= crowd'
  BY <1>2, <1>3 DEF Free, IInv, Shapes
<1>5. Passed(c) \in SUBSET AheadOf(c)
  <2> SUFFICES ASSUME NEW d \in Passed(c) PROVE d \in AheadOf(c)
    OBVIOUS
  <2>1. d \in 1..born /\ d < c /\ d \in Convs \ had /\ d \notin closed
    BY DEF Passed, Admit, Convs, IInv, Shapes
  <2>2. NeverHad(d) /\ d <= born
    BY <2>1 DEF IInv, Shapes
  <2> QED BY <2>1, <2>2 DEF NeverHad, AheadOf, Waits, NeedsWorker
<1>6. IsFiniteSet(AheadOf(c))
  <2>1. AheadOf(c) \in SUBSET (1..born) /\ IsFiniteSet(1..born)
    BY FS_Interval DEF AheadOf, IInv, Shapes
  <2> QED BY <2>1, FS_Subset
<1>7. Cardinality(Passed(c)) < crowd'
  <2>1. /\ Cardinality(Passed(c)) <= Cardinality(AheadOf(c)) /\ Cardinality(AheadOf(c)) \in Nat
        /\ Cardinality(Passed(c)) \in Nat
    BY <1>5, <1>6, FS_Subset, FS_CardinalityType, PassedFinite
  <2>2. Cardinality(AheadOf(c)) < Free /\ Free \in Int
    BY <1>2 DEF Admit, Admits, Free
  <2> QED BY <1>3, <1>4, <2>1, <2>2
<1>8. Shapes' /\ BusyWorks' /\ \A d \in Convs \ had : NeverHad(d)'
  BY <1>3 DEF Admit, IInv, Shapes, BusyWorks, NeverHad, NoPass, waits
<1>9. \A d \in Convs : InOrder(d) => InOrder(d)'
  BY <1>3, OrderKept DEF IInv, Admit, waits
<1>10. InOrder(pass.c)' /\ FirstComeFirstServed'
  BY <1>7, <1>9 DEF Admit, IInv, Shapes, InOrder, Passed, FirstComeFirstServed, NoPass, waits
<1> QED BY <1>8, <1>10 DEF IInv, Admit

LEMMA RecheckCapKeeps == ASSUME IInv, RecheckCap PROVE IInv'
<1>1. pass'.c \in Convs /\ pass'.pc \in {"idle", "recheck", "evict", "create"}
  BY AdmissionBounds DEF RecheckCap, IInv, Shapes, NoPass, Convs
<1>2. Shapes' /\ BusyWorks' /\ \A d \in Convs \ had : NeverHad(d)'
  BY <1>1 DEF RecheckCap, IInv, Shapes, BusyWorks, NeverHad, past, waits
<1>3. pass'.pc # "idle" => pass.pc # "idle" /\ pass'.c = pass.c
  BY DEF RecheckCap, NoPass, IInv, Shapes
<1> QED BY <1>2, <1>3, QuietStepKeeps DEF RecheckCap, past, waits

LEMMA EvictKeeps == ASSUME IInv, EvictIdleWorker PROVE IInv'
<1>1. /\ pod' \in [Convs -> Pods] /\ seen' \in [Convs -> Pods]
      /\ \A d \in Convs \ had : pod'[d] = "none" /\ seen'[d] = "none"
  BY DEF EvictIdleWorker, PodBecomes, IInv, Shapes, NeverHad, Pods
<1>2. pass'.c = pass.c /\ pass'.pc = "create" /\ pass.pc = "evict"
  BY DEF EvictIdleWorker, IInv, Shapes
<1>3. Shapes' /\ BusyWorks' /\ \A d \in Convs \ had : NeverHad(d)'
  BY <1>1, <1>2 DEF EvictIdleWorker, IInv, Shapes, BusyWorks, NeverHad, past, waits
<1> QED BY <1>2, <1>3, QuietStepKeeps DEF EvictIdleWorker, past, waits

LEMMA CreateKeeps == ASSUME IInv, CreateRuntimePod PROVE IInv'
<1> USE AdmissionBounds
<1>1. pass.c \in Convs /\ InOrder(pass.c)
  BY DEF CreateRuntimePod, IInv, Shapes
<1>2. had \subseteq had' /\ had' \ had \subseteq {pass.c} /\ closed \ closed' \subseteq had'
  BY <1>1, HadOne DEF CreateRuntimePod
<1>3. /\ pod' \in [Convs -> Pods] /\ seen' \in [Convs -> Pods]
      /\ \A d \in Convs \ had' : pod'[d] = "none" /\ seen'[d] = "none"
  BY <1>1 DEF CreateRuntimePod, PodBecomes, IInv, Shapes, NeverHad, Pods
<1>4. Shapes' /\ BusyWorks' /\ \A d \in Convs \ had' : NeverHad(d)'
  BY <1>1, <1>2, <1>3 DEF CreateRuntimePod, IInv, Shapes, BusyWorks, NeverHad, NoPass, Convs
<1> QED BY <1>1, <1>2, <1>4, StepKeeps DEF CreateRuntimePod, NoPass, IInv, Shapes

-----------------------------------------------------------------------------

LEMMA NextIInv == IInv /\ [Next]_vars => IInv'
<1> SUFFICES ASSUME IInv, [Next]_vars PROVE IInv'
  OBVIOUS
<1>1. CASE Pass
  BY <1>1, RecheckCapKeeps, EvictKeeps, CreateKeeps DEF Pass
<1>2. CASE CacheSync
  BY <1>2, CacheSyncKeeps
<1>3. ASSUME NEW c \in Convs, Say(c) \/ Close(c) \/ PodStarts(c) \/ BackoffEnds(c) \/ Admit(c)
      PROVE  IInv'
  BY <1>3, SayKeeps, CloseKeeps, PodStartsKeeps, BackoffEndsKeeps, AdmitKeeps
<1>4. ASSUME NEW c \in Convs, Runtime(c) \/ ReapUnstartedPod(c) \/ ReleaseWorkload(c)
      PROVE  IInv'
  BY <1>4, TryDispatchKeeps, WorkDoneKeeps, PodGoesKeeps DEF Runtime
<1>5. CASE UNCHANGED vars
  <2>1. Shapes' /\ BusyWorks' /\ \A c \in Convs \ had : NeverHad(c)'
    BY <1>5 DEF vars, waits, past, IInv, Shapes, BusyWorks, NeverHad
  <2> QED BY <1>5, <2>1, QuietStepKeeps DEF vars, waits, past
<1> QED BY <1>1, <1>2, <1>3, <1>4, <1>5 DEF Next

\* Nobody is given a pod while as many older conversations as there are slots, or
\* as pods were ever listed at once, wait for their first (waitingFIFO, admit): for
\* any number of conversations, slots and messages, whatever the cache hides, with
\* evictions, pods that never start, closes and reopens under way.
THEOREM FirstComeIsFirstServed == Spec => []FirstComeFirstServed
<1>1. IInv => FirstComeFirstServed
  BY DEF IInv
<1> QED BY <1>1, InitIInv, NextIInv, PTL DEF Spec
=============================================================================
