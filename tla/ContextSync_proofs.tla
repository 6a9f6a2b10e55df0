------------------------- MODULE ContextSync_proofs -------------------------
(***************************************************************************)
(* The context of a conversation is kept, for any files, requests served at *)
(* once, generations, runs, pods and faults.                                *)
(*                                                                         *)
(* First what each action does, one lemma each, from the shapes of the      *)
(* variables; nothing after that opens an action again.  Sound says which   *)
(* thread does what, that the mutex is with whoever restores or copies, and *)
(* that at most one generation is current.  Then, on top of Sound:          *)
(*                                                                         *)
(*   Copied, Restored   a copy holds what was scanned, a restore what was   *)
(*                      current, for the files that are done                *)
(*   Remembers, Ended   what the sidecar remembers is saved: EndKeepsWork   *)
(*   Ready              while the tree is not whole no unit is in hand      *)
(*   Mine, Theirs       what a run wrote is in the tree until it is copied, *)
(*                      also for a report that nobody waits for any more   *)
(*   Still              while a report is waited for the tree stands still: *)
(*                      BoundaryIsWhole                                     *)
(*   Saved              what the manager has, or is about to hear of, is on *)
(*                      the volume, and in the tree once a unit can be had: *)
(*                      RecordedIsKept, RunsContinue                        *)
(***************************************************************************)
EXTENDS ContextSync, TLAPS

-----------------------------------------------------------------------------
(* Every variable keeps its shape. *)

Trees(n) == [Files -> SUBSET (1..n)]
Generations(n) == [at: Trees(n), quiesced: BOOLEAN, current: BOOLEAN, whole: BOOLEAN, boundary: BOOLEAN]
States == {"none", "idle", "polling", "running", "reporting"}
Agents(n) == [st: States, run: 0..n, todo: SUBSET Files, needs: SUBSET (0..n), on: Polls \cup Reports \cup {NoOne}]
Sidecars(n) == [restored: BOOLEAN, inflight: BOOLEAN, last: Trees(n), mu: Threads \cup {NoOne}]
Pcs == {"idle", "lock", "restore", "forward", "scan", "label", "copy", "prune", "over"}
Serving(n) == [pc: Pcs, run: 0..n, scan: Trees(n), todo: SUBSET Files, failed: BOOLEAN]
Pasts(n) ==
  [unsaved: SUBSET (0..n), partial: BOOLEAN, bare: BOOLEAN, late: BOOLEAN, seeded: BOOLEAN, calm: SUBSET Trees(n)]

Typed ==
  /\ pod \in {"none", "up", "ending"} /\ pods \in 0..MaxPods /\ given \in 0..MaxRuns /\ faults \in 0..MaxFaults
  /\ live \in Trees(given) /\ gens \in Seq(Generations(given)) /\ recorded \in SUBSET (0..given)
  /\ agent \in Agents(given) /\ (agent.st \in {"running", "reporting"} => agent.run \in 1..given)
  /\ sidecar \in Sidecars(given) /\ th \in [Threads -> Serving(given)] /\ past \in Pasts(given)

LEMMA Bounds == MaxRuns \in Nat /\ MaxPods \in Nat /\ MaxFaults \in Nat /\ Retain \in Nat /\ Retain > 0
BY ContextSyncBounds

LEMMA SeqOfMore ==
  ASSUME NEW S, NEW T, S \subseteq T
  PROVE  Seq(S) \subseteq Seq(T)
OBVIOUS

\* What was written by n runs was written by more.
LEMMA MoreRuns ==
  ASSUME NEW n \in Nat, NEW m \in Nat, n <= m
  PROVE  /\ Trees(n) \subseteq Trees(m) /\ Agents(n) \subseteq Agents(m) /\ Sidecars(n) \subseteq Sidecars(m)
         /\ [Threads -> Serving(n)] \subseteq [Threads -> Serving(m)] /\ Pasts(n) \subseteq Pasts(m)
         /\ Seq(Generations(n)) \subseteq Seq(Generations(m)) /\ SUBSET (0..n) \subseteq SUBSET (0..m)
<1>0. SUBSET (0..n) \subseteq SUBSET (0..m) /\ 0..n \subseteq 0..m
  OBVIOUS
<1>1. SUBSET (1..n) \subseteq SUBSET (1..m)
  OBVIOUS
<1>2. Trees(n) \subseteq Trees(m)
  BY <1>1 DEF Trees
<1>3. Generations(n) \subseteq Generations(m)
  BY <1>2 DEF Generations
<1>4. Seq(Generations(n)) \subseteq Seq(Generations(m))
  BY <1>3, SeqOfMore
<1>5. Serving(n) \subseteq Serving(m)
  BY <1>0, <1>2 DEF Serving
<1>6. [Threads -> Serving(n)] \subseteq [Threads -> Serving(m)]
  BY <1>5
<1>7. Agents(n) \subseteq Agents(m)
  BY <1>0 DEF Agents
<1>8. Sidecars(n) \subseteq Sidecars(m)
  BY <1>2 DEF Sidecars
<1>9. SUBSET Trees(n) \subseteq SUBSET Trees(m)
  BY <1>2
<1>10. Pasts(n) \subseteq Pasts(m)
  BY <1>0, <1>9 DEF Pasts
<1> QED BY <1>0, <1>2, <1>4, <1>6, <1>7, <1>8, <1>10

LEMMA EmptyIs ==
  ASSUME NEW n \in Nat
  PROVE  /\ Empty \in Trees(n) /\ (\A f \in Files : Empty[f] = {}) /\ AtRest \in Serving(n)
         /\ NoAgent \in Agents(n) /\ Idle \in Agents(n) /\ Fresh \in Sidecars(n)
         /\ NoAgent.st = "none" /\ Idle.st = "idle" /\ NoAgent.on = NoOne /\ Idle.on = NoOne
         /\ AtRest.pc = "idle" /\ AtRest.failed = FALSE
         /\ Fresh.restored = FALSE /\ Fresh.inflight = FALSE /\ Fresh.last = Empty /\ Fresh.mu = NoOne
<1>1. Empty \in Trees(n) /\ \A f \in Files : Empty[f] = {}
  BY DEF Empty, Trees
<1>2. AtRest \in Serving(n) /\ AtRest.pc = "idle" /\ AtRest.failed = FALSE
  BY <1>1 DEF AtRest, Serving, Pcs
<1>3. NoAgent \in Agents(n) /\ NoAgent.st = "none" /\ NoAgent.on = NoOne
  BY DEF NoAgent, Agents, States
<1>4. Idle \in Agents(n) /\ Idle.st = "idle" /\ Idle.on = NoOne
  BY DEF NoAgent, Idle, Agents, States
<1>5. Fresh \in Sidecars(n) /\ Fresh.restored = FALSE /\ Fresh.inflight = FALSE /\ Fresh.last = Empty /\ Fresh.mu = NoOne
  BY <1>1 DEF Fresh, Sidecars
<1> QED BY <1>1, <1>2, <1>3, <1>4, <1>5

LEMMA GivenIs == Typed => given \in Nat
BY Bounds DEF Typed

LEMMA CurrentTyped == ASSUME Typed PROVE Current \in Trees(given)
<1> DEFINE cur == {i \in 1..Len(gens) : gens[i].current}
<1>1. given \in Nat /\ gens \in Seq(Generations(given))
  BY Bounds DEF Typed
<1>2. CASE cur = {}
  BY <1>1, <1>2, EmptyIs DEF Current
<1>3. CASE cur # {}
  <2>1. PICK k : k = CHOOSE i \in cur : TRUE
    OBVIOUS
  <2>2. k \in cur
    BY <1>3, <2>1
  <2>3. gens[k] \in Generations(given)
    BY <1>1, <2>2
  <2>4. gens[k].at \in Trees(given)
    BY <2>3 DEF Generations
  <2> QED BY <1>3, <2>1, <2>4 DEF Current
<1> QED BY <1>2, <1>3

-----------------------------------------------------------------------------
(* What each step does. *)

Others(t) == \A u \in Threads \ {t} : th'[u] = th[u]
\* The thread is at pc, and has what it had.
Moves(t, pc) ==
  /\ Others(t) /\ th'[t].pc = pc /\ th'[t].run = th[t].run
  /\ th'[t].scan = th[t].scan /\ th'[t].todo = th[t].todo /\ th'[t].failed = th[t].failed
AgentOn(st, on) ==
  /\ agent'.st = st /\ agent'.on = on
  /\ agent'.run = agent.run /\ agent'.todo = agent.todo /\ agent'.needs = agent.needs
PastBut(S) ==
  /\ "unsaved" \in S \/ past'.unsaved = past.unsaved
  /\ "partial" \in S \/ past'.partial = past.partial
  /\ "bare" \in S \/ past'.bare = past.bare
  /\ "late" \in S \/ past'.late = past.late
  /\ "seeded" \in S \/ past'.seeded = past.seeded
  /\ "calm" \in S \/ past'.calm = past.calm

LEMMA GoMoves ==
  ASSUME Typed, NEW t \in Threads, NEW pc \in Pcs, Go(t, pc)
  PROVE  Moves(t, pc) /\ th' \in [Threads -> Serving(given)]
<1>1. th \in [Threads -> Serving(given)] /\ th' = [th EXCEPT ![t].pc = pc]
  BY DEF Typed, Go
<1>2. th'[t] = [th[t] EXCEPT !.pc = pc] /\ Others(t)
  BY <1>1 DEF Others
<1>3. th[t] \in Serving(given)
  BY <1>1
<1>4. /\ th'[t] \in Serving(given) /\ th'[t].pc = pc /\ th'[t].run = th[t].run
      /\ th'[t].scan = th[t].scan /\ th'[t].todo = th[t].todo /\ th'[t].failed = th[t].failed
  BY <1>2, <1>3 DEF Serving
<1> QED BY <1>1, <1>2, <1>4 DEF Moves

LEMMA RestsMoves ==
  ASSUME Typed, NEW t \in Threads, th' = [th EXCEPT ![t] = AtRest]
  PROVE  Others(t) /\ th'[t] = AtRest /\ th' \in [Threads -> Serving(given)]
<1>1. th \in [Threads -> Serving(given)] /\ AtRest \in Serving(given)
  BY EmptyIs, GivenIs DEF Typed
<1> QED BY <1>1 DEF Others

LEMMA ThreadsAre ==
  /\ \A p \in Polls : p \in Threads /\ p # NoOne /\ p \notin Reports /\ p \notin Checkpointers
  /\ \A d \in Reports : d \in Threads /\ d # NoOne /\ d \in Checkpointers /\ d # "term" /\ d # "tick"
  /\ "tick" \in Threads /\ "term" \in Threads /\ "tick" \in Checkpointers /\ "term" \in Checkpointers
  /\ Checkpointers \subseteq Threads /\ NoOne \notin Threads /\ NoOne \notin Polls /\ NoOne \notin Reports
  /\ "term" \notin Reports /\ "tick" \notin Reports /\ \A t \in Threads : t \in Polls \/ t \in Checkpointers
  /\ "term" \notin Polls /\ "tick" \notin Polls
BY ThreadsAreDistinct DEF Threads, Checkpointers, NoOne

LEMMA PodStartsIs ==
  ASSUME Typed, PodStarts
  PROVE  /\ Typed' /\ pod = "none" /\ pod' = "up" /\ agent' = Idle
         /\ UNCHANGED <<live, gens, sidecar, th, recorded, given, past>>
<1>1. agent' \in Agents(given) /\ agent'.st = "idle" /\ pods' \in 0..MaxPods
  <2>1. Idle \in Agents(given) /\ Idle.st = "idle"
    BY EmptyIs, GivenIs
  <2> QED BY <2>1, Bounds DEF PodStarts, Typed
<1> QED BY <1>1 DEF PodStarts, Typed

LEMMA PodEndsIs ==
  ASSUME Typed, PodEnds
  PROVE  /\ Typed' /\ pod = "up" /\ pod' = "ending" /\ agent' = NoAgent /\ Moves("term", "scan")
         /\ UNCHANGED <<live, gens, sidecar, recorded, given, past>>
<1>1. agent' \in Agents(given) /\ agent'.st = "none"
  BY EmptyIs, GivenIs DEF PodEnds
<1>2. Moves("term", "scan") /\ th' \in [Threads -> Serving(given)]
  BY GoMoves, ThreadsAre DEF PodEnds, Pcs
<1> QED BY <1>1, <1>2 DEF PodEnds, Typed

LEMMA FaultIs == ASSUME Typed, Fault PROVE faults' \in 0..MaxFaults
BY Bounds DEF Typed, Fault

\* A tree the agent is not writing to.
LEMMA CalmIs ==
  ASSUME Typed, NEW p \in Pasts(given), NEW tree \in Trees(given)
  PROVE  /\ Calmly(p, tree) \in Pasts(given) /\ tree \in Calmly(p, tree).calm /\ p.calm \subseteq Calmly(p, tree).calm
         /\ Calmly(p, tree).unsaved = p.unsaved /\ Calmly(p, tree).partial = p.partial /\ Calmly(p, tree).bare = p.bare
         /\ Calmly(p, tree).late = p.late /\ Calmly(p, tree).seeded = p.seeded
BY DEF Calmly, Pasts

LEMMA GoneIs ==
  ASSUME Typed, PodGone \/ PodLost
  PROVE  /\ Typed' /\ pod' = "none" /\ live' = Empty /\ agent' = NoAgent /\ sidecar' = Fresh
         /\ (\A t \in Threads : th'[t] = AtRest) /\ ~past'.partial /\ PastBut({"partial", "calm"})
         /\ UNCHANGED <<gens, recorded, given>>
<1>1. Gone /\ faults' \in 0..MaxFaults
  BY FaultIs DEF PodGone, PodLost, Typed
<1>2. /\ pod' = "none" /\ live' = Empty /\ agent' = NoAgent /\ sidecar' = Fresh /\ th' = [t \in Threads |-> AtRest]
      /\ past' = Calmly([past EXCEPT !.partial = FALSE], Empty) /\ UNCHANGED <<pods, gens, recorded, given>>
  BY <1>1 DEF Gone
<1>3. given \in Nat
  BY Bounds DEF Typed
<1>4. [past EXCEPT !.partial = FALSE] \in Pasts(given) /\ Empty \in Trees(given)
  BY <1>3, EmptyIs DEF Typed, Pasts
<1>5. past' \in Pasts(given) /\ ~past'.partial /\ PastBut({"partial", "calm"})
  <2> DEFINE q == [past EXCEPT !.partial = FALSE]
  <2>1. /\ q.partial = FALSE /\ q.unsaved = past.unsaved /\ q.bare = past.bare /\ q.late = past.late /\ q.seeded = past.seeded
    BY DEF Typed, Pasts
  <2> HIDE DEF q
  <2> QED BY <1>2, <1>4, <2>1, CalmIs DEF PastBut, q
<1>6. NoAgent \in Agents(given) /\ NoAgent.st = "none" /\ Fresh \in Sidecars(given) /\ th' \in [Threads -> Serving(given)]
  BY <1>2, <1>3, EmptyIs
<1> QED BY <1>1, <1>2, <1>4, <1>5, <1>6 DEF Typed

LEMMA SidecarRestartsIs ==
  ASSUME Typed, SidecarRestarts
  PROVE  /\ Typed' /\ pod = "up" /\ sidecar' = Fresh /\ (\A t \in Threads : th'[t] = AtRest)
         /\ AgentOn(IF agent.st = "polling" THEN "idle" ELSE agent.st, NoOne)
         /\ (past'.partial <=> past.partial \/ \E p \in Polls : th[p].pc = "restore") /\ PastBut({"partial"})
         /\ UNCHANGED <<pod, live, gens, recorded, given>>
<1>1. /\ pod = "up" /\ sidecar' = Fresh /\ th' = [t \in Threads |-> AtRest] /\ faults' \in 0..MaxFaults
      /\ agent' = [agent EXCEPT !.on = NoOne, !.st = IF @ = "polling" THEN "idle" ELSE @]
      /\ past' = [past EXCEPT !.partial = @ \/ \E p \in Polls : th[p].pc = "restore"]
      /\ UNCHANGED <<pod, pods, live, gens, recorded, given>>
  BY FaultIs DEF SidecarRestarts
<1>2. given \in Nat /\ agent \in Agents(given) /\ past \in Pasts(given)
  BY Bounds DEF Typed
<1>3. Fresh \in Sidecars(given) /\ th' \in [Threads -> Serving(given)]
  BY <1>1, <1>2, EmptyIs
<1>4. AgentOn(IF agent.st = "polling" THEN "idle" ELSE agent.st, NoOne) /\ agent' \in Agents(given)
  BY <1>1, <1>2 DEF AgentOn, Agents, States
<1>5. /\ (past'.partial <=> past.partial \/ \E p \in Polls : th[p].pc = "restore")
      /\ PastBut({"partial"}) /\ past' \in Pasts(given)
  BY <1>1, <1>2 DEF PastBut, Pasts
<1> QED BY <1>1, <1>3, <1>4, <1>5 DEF Typed, AgentOn

LEMMA RunWritesIs ==
  ASSUME Typed, NEW f \in Files, RunWrites(f)
  PROVE  /\ Typed' /\ agent.st = "running" /\ f \in agent.todo
         /\ live'[f] = live[f] \cup {agent.run} /\ (\A g \in Files \ {f} : live'[g] = live[g])
         /\ agent'.run = agent.run /\ agent'.on = agent.on /\ agent'.needs = agent.needs /\ agent'.todo = agent.todo \ {f}
         /\ agent'.st = (IF agent.todo = {f} THEN "reporting" ELSE "running")
         /\ (agent.todo = {f} => live' \in past'.calm) /\ past.calm \subseteq past'.calm /\ PastBut({"calm"})
         /\ UNCHANGED <<pod, gens, sidecar, th, recorded, given>>
<1>1. /\ agent.st = "running" /\ f \in agent.todo
      /\ live' = [live EXCEPT ![f] = @ \cup {agent.run}]
      /\ agent' = [agent EXCEPT !.todo = @ \ {f}, !.st = IF agent.todo = {f} THEN "reporting" ELSE @]
      /\ past' = IF agent.todo = {f} THEN Calmly(past, live') ELSE past
      /\ UNCHANGED <<pod, pods, gens, sidecar, th, recorded, given, faults>>
  BY DEF RunWrites
<1>2. given \in Nat /\ agent \in Agents(given) /\ past \in Pasts(given) /\ live \in Trees(given) /\ agent.run \in 1..given
  BY <1>1, GivenIs DEF Typed
<1>3. /\ agent'.run = agent.run /\ agent'.on = agent.on /\ agent'.needs = agent.needs /\ agent'.todo = agent.todo \ {f}
      /\ agent'.st = (IF agent.todo = {f} THEN "reporting" ELSE "running") /\ agent' \in Agents(given)
  BY <1>1, <1>2 DEF Agents, States
<1>4. live' \in Trees(given) /\ live'[f] = live[f] \cup {agent.run} /\ \A g \in Files \ {f} : live'[g] = live[g]
  BY <1>1, <1>2 DEF Trees
<1>5. /\ past' \in Pasts(given) /\ (agent.todo = {f} => live' \in past'.calm) /\ past.calm \subseteq past'.calm
      /\ PastBut({"calm"})
  BY <1>1, <1>2, <1>4, CalmIs DEF PastBut
<1> QED BY <1>1, <1>2, <1>3, <1>4, <1>5 DEF Typed

LEMMA RequestTimesOutIs ==
  ASSUME Typed, RequestTimesOut
  PROVE  /\ Typed' /\ AgentOn(IF agent.st = "polling" THEN "idle" ELSE agent.st, NoOne)
         /\ UNCHANGED <<pod, live, gens, sidecar, th, recorded, given, past>>
<1>1. /\ agent' = [agent EXCEPT !.on = NoOne, !.st = IF @ = "polling" THEN "idle" ELSE @] /\ faults' \in 0..MaxFaults
      /\ UNCHANGED <<pod, pods, live, gens, sidecar, th, recorded, given, past>>
  BY FaultIs DEF RequestTimesOut
<1>2. AgentOn(IF agent.st = "polling" THEN "idle" ELSE agent.st, NoOne) /\ agent' \in Agents(given)
  BY <1>1 DEF Typed, AgentOn, Agents, States
<1> QED BY <1>1, <1>2 DEF Typed, AgentOn

LEMMA ReportGivenUpIs ==
  ASSUME Typed, ReportGivenUp
  PROVE  /\ Typed' /\ agent.st = "reporting" /\ agent' = Idle
         /\ UNCHANGED <<pod, live, gens, sidecar, th, recorded, given, past>>
<1>1. Idle \in Agents(given) /\ Idle.st = "idle" /\ faults' \in 0..MaxFaults
  BY EmptyIs, GivenIs, FaultIs DEF ReportGivenUp
<1> QED BY <1>1 DEF ReportGivenUp, Typed

LEMMA PollArrivesIs ==
  ASSUME Typed, NEW p \in Polls, PollArrives(p)
  PROVE  /\ Typed' /\ agent.st = "idle" /\ th[p].pc = "idle" /\ AgentOn("polling", p)
         /\ Moves(p, IF sidecar.restored THEN "forward" ELSE "lock")
         /\ UNCHANGED <<pod, live, gens, sidecar, recorded, given, past>>
<1>1. /\ agent.st = "idle" /\ th[p].pc = "idle" /\ agent' = [agent EXCEPT !.st = "polling", !.on = p] /\ Go(p, AfterArrival)
      /\ UNCHANGED <<pod, pods, live, gens, sidecar, recorded, given, faults, past>>
  BY DEF PollArrives
<1>2. AgentOn("polling", p) /\ agent' \in Agents(given)
  BY <1>1 DEF Typed, AgentOn, Agents, States
<1>3. Moves(p, IF sidecar.restored THEN "forward" ELSE "lock") /\ th' \in [Threads -> Serving(given)]
  BY <1>1, GoMoves, ThreadsAre DEF AfterArrival, Pcs
<1> QED BY <1>1, <1>2, <1>3 DEF Typed, AgentOn

SidecarAt(last, mu) ==
  /\ sidecar'.last = last /\ sidecar'.mu = mu
  /\ sidecar'.restored = sidecar.restored /\ sidecar'.inflight = sidecar.inflight

LEMMA RestoreBeginsIs ==
  ASSUME Typed, NEW p \in Polls, RestoreBegins(p)
  PROVE  /\ Typed' /\ th[p].pc = "lock" /\ sidecar.mu = NoOne /\ SidecarAt(sidecar.last, p)
         /\ Others(p) /\ th'[p].pc = "restore" /\ th'[p].todo = {f \in Files : Current[f] # {}}
         /\ (past'.late <=> past.late \/ agent.on # p) /\ PastBut({"late", "unsaved"})
         /\ past'.unsaved = past.unsaved \cup (Waiting \ recorded)
         /\ UNCHANGED <<pod, live, gens, agent, recorded, given>>
<1>1. /\ th[p].pc = "lock" /\ sidecar.mu = NoOne /\ sidecar' = [sidecar EXCEPT !.mu = p]
      /\ th' = [th EXCEPT ![p].pc = "restore", ![p].todo = {f \in Files : Current[f] # {}}]
      /\ past' = [past EXCEPT !.late = @ \/ ~Waits(p), !.unsaved = @ \cup (Waiting \ recorded)]
      /\ UNCHANGED <<pod, pods, live, gens, agent, recorded, given, faults>>
  BY DEF RestoreBegins, Lock
<1>2. sidecar' \in Sidecars(given) /\ SidecarAt(sidecar.last, p)
  BY <1>1, ThreadsAre DEF Typed, Sidecars, SidecarAt
<1>3. /\ (past'.late <=> past.late \/ agent.on # p) /\ PastBut({"late", "unsaved"}) /\ past' \in Pasts(given)
      /\ past'.unsaved = past.unsaved \cup (Waiting \ recorded)
  <2>1. Waiting \in SUBSET (0..given)
    BY ThreadsAre DEF Typed, Serving, Waiting
  <2> HIDE DEF Waiting
  <2> QED BY <1>1, <2>1 DEF Typed, Pasts, PastBut, Waits
<1>4. /\ Others(p) /\ th'[p].pc = "restore" /\ th'[p].todo = {f \in Files : Current[f] # {}} /\ th' \in [Threads -> Serving(given)]
  <2> DEFINE todo == {f \in Files : Current[f] # {}}
  <2>1. todo \in SUBSET Files /\ p \in Threads /\ th \in [Threads -> Serving(given)]
    BY ThreadsAre DEF Typed
  <2> HIDE DEF todo
  <2>2. th' = [th EXCEPT ![p].pc = "restore", ![p].todo = todo]
    BY <1>1 DEF todo
  <2>3. th'[p] = [th[p] EXCEPT !.pc = "restore", !.todo = todo] /\ Others(p)
    BY <2>1, <2>2 DEF Others
  <2>4. th[p] \in Serving(given)
    BY <2>1
  <2>5. th'[p] \in Serving(given) /\ th'[p].pc = "restore" /\ th'[p].todo = todo
    BY <2>1, <2>3, <2>4 DEF Serving, Pcs
  <2> QED BY <2>1, <2>2, <2>3, <2>5 DEF todo
<1> QED BY <1>1, <1>2, <1>3, <1>4 DEF Typed

LEMMA RestoreCopiesIs ==
  ASSUME Typed, NEW p \in Polls, NEW f \in Files, RestoreCopies(p, f)
  PROVE  /\ Typed' /\ th[p].pc = "restore" /\ f \in th[p].todo
         /\ live'[f] = Current[f] /\ (\A g \in Files \ {f} : live'[g] = live[g])
         /\ Others(p) /\ th'[p].pc = "restore" /\ th'[p].todo = th[p].todo \ {f}
         /\ UNCHANGED <<pod, gens, agent, sidecar, recorded, given, past>>
<1>1. /\ th[p].pc = "restore" /\ f \in th[p].todo /\ live' = [live EXCEPT ![f] = Current[f]]
      /\ th' = [th EXCEPT ![p].todo = @ \ {f}]
      /\ UNCHANGED <<pod, pods, gens, agent, sidecar, recorded, given, faults, past>>
  BY DEF RestoreCopies
<1>2. live' \in Trees(given) /\ live'[f] = Current[f] /\ \A g \in Files \ {f} : live'[g] = live[g]
  <2>1. Current[f] \in SUBSET (1..given)
    BY CurrentTyped DEF Trees
  <2>2. live \in Trees(given)
    BY DEF Typed
  <2> QED BY <1>1, <2>1, <2>2 DEF Trees
<1>3. Others(p) /\ th'[p].pc = "restore" /\ th'[p].todo = th[p].todo \ {f} /\ th' \in [Threads -> Serving(given)]
  <2>1. p \in Threads /\ th \in [Threads -> Serving(given)]
    BY ThreadsAre DEF Typed
  <2>2. th'[p] = [th[p] EXCEPT !.todo = th[p].todo \ {f}] /\ Others(p)
    BY <1>1, <2>1 DEF Others
  <2>3. th[p] \in Serving(given)
    BY <2>1
  <2>4. th'[p] \in Serving(given) /\ th'[p].pc = "restore" /\ th'[p].todo = th[p].todo \ {f}
    BY <1>1, <2>2, <2>3 DEF Serving
  <2> QED BY <1>1, <2>1, <2>2, <2>4
<1> QED BY <1>1, <1>2, <1>3 DEF Typed

LEMMA RestoreEndsIs ==
  ASSUME Typed, NEW p \in Polls, RestoreEnds(p)
  PROVE  /\ Typed' /\ th[p].pc = "restore" /\ th[p].todo = {} /\ SidecarAt(live, NoOne) /\ Moves(p, "forward")
         /\ ~past'.partial /\ (past'.seeded <=> past.seeded \/ live # Current) /\ past.calm \subseteq past'.calm
         /\ PastBut({"partial", "seeded", "calm"})
         /\ UNCHANGED <<pod, live, gens, agent, recorded, given>>
<1>1. /\ th[p].pc = "restore" /\ th[p].todo = {} /\ sidecar' = [sidecar EXCEPT !.last = live, !.mu = NoOne] /\ Go(p, "forward")
      /\ past' = Calmly([past EXCEPT !.partial = FALSE, !.seeded = @ \/ live # Current], live)
      /\ UNCHANGED <<pod, pods, live, gens, agent, recorded, given, faults>>
  BY DEF RestoreEnds
<1>2. sidecar' \in Sidecars(given) /\ SidecarAt(live, NoOne)
  BY <1>1 DEF Typed, Sidecars, SidecarAt
<1>3. Moves(p, "forward") /\ th' \in [Threads -> Serving(given)]
  BY <1>1, GoMoves, ThreadsAre DEF Pcs
<1>4. /\ past' \in Pasts(given) /\ ~past'.partial /\ (past'.seeded <=> past.seeded \/ live # Current)
      /\ past.calm \subseteq past'.calm /\ PastBut({"partial", "seeded", "calm"})
  <2> DEFINE q == [past EXCEPT !.partial = FALSE, !.seeded = @ \/ live # Current]
  <2>1. /\ q.partial = FALSE /\ q.unsaved = past.unsaved /\ q.bare = past.bare /\ q.late = past.late /\ q.calm = past.calm
        /\ (q.seeded <=> past.seeded \/ live # Current) /\ q \in Pasts(given) /\ live \in Trees(given)
    BY DEF Typed, Pasts
  <2> HIDE DEF q
  <2>2. past' = Calmly(q, live)
    BY <1>1 DEF q
  <2> QED BY <2>1, <2>2, CalmIs DEF PastBut
<1> QED BY <1>1, <1>2, <1>3, <1>4 DEF Typed

LEMMA RestoreFailsIs ==
  ASSUME Typed, NEW p \in Polls, RestoreFails(p)
  PROVE  /\ Typed' /\ th[p].pc = "restore" /\ SidecarAt(sidecar.last, NoOne) /\ Others(p) /\ th'[p] = AtRest
         /\ agent' = (IF agent.on = p THEN Idle ELSE agent) /\ past'.partial /\ PastBut({"partial"})
         /\ UNCHANGED <<pod, live, gens, recorded, given>>
<1>1. /\ th[p].pc = "restore" /\ sidecar' = [sidecar EXCEPT !.mu = NoOne] /\ th' = [th EXCEPT ![p] = AtRest]
      /\ agent' = (IF agent.on = p THEN Idle ELSE agent) /\ past' = [past EXCEPT !.partial = TRUE]
      /\ faults' \in 0..MaxFaults /\ UNCHANGED <<pod, pods, live, gens, recorded, given>>
  BY FaultIs DEF RestoreFails, Waits
<1>2. sidecar' \in Sidecars(given) /\ SidecarAt(sidecar.last, NoOne)
  BY <1>1 DEF Typed, Sidecars, SidecarAt
<1>3. Others(p) /\ th'[p] = AtRest /\ th' \in [Threads -> Serving(given)]
  BY <1>1, RestsMoves, ThreadsAre
<1>4. past' \in Pasts(given) /\ past'.partial /\ PastBut({"partial"})
  BY <1>1 DEF Typed, Pasts, PastBut
<1>5. agent' \in Agents(given) /\ (agent' = agent \/ agent'.st = "idle")
  BY <1>1, EmptyIs, GivenIs DEF Typed
<1> QED BY <1>1, <1>2, <1>3, <1>4, <1>5 DEF Typed

LEMMA PollForwardsIs ==
  ASSUME Typed, NEW p \in Polls, PollForwards(p)
  PROVE  /\ Typed' /\ th[p].pc = "forward"
         /\ sidecar'.restored /\ sidecar'.inflight /\ sidecar'.last = sidecar.last /\ sidecar'.mu = sidecar.mu
         /\ Others(p) /\ th'[p] = AtRest
         /\ (past'.late <=> past.late \/ agent.on # p) /\ PastBut({"late"})
         /\ UNCHANGED <<pod, live, gens, recorded>>
         /\ \/ /\ agent.on = p /\ given' = given + 1
               /\ agent' = [st |-> "running", run |-> given + 1, todo |-> Files, needs |-> recorded, on |-> NoOne]
            \/ agent' = (IF agent.on = p THEN Idle ELSE agent) /\ given' = given
<1>1. /\ th[p].pc = "forward" /\ sidecar' = [sidecar EXCEPT !.restored = TRUE, !.inflight = TRUE]
      /\ th' = [th EXCEPT ![p] = AtRest] /\ past' = [past EXCEPT !.late = @ \/ agent.on # p]
      /\ UNCHANGED <<pod, pods, live, gens, recorded, faults>>
      /\ \/ /\ agent.on = p /\ given < MaxRuns /\ given' = given + 1
            /\ agent' = [st |-> "running", run |-> given + 1, todo |-> Files, needs |-> recorded, on |-> NoOne]
         \/ agent' = (IF agent.on = p THEN Idle ELSE agent) /\ given' = given
  BY DEF PollForwards, Waits
<1>2. /\ sidecar' \in Sidecars(given) /\ sidecar'.restored /\ sidecar'.inflight
      /\ sidecar'.last = sidecar.last /\ sidecar'.mu = sidecar.mu
  BY <1>1 DEF Typed, Sidecars
<1>3. Others(p) /\ th'[p] = AtRest /\ th' \in [Threads -> Serving(given)]
  BY <1>1, RestsMoves, ThreadsAre
<1>4. (past'.late <=> past.late \/ agent.on # p) /\ PastBut({"late"}) /\ past' \in Pasts(given)
  BY <1>1 DEF Typed, Pasts, PastBut
<1>5. given \in Nat /\ given' \in Nat /\ given <= given' /\ given' \in 0..MaxRuns
  BY <1>1, Bounds DEF Typed
<1>6. agent' \in Agents(given') /\ (agent'.st \in {"running", "reporting"} => agent'.run \in 1..given')
  <2>1. CASE /\ given' = given + 1
             /\ agent' = [st |-> "running", run |-> given + 1, todo |-> Files, needs |-> recorded, on |-> NoOne]
    <3>1. recorded \in SUBSET (0..given') /\ given + 1 \in 1..given' /\ given + 1 \in 0..given'
      BY <1>5, <2>1 DEF Typed
    <3> QED BY <2>1, <3>1 DEF Agents, States
  <2>2. CASE agent' = (IF agent.on = p THEN Idle ELSE agent) /\ given' = given
    <3>1. Idle \in Agents(given) /\ Idle.st = "idle"
      BY <1>5, EmptyIs
    <3> QED BY <2>2, <3>1 DEF Typed
  <2> QED BY <1>1, <2>1, <2>2
<1>7. Typed'
  <2>1. /\ live' \in Trees(given') /\ gens' \in Seq(Generations(given')) /\ recorded' \in SUBSET (0..given')
        /\ sidecar' \in Sidecars(given') /\ th' \in [Threads -> Serving(given')] /\ past' \in Pasts(given')
    <3>1. live' \in Trees(given) /\ gens' \in Seq(Generations(given)) /\ recorded' \in SUBSET (0..given)
      BY <1>1 DEF Typed
    <3> QED BY <1>2, <1>3, <1>4, <1>5, <3>1, MoreRuns
  <2> QED BY <1>1, <1>5, <1>6, <2>1 DEF Typed
<1> QED BY <1>1, <1>2, <1>3, <1>4, <1>7

LEMMA ReportArrivesIs ==
  ASSUME Typed, NEW d \in Reports, ReportArrives(d)
  PROVE  /\ Typed' /\ agent.st = "reporting" /\ agent.on = NoOne /\ th[d].pc = "idle" /\ AgentOn("reporting", d)
         /\ sidecar'.last = sidecar.last /\ sidecar'.mu = sidecar.mu /\ sidecar'.restored = sidecar.restored
         /\ ~sidecar'.inflight /\ Others(d) /\ th'[d].pc = "scan" /\ th'[d].run = agent.run
         /\ UNCHANGED <<pod, live, gens, recorded, given, past>>
<1>1. /\ agent.st = "reporting" /\ agent.on = NoOne /\ th[d].pc = "idle" /\ agent' = [agent EXCEPT !.on = d]
      /\ sidecar' = [sidecar EXCEPT !.inflight = FALSE] /\ th' = [th EXCEPT ![d].pc = "scan", ![d].run = agent.run]
      /\ UNCHANGED <<pod, pods, live, gens, recorded, given, faults, past>>
  BY DEF ReportArrives, MarkAtReport, Before
<1>2. AgentOn("reporting", d) /\ agent' \in Agents(given)
  BY <1>1 DEF Typed, AgentOn, Agents, States
<1>3. /\ sidecar' \in Sidecars(given) /\ ~sidecar'.inflight
      /\ sidecar'.last = sidecar.last /\ sidecar'.mu = sidecar.mu /\ sidecar'.restored = sidecar.restored
  BY <1>1 DEF Typed, Sidecars
<1>4. Others(d) /\ th'[d].pc = "scan" /\ th'[d].run = agent.run /\ th' \in [Threads -> Serving(given)]
  <2>1. d \in Threads /\ th \in [Threads -> Serving(given)] /\ agent.run \in 0..given
    BY ThreadsAre DEF Typed, Agents
  <2>2. th'[d] = [th[d] EXCEPT !.pc = "scan", !.run = agent.run] /\ Others(d) /\ th[d] \in Serving(given)
    BY <1>1, <2>1 DEF Others
  <2>3. th'[d] \in Serving(given) /\ th'[d].pc = "scan" /\ th'[d].run = agent.run
    BY <2>1, <2>2 DEF Serving, Pcs
  <2> QED BY <1>1, <2>1, <2>2, <2>3
<1> QED BY <1>1, <1>2, <1>3, <1>4 DEF Typed, AgentOn

\* Whether anybody waits for it or not.
LEMMA HeardIs ==
  ASSUME Typed, NEW d \in Reports, Heard(d)
  PROVE  /\ past' \in Pasts(given) /\ recorded' \in SUBSET (0..given) /\ recorded' = recorded \cup {th[d].run}
         /\ PastBut({"unsaved"}) /\ past.unsaved \subseteq past'.unsaved
         /\ th[d].failed => past'.unsaved = past.unsaved \cup {th[d].run}
<1>1. past \in Pasts(given) /\ recorded \in SUBSET (0..given) /\ th[d].run \in 0..given
  BY ThreadsAre DEF Typed, Serving
<1> QED BY <1>1 DEF Heard, Pasts, PastBut

LEMMA ReportForwardsIs ==
  ASSUME Typed, NEW d \in Reports, agent.on = d => agent.st = "reporting", ReportForwards(d)
  PROVE  /\ Typed' /\ th[d].pc = "forward" /\ Others(d) /\ th'[d] = AtRest
         /\ UNCHANGED <<pod, live, gens, sidecar, given>> /\ PastBut({"unsaved"}) /\ past.unsaved \subseteq past'.unsaved
         /\ (agent.on # d /\ agent' = agent) \/ (agent.on = d /\ (agent' = Idle \/ AgentOn(agent.st, NoOne)))
         /\ \/ recorded' = recorded /\ past' = past
            \/ /\ recorded' = recorded \cup {th[d].run}
               /\ th[d].failed => past'.unsaved = past.unsaved \cup {th[d].run}
<1>1. /\ th[d].pc = "forward" /\ th' = [th EXCEPT ![d] = AtRest] /\ UNCHANGED <<pod, pods, live, gens, sidecar, given>>
  BY DEF ReportForwards
<1>2. Others(d) /\ th'[d] = AtRest /\ th' \in [Threads -> Serving(given)]
  BY <1>1, RestsMoves, ThreadsAre
<1>3. /\ Idle \in Agents(given) /\ Idle.st = "idle" /\ given \in Nat /\ agent \in Agents(given)
      /\ [agent EXCEPT !.on = NoOne] \in Agents(given) /\ faults \in 0..MaxFaults
  BY EmptyIs, GivenIs DEF Typed, Agents
<1>4. agent' = [agent EXCEPT !.on = NoOne] => AgentOn(agent.st, NoOne)
  BY <1>3 DEF AgentOn, Agents
<1>5. /\ faults' \in 0..MaxFaults /\ (Heard(d) \/ UNCHANGED <<recorded, past>>)
      /\ (agent.on # d /\ agent' = agent) \/ (agent.on = d /\ (agent' = Idle \/ agent' = [agent EXCEPT !.on = NoOne]))
  BY <1>3, FaultIs DEF ReportForwards, Waits
<1>6. /\ past' \in Pasts(given) /\ recorded' \in SUBSET (0..given) /\ PastBut({"unsaved"}) /\ past.unsaved \subseteq past'.unsaved
      /\ \/ recorded' = recorded /\ past' = past
         \/ recorded' = recorded \cup {th[d].run} /\ (th[d].failed => past'.unsaved = past.unsaved \cup {th[d].run})
  <2>1. CASE Heard(d)
    BY <2>1, HeardIs
  <2>2. CASE UNCHANGED <<recorded, past>>
    BY <2>2 DEF Typed, PastBut
  <2> QED BY <1>5, <2>1, <2>2
<1>7. agent' \in Agents(given) /\ (agent'.st \in {"running", "reporting"} => agent'.run \in 1..given)
  BY <1>3, <1>4, <1>5 DEF Typed, AgentOn
<1> QED BY <1>1, <1>2, <1>4, <1>5, <1>6, <1>7 DEF Typed

LEMMA TickDueIs ==
  ASSUME Typed, TickDue
  PROVE  /\ Typed' /\ pod = "up" /\ th["tick"].pc = "idle" /\ Moves("tick", "scan")
         /\ UNCHANGED <<pod, live, gens, agent, sidecar, recorded, given, past>>
<1>1. Moves("tick", "scan") /\ th' \in [Threads -> Serving(given)]
  BY GoMoves, ThreadsAre DEF TickDue, Pcs
<1> QED BY <1>1 DEF TickDue, Typed

LEMMA AfterIs == \A t \in Checkpointers : After(t) \in {"forward", "over", "idle"}
BY DEF After

LEMMA ScanIs ==
  ASSUME Typed, NEW t \in Checkpointers, Scan(t)
  PROVE  /\ Typed' /\ th[t].pc = "scan" /\ sidecar.mu = NoOne /\ Others(t) /\ th'[t].failed = th[t].failed /\ th'[t].run = th[t].run
         /\ \/ /\ live # sidecar.last /\ SidecarAt(sidecar.last, t) /\ th'[t].pc = "label" /\ th'[t].scan = live
            \/ live = sidecar.last /\ sidecar' = sidecar /\ Moves(t, After(t))
         /\ UNCHANGED <<pod, live, gens, agent, recorded, given, past>>
<1>0. t \in Threads /\ After(t) \in Pcs
  BY ThreadsAre, AfterIs DEF Pcs
<1>1. CASE live # sidecar.last
  <2>1. sidecar' = [sidecar EXCEPT !.mu = t] /\ th' = [th EXCEPT ![t].pc = "label", ![t].scan = live]
    BY <1>1 DEF Scan, Changed, Lock
  <2>2. sidecar' \in Sidecars(given) /\ SidecarAt(sidecar.last, t)
    BY <1>0, <2>1 DEF Typed, Sidecars, SidecarAt
  <2>3. th \in [Threads -> Serving(given)] /\ th[t] \in Serving(given) /\ live \in Trees(given)
    BY <1>0 DEF Typed
  <2>4. th'[t] = [th[t] EXCEPT !.pc = "label", !.scan = live] /\ Others(t)
    BY <1>0, <2>1, <2>3 DEF Others
  <2>5. th'[t] \in Serving(given) /\ th'[t].pc = "label" /\ th'[t].scan = live /\ th'[t].failed = th[t].failed /\ th'[t].run = th[t].run
    BY <2>3, <2>4 DEF Serving, Pcs
  <2>6. th' \in [Threads -> Serving(given)]
    BY <1>0, <2>1, <2>3, <2>4, <2>5
  <2> QED BY <1>1, <2>2, <2>4, <2>5, <2>6 DEF Scan, Typed
<1>2. CASE live = sidecar.last
  <2>1. sidecar' = sidecar /\ Go(t, After(t))
    BY <1>2 DEF Scan, Changed
  <2>2. Moves(t, After(t)) /\ th' \in [Threads -> Serving(given)]
    BY <1>0, <2>1, GoMoves
  <2> QED BY <1>2, <2>1, <2>2 DEF Scan, Typed, Moves
<1> QED BY <1>1, <1>2

LEMMA CheckpointFailsIs ==
  ASSUME Typed, NEW t \in Checkpointers, CheckpointFails(t)
  PROVE  /\ Typed' /\ th[t].pc \in {"label", "copy", "prune"} /\ SidecarAt(sidecar.last, NoOne)
         /\ Others(t) /\ th'[t].pc = After(t) /\ (th'[t].failed <=> th[t].pc # "prune") /\ th'[t].run = th[t].run
         /\ UNCHANGED <<pod, live, gens, agent, recorded, given, past>>
<1>0. t \in Threads /\ After(t) \in Pcs
  BY ThreadsAre, AfterIs DEF Pcs
<1>1. /\ th[t].pc \in {"label", "copy", "prune"} /\ sidecar' = [sidecar EXCEPT !.mu = NoOne] /\ faults' \in 0..MaxFaults
      /\ th' = [th EXCEPT ![t].pc = After(t), ![t].failed = th[t].pc # "prune"]
      /\ UNCHANGED <<pod, pods, live, gens, agent, recorded, given, past>>
  BY FaultIs DEF CheckpointFails
<1>2. sidecar' \in Sidecars(given) /\ SidecarAt(sidecar.last, NoOne)
  BY <1>1 DEF Typed, Sidecars, SidecarAt
<1>3. th \in [Threads -> Serving(given)] /\ th[t] \in Serving(given)
  BY <1>0 DEF Typed
<1>4. th'[t] = [th[t] EXCEPT !.pc = After(t), !.failed = th[t].pc # "prune"] /\ Others(t)
  BY <1>0, <1>1, <1>3 DEF Others
<1>5. th'[t] \in Serving(given) /\ th'[t].pc = After(t) /\ (th'[t].failed <=> th[t].pc # "prune") /\ th'[t].run = th[t].run
  BY <1>0, <1>3, <1>4 DEF Serving
<1>6. th' \in [Threads -> Serving(given)]
  BY <1>0, <1>1, <1>3, <1>4, <1>5
<1> QED BY <1>1, <1>2, <1>4, <1>5, <1>6 DEF Typed

-----------------------------------------------------------------------------
(* The generations. *)

Newest == gens[Len(gens)]
One == \A i, j \in 1..Len(gens) : gens[i].current /\ gens[j].current => i = j

LEMMA GensAre ==
  ASSUME Typed
  PROVE  /\ Len(gens) \in Nat /\ DOMAIN gens = 1..Len(gens) /\ \A i \in 1..Len(gens) : gens[i] \in Generations(given)
         /\ gens # <<>> => Len(gens) \in 1..Len(gens) /\ Newest \in Generations(given)
<1>1. gens \in Seq(Generations(given))
  BY DEF Typed
<1>2. Len(gens) \in Nat /\ DOMAIN gens = 1..Len(gens) /\ \A i \in 1..Len(gens) : gens[i] \in Generations(given)
  BY <1>1
<1>3. gens # <<>> => Len(gens) \in 1..Len(gens)
  BY <1>1
<1> QED BY <1>2, <1>3 DEF Newest

\* The current generation is what a restore would use.
LEMMA CurrentIs ==
  ASSUME Typed, One, NEW i \in 1..Len(gens), gens[i].current
  PROVE  Current = gens[i].at
<1> DEFINE cur == {j \in 1..Len(gens) : gens[j].current}
<1>1. cur = {i}
  BY DEF One
<1>2. (CHOOSE j \in cur : TRUE) = i
  BY <1>1
<1> QED BY <1>1, <1>2 DEF Current

\* No generation is current that was not, and those that were are as they were.
LEMMA CurrentStays ==
  ASSUME Typed, Typed', One, Len(gens) <= Len(gens)',
         \A i \in 1..Len(gens) : gens'[i].current = gens[i].current /\ (gens[i].current => gens'[i].at = gens[i].at),
         \A i \in (Len(gens) + 1)..Len(gens)' : ~gens'[i].current
  PROVE  Current' = Current /\ One'
<1>1. Len(gens) \in Nat /\ Len(gens)' \in Nat
  <2>1. gens \in Seq(Generations(given)) /\ gens' \in Seq(Generations(given'))
    BY DEF Typed
  <2> QED BY <2>1
<1> DEFINE cur == {j \in 1..Len(gens) : gens[j].current}
<1>2. {j \in 1..Len(gens)' : gens'[j].current} = cur
  <2>1. \A j \in 1..Len(gens)' : j \in 1..Len(gens) \/ j \in (Len(gens) + 1)..Len(gens)'
    BY <1>1
  <2>2. \A j \in 1..Len(gens) : j \in 1..Len(gens)'
    BY <1>1
  <2> QED BY <2>1, <2>2
<1>3. One'
  BY <1>2 DEF One
<1>4. cur # {} => (CHOOSE j \in cur : TRUE) \in cur
  OBVIOUS
<1>5. Current' = IF cur = {} THEN Empty ELSE gens'[CHOOSE j \in cur : TRUE].at
  BY <1>2 DEF Current
<1>6. Current = IF cur = {} THEN Empty ELSE gens[CHOOSE j \in cur : TRUE].at
  BY DEF Current
<1>7. Current' = Current
  <2> HIDE DEF Current
  <2>1. cur # {} => gens'[CHOOSE j \in cur : TRUE].at = gens[CHOOSE j \in cur : TRUE].at
    BY <1>4
  <2> QED BY <1>5, <1>6, <2>1
<1> QED BY <1>3, <1>7

LEMMA LabelIs ==
  ASSUME Typed, One, NEW t \in Checkpointers, Label(t)
  PROVE  /\ Typed' /\ th[t].pc = "label" /\ One' /\ Current' = Current /\ gens' # <<>>
         /\ Others(t) /\ th'[t].pc = "copy" /\ th'[t].run = th[t].run /\ th'[t].scan = th[t].scan
         /\ th'[t].failed = th[t].failed
         /\ th'[t].todo = {f \in Files : th[t].scan[f] # {}}
         /\ Len(gens)' = Len(gens) + 1 /\ (\A i \in 1..Len(gens) : gens'[i] = gens[i])
         /\ ~Newest'.current /\ ~Newest'.boundary /\ (Newest'.quiesced <=> ~sidecar.inflight) /\ Newest'.at = Empty
         /\ UNCHANGED <<pod, live, agent, sidecar, recorded, given, past>>
<1> DEFINE g == [at |-> Empty, quiesced |-> ~sidecar.inflight, current |-> FALSE, whole |-> FALSE, boundary |-> FALSE]
           todo == {f \in Files : th[t].scan[f] # {}}
<1>0. t \in Threads /\ given \in Nat /\ gens \in Seq(Generations(given)) /\ th \in [Threads -> Serving(given)]
  BY ThreadsAre, GivenIs DEF Typed
<1>1. /\ th[t].pc = "label" /\ gens' = Append(gens, g) /\ th' = [th EXCEPT ![t].pc = "copy", ![t].todo = todo]
      /\ UNCHANGED <<pod, pods, live, agent, sidecar, recorded, given, faults, past>>
  BY DEF Label
<1>2. g \in Generations(given) /\ ~g.current /\ ~g.boundary /\ (g.quiesced <=> ~sidecar.inflight) /\ g.at = Empty
  <2>1. Empty \in Trees(given)
    BY <1>0, EmptyIs
  <2> QED BY <2>1 DEF Generations
<1> HIDE DEF g
<1>3. /\ gens' \in Seq(Generations(given)) /\ Len(gens)' = Len(gens) + 1 /\ Newest' = g /\ gens' # <<>>
      /\ \A i \in 1..Len(gens) : gens'[i] = gens[i]
  BY <1>0, <1>1, <1>2 DEF Newest
<1>4. todo \in SUBSET Files
  OBVIOUS
<1>5. /\ Others(t) /\ th'[t].pc = "copy" /\ th'[t].run = th[t].run /\ th'[t].scan = th[t].scan
      /\ th'[t].failed = th[t].failed
      /\ th'[t].todo = todo /\ th' \in [Threads -> Serving(given)]
  <2> HIDE DEF todo
  <2>1. th'[t] = [th[t] EXCEPT !.pc = "copy", !.todo = todo] /\ Others(t) /\ th[t] \in Serving(given)
    BY <1>0, <1>1 DEF Others
  <2>2. /\ th'[t] \in Serving(given) /\ th'[t].pc = "copy" /\ th'[t].run = th[t].run /\ th'[t].scan = th[t].scan
        /\ th'[t].failed = th[t].failed
        /\ th'[t].todo = todo
    BY <1>4, <2>1 DEF Serving, Pcs
  <2> QED BY <1>0, <1>1, <2>1, <2>2
<1>6. Typed'
  BY <1>1, <1>3, <1>5 DEF Typed
<1>7. Current' = Current /\ One'
  <2>1. Len(gens) \in Nat /\ Len(gens) <= Len(gens)'
    BY <1>0, <1>3
  <2>2. \A i \in (Len(gens) + 1)..Len(gens)' : i = Len(gens)'
    BY <1>3, <2>1
  <2>3. \A i \in (Len(gens) + 1)..Len(gens)' : ~gens'[i].current
    BY <1>2, <1>3, <2>2 DEF Newest
  <2> QED BY <1>3, <1>6, <2>1, <2>3, CurrentStays
<1> QED BY <1>1, <1>2, <1>3, <1>5, <1>6, <1>7

LEMMA CopyIs ==
  ASSUME Typed, One, NEW t \in Checkpointers, NEW f \in Files, Copy(t, f), gens # <<>>, ~Newest.current
  PROVE  /\ Typed' /\ th[t].pc = "copy" /\ f \in th[t].todo /\ One' /\ Current' = Current /\ gens' # <<>>
         /\ Others(t) /\ th'[t].pc = "copy" /\ th'[t].run = th[t].run /\ th'[t].scan = th[t].scan
         /\ th'[t].failed = th[t].failed
         /\ th'[t].todo = th[t].todo \ {f}
         /\ Len(gens)' = Len(gens) /\ (\A i \in 1..Len(gens) : i # Len(gens) => gens'[i] = gens[i])
         /\ ~Newest'.current /\ Newest'.boundary = Newest.boundary /\ Newest'.quiesced = Newest.quiesced
         /\ Newest'.whole = Newest.whole
         /\ Newest'.at[f] = (IF Current[f] = th[t].scan[f] THEN Current[f] ELSE live[f])
         /\ (\A g \in Files \ {f} : Newest'.at[g] = Newest.at[g])
         /\ UNCHANGED <<pod, live, agent, sidecar, recorded, given, past>>
<1> DEFINE c == IF Current[f] = th[t].scan[f] THEN Current[f] ELSE live[f]
<1>0. t \in Threads /\ given \in Nat /\ gens \in Seq(Generations(given)) /\ th \in [Threads -> Serving(given)]
  BY ThreadsAre, GivenIs DEF Typed
<1>1. /\ th[t].pc = "copy" /\ f \in th[t].todo /\ gens' = [gens EXCEPT ![Len(gens)].at[f] = c]
      /\ th' = [th EXCEPT ![t].todo = @ \ {f}]
      /\ UNCHANGED <<pod, pods, live, agent, sidecar, recorded, given, faults, past>>
  BY DEF Copy
<1>2. c \in SUBSET (1..given)
  <2>1. Current[f] \in SUBSET (1..given)
    BY CurrentTyped DEF Trees
  <2>2. live[f] \in SUBSET (1..given)
    BY DEF Typed, Trees
  <2> QED BY <2>1, <2>2
<1> HIDE DEF c
<1>3. Len(gens) \in Nat /\ Len(gens) \in 1..Len(gens) /\ DOMAIN gens = 1..Len(gens) /\ Newest \in Generations(given)
  BY GensAre
<1>4. gens' = [gens EXCEPT ![Len(gens)] = [Newest EXCEPT !.at = [@ EXCEPT ![f] = c]]]
  BY <1>1 DEF Newest
<1> DEFINE new == [Newest EXCEPT !.at = [@ EXCEPT ![f] = c]]
<1>5. /\ new \in Generations(given) /\ new.current = Newest.current /\ new.boundary = Newest.boundary
      /\ new.quiesced = Newest.quiesced /\ new.whole = Newest.whole
      /\ new.at[f] = c /\ \A g \in Files \ {f} : new.at[g] = Newest.at[g]
  <2>1. Newest.at \in Trees(given) /\ new.at = [Newest.at EXCEPT ![f] = c]
    BY <1>3 DEF Generations
  <2>2. new.at \in Trees(given) /\ new.at[f] = c /\ \A g \in Files \ {f} : new.at[g] = Newest.at[g]
    BY <1>2, <2>1 DEF Trees
  <2>3. [Newest.at EXCEPT ![f] = c] \in Trees(given)
    BY <2>1, <2>2
  <2> QED BY <1>3, <2>2, <2>3 DEF Generations
<1> HIDE DEF new
<1>6. gens' \in Seq(Generations(given)) /\ Len(gens)' = Len(gens) /\ gens'[Len(gens)] = new
  <2>1. gens' = [gens EXCEPT ![Len(gens)] = new]
    BY <1>4 DEF new
  <2> QED BY <1>0, <1>3, <1>5, <2>1
<1>7. \A i \in 1..Len(gens) : i # Len(gens) => gens'[i] = gens[i]
  BY <1>1, <1>3
<1>8. Newest' = new /\ gens' # <<>>
  BY <1>3, <1>6 DEF Newest
<1>9. /\ Others(t) /\ th'[t].pc = "copy" /\ th'[t].run = th[t].run /\ th'[t].scan = th[t].scan
      /\ th'[t].failed = th[t].failed
      /\ th'[t].todo = th[t].todo \ {f} /\ th' \in [Threads -> Serving(given)]
  <2>1. th'[t] = [th[t] EXCEPT !.todo = th[t].todo \ {f}] /\ Others(t) /\ th[t] \in Serving(given)
    BY <1>0, <1>1 DEF Others
  <2>2. /\ th'[t] \in Serving(given) /\ th'[t].pc = "copy" /\ th'[t].run = th[t].run /\ th'[t].scan = th[t].scan
        /\ th'[t].failed = th[t].failed
        /\ th'[t].todo = th[t].todo \ {f}
    BY <1>1, <2>1 DEF Serving
  <2> QED BY <1>0, <1>1, <2>1, <2>2
<1>10. Typed'
  BY <1>1, <1>6, <1>9 DEF Typed
<1>11. Current' = Current /\ One'
  <2>1. \A i \in 1..Len(gens) : gens'[i].current = gens[i].current /\ (gens[i].current => gens'[i].at = gens[i].at)
    BY <1>5, <1>6, <1>7 DEF Newest
  <2>2. Len(gens) <= Len(gens)' /\ \A i \in (Len(gens) + 1)..Len(gens)' : ~gens'[i].current
    BY <1>3, <1>6
  <2> QED BY <1>10, <2>1, <2>2, CurrentStays
<1> QED BY <1>1, <1>5, <1>6, <1>7, <1>8, <1>9, <1>10, <1>11 DEF c

LEMMA SwapIs ==
  ASSUME Typed, NEW t \in Checkpointers, Swap(t), gens # <<>>
  PROVE  /\ Typed' /\ th[t].pc = "copy" /\ th[t].todo = {} /\ One' /\ Current' = Newest.at /\ gens' # <<>> /\ Moves(t, "prune")
         /\ Len(gens)' = Len(gens)
         /\ (\A i \in 1..Len(gens) : /\ i # Len(gens) => gens'[i].whole = gens[i].whole /\ gens'[i].boundary = gens[i].boundary
                                     /\ gens'[i].quiesced = gens[i].quiesced)
         /\ Newest'.current /\ (Newest'.whole <=> Newest.at \in past.calm) /\ (Newest'.boundary <=> t \in Reports /\ agent.on = t)
         /\ Newest'.at = Newest.at
         /\ (past'.bare <=> past.bare \/ past.partial) /\ PastBut({"bare"})
         /\ UNCHANGED <<pod, live, agent, sidecar, recorded, given>>
<1>0. t \in Threads /\ given \in Nat /\ gens \in Seq(Generations(given))
  BY ThreadsAre, GivenIs DEF Typed
<1> DEFINE new(i) == IF i = Len(gens)
                     THEN [gens[i] EXCEPT !.current = TRUE, !.whole = gens[i].at \in past.calm,
                                          !.boundary = t \in Reports /\ Waits(t)]
                     ELSE [gens[i] EXCEPT !.current = FALSE]
<1>1. /\ th[t].pc = "copy" /\ th[t].todo = {} /\ gens' = [i \in 1..Len(gens) |-> new(i)] /\ Go(t, "prune")
      /\ past' = [past EXCEPT !.bare = @ \/ past.partial]
      /\ UNCHANGED <<pod, pods, live, agent, sidecar, recorded, given, faults>>
  BY DEF Swap
<1>2. Len(gens) \in Nat /\ Len(gens) \in 1..Len(gens) /\ \A i \in 1..Len(gens) : gens[i] \in Generations(given)
  BY GensAre
<1>3. \A i \in 1..Len(gens) :
        /\ new(i) \in Generations(given) /\ new(i).at = gens[i].at /\ new(i).quiesced = gens[i].quiesced
        /\ (new(i).current <=> i = Len(gens))
        /\ i # Len(gens) => new(i).whole = gens[i].whole /\ new(i).boundary = gens[i].boundary
        /\ i = Len(gens) => (new(i).whole <=> gens[i].at \in past.calm) /\ (new(i).boundary <=> t \in Reports /\ agent.on = t)
  <2> TAKE i \in 1..Len(gens)
  <2>1. gens[i] \in Generations(given)
    BY <1>2
  <2>2. CASE i = Len(gens)
    <3> DEFINE whole == gens[i].at \in past.calm
               boundary == t \in Reports /\ agent.on = t
    <3>1. new(i) = [gens[i] EXCEPT !.current = TRUE, !.whole = whole, !.boundary = boundary]
      BY <2>2 DEF Waits
    <3>2. whole \in BOOLEAN /\ boundary \in BOOLEAN
      OBVIOUS
    <3> HIDE DEF new, whole, boundary
    <3>3. /\ new(i) \in Generations(given) /\ new(i).at = gens[i].at /\ new(i).quiesced = gens[i].quiesced
          /\ new(i).current = TRUE /\ new(i).whole = whole /\ new(i).boundary = boundary
      BY <2>1, <3>1, <3>2 DEF Generations
    <3> QED BY <2>2, <3>3 DEF whole, boundary
  <2>3. CASE i # Len(gens)
    BY <2>1, <2>3 DEF Generations
  <2> QED BY <2>2, <2>3
<1> HIDE DEF new
<1>4. gens' \in Seq(Generations(given)) /\ Len(gens)' = Len(gens) /\ \A i \in 1..Len(gens) : gens'[i] = new(i)
  BY <1>1, <1>2, <1>3
<1>5. Newest' = new(Len(gens)) /\ gens' # <<>>
  BY <1>2, <1>4 DEF Newest
<1>6. Moves(t, "prune") /\ th' \in [Threads -> Serving(given)]
  BY <1>0, <1>1, GoMoves DEF Pcs
<1>7. (past'.bare <=> past.bare \/ past.partial) /\ PastBut({"bare"}) /\ past' \in Pasts(given)
  BY <1>1 DEF Typed, Pasts, PastBut
<1>8. Typed'
  BY <1>1, <1>4, <1>6, <1>7 DEF Typed
<1>9. One'
  BY <1>3, <1>4 DEF One
<1>10. Current' = Newest.at
  <2>1. Len(gens)' \in 1..Len(gens)' /\ gens'[Len(gens)'].current
    BY <1>2, <1>3, <1>4
  <2>2. Current' = gens'[Len(gens)'].at
    <3>1. PICK n \in 1..Len(gens)' : n = Len(gens)'
      BY <2>1
    <3>2. {j \in 1..Len(gens)' : gens'[j].current} = {n}
      BY <1>3, <1>4, <3>1
    <3> QED BY <3>1, <3>2 DEF Current
  <2> QED BY <1>2, <1>3, <1>4, <2>2 DEF Newest
<1> QED BY <1>1, <1>2, <1>3, <1>4, <1>5, <1>6, <1>7, <1>8, <1>9, <1>10 DEF Newest

LEMMA PruneIs ==
  ASSUME Typed, One, NEW t \in Checkpointers, Prune(t), gens # <<>>, Newest.current
  PROVE  /\ Typed' /\ th[t].pc = "prune" /\ One' /\ Current' = Current /\ gens' # <<>> /\ Moves(t, After(t))
         /\ SidecarAt(th[t].scan, NoOne) /\ Newest' = Newest
         /\ (\A i \in 1..Len(gens)' : \E j \in 1..Len(gens) : gens'[i] = gens[j])
         /\ UNCHANGED <<pod, live, agent, recorded, given, past>>
<1>0. t \in Threads /\ given \in Nat /\ gens \in Seq(Generations(given)) /\ After(t) \in Pcs /\ Retain \in Nat /\ Retain > 0
  BY ThreadsAre, GivenIs, AfterIs, Bounds DEF Typed, Pcs
<1>1. /\ th[t].pc = "prune" /\ gens' = Kept /\ sidecar' = [sidecar EXCEPT !.last = th[t].scan, !.mu = NoOne] /\ Go(t, After(t))
      /\ UNCHANGED <<pod, pods, live, agent, recorded, given, faults, past>>
  BY DEF Prune, Remembered
<1>2. Len(gens) \in Nat /\ Len(gens) \in 1..Len(gens) /\ Len(gens) > 0
  BY GensAre
<1>3. PICK n \in Nat : /\ n < Len(gens) /\ gens' \in Seq(Generations(given)) /\ Len(gens)' = Len(gens) - n
                       /\ \A i \in 1..Len(gens)' : gens'[i] = gens[i + n]
  <2>1. CASE Len(gens) - Retain <= 0
    <3>1. gens' = gens
      BY <1>1, <2>1 DEF Kept
    <3> QED BY <1>0, <1>2, <3>1
  <2>2. CASE ~(Len(gens) - Retain <= 0)
    <3>1. PICK n \in Nat : n = Len(gens) - Retain /\ n > 0 /\ n < Len(gens)
      BY <1>0, <1>2, <2>2
    <3>2. {i \in 1..n : gens[i].current} = {}
      <4>1. \A i \in 1..n : i \in 1..Len(gens) /\ i # Len(gens)
        BY <1>2, <3>1
      <4> QED BY <1>2, <4>1 DEF One, Newest
    <3>3. gens' = <<>> \o SubSeq(gens, n + 1, Len(gens))
      BY <1>1, <2>2, <3>1, <3>2 DEF Kept
    <3> DEFINE s == SubSeq(gens, n + 1, Len(gens))
    <3>4. s \in Seq(Generations(given)) /\ Len(s) = Len(gens) - n /\ \A i \in 1..Len(s) : s[i] = gens[i + n]
      BY <1>0, <1>2, <3>1
    <3> HIDE DEF s
    <3>5. gens' = s
      BY <3>3, <3>4 DEF s
    <3> QED BY <3>1, <3>4, <3>5
  <2> QED BY <2>1, <2>2
<1>4. Len(gens)' \in Nat /\ Len(gens)' \in 1..Len(gens)' /\ gens' # <<>> /\ Newest' = Newest
  <2>1. Len(gens)' \in Nat /\ Len(gens)' \in 1..Len(gens)' /\ Len(gens)' + n = Len(gens)
    BY <1>2, <1>3
  <2>2. gens'[Len(gens)'] = gens[Len(gens)' + n]
    BY <1>3, <2>1
  <2>3. gens' # <<>>
    BY <2>1
  <2> QED BY <2>1, <2>2, <2>3 DEF Newest
<1>5. \A i \in 1..Len(gens)' : i + n \in 1..Len(gens) /\ gens'[i] = gens[i + n]
  BY <1>2, <1>3, <1>4
<1>6. Moves(t, After(t)) /\ th' \in [Threads -> Serving(given)]
  BY <1>0, <1>1, GoMoves
<1>7. sidecar' \in Sidecars(given) /\ SidecarAt(th[t].scan, NoOne)
  <2>1. th[t].scan \in Trees(given)
    BY <1>0 DEF Typed, Serving
  <2> QED BY <1>1, <2>1 DEF Typed, Sidecars, SidecarAt
<1>8. Typed'
  BY <1>1, <1>3, <1>6, <1>7 DEF Typed
<1>9. One'
  <2> SUFFICES ASSUME NEW i \in 1..Len(gens)', NEW j \in 1..Len(gens)', gens'[i].current, gens'[j].current PROVE i = j
    BY DEF One
  <2>1. i + n = j + n
    BY <1>5 DEF One
  <2>2. i \in Nat /\ j \in Nat
    BY <1>4
  <2> QED BY <2>1, <2>2
<1>10. Current' = Current
  <2>1. Current = Newest.at
    BY <1>2, CurrentIs DEF Newest
  <2>2. Current' = Newest'.at
    <3>1. PICK m \in 1..Len(gens)' : m = Len(gens)'
      BY <1>4
    <3>2. gens'[m].current
      BY <1>4, <3>1 DEF Newest
    <3>3. {j \in 1..Len(gens)' : gens'[j].current} = {m}
      BY <1>9, <3>2 DEF One
    <3> QED BY <3>1, <3>3 DEF Current, Newest
  <2> QED BY <1>4, <2>1, <2>2
<1> QED BY <1>1, <1>4, <1>5, <1>6, <1>7, <1>8, <1>9, <1>10

-----------------------------------------------------------------------------
(* Which thread does what, and who holds the mutex. *)

Copying(t) == th[t].pc \in {"label", "copy", "prune"}

\* Where a thread can be, and for whom the agent waits.
Placed ==
  /\ \A p \in Polls : th[p].pc \in {"idle", "lock", "restore", "forward"}
  /\ \A t \in Checkpointers : th[t].pc \in {"idle", "scan", "label", "copy", "prune", After(t)}
  /\ agent.on \in Polls => agent.st = "polling" /\ th[agent.on].pc # "idle"
  /\ agent.on \in Reports => agent.st = "reporting" /\ th[agent.on].pc # "idle"
  /\ agent.st = "polling" => agent.on \in Polls
  /\ agent.st # "none" => pod = "up"

\* Whoever restores or copies holds the mutex.
Guarded == \A t \in Threads : th[t].pc = "restore" \/ Copying(t) => sidecar.mu = t

\* One generation is current, and one that is being built is the last.
Built ==
  /\ One
  /\ \A t \in Checkpointers : th[t].pc \in {"copy", "prune"} => gens # <<>> /\ (Newest.current <=> th[t].pc = "prune")

Sound == Typed /\ Placed /\ Guarded /\ Built

LEMMA SoundInit == Init => Sound
<1> SUFFICES ASSUME Init PROVE Sound
  OBVIOUS
<1>1. /\ pod = "none" /\ pods = 0 /\ live = Empty /\ gens = <<>> /\ agent = NoAgent /\ sidecar = Fresh
      /\ th = [t \in Threads |-> AtRest] /\ recorded = {} /\ given = 0 /\ faults = 0
      /\ past = [unsaved |-> {}, partial |-> FALSE, bare |-> FALSE, late |-> FALSE, seeded |-> FALSE, calm |-> {Empty}]
  BY DEF Init
<1>2. /\ Empty \in Trees(0) /\ AtRest \in Serving(0) /\ AtRest.pc = "idle" /\ NoAgent \in Agents(0) /\ NoAgent.st = "none"
      /\ NoAgent.on = NoOne /\ Fresh \in Sidecars(0)
  BY EmptyIs
<1>3. Typed
  <2>1. past \in Pasts(0)
    BY <1>1, <1>2 DEF Pasts
  <2>2. gens \in Seq(Generations(0)) /\ th \in [Threads -> Serving(0)]
    BY <1>1, <1>2
  <2> QED BY <1>1, <1>2, <2>1, <2>2, Bounds DEF Typed
<1>4. \A t \in Threads : th[t].pc = "idle"
  BY <1>1, <1>2
<1>5. Placed /\ Guarded
  BY <1>1, <1>2, <1>4, ThreadsAre DEF Placed, Guarded, Copying
<1>6. Built
  <2>1. Len(gens) = 0
    BY <1>1
  <2> QED BY <1>4, <2>1, ThreadsAre DEF Built, One
<1> QED BY <1>3, <1>5, <1>6 DEF Sound

\* Who is at work on a generation is alone.
LEMMA Alone ==
  ASSUME Sound
  PROVE  /\ \A t, u \in Threads : (th[t].pc = "restore" \/ Copying(t)) /\ (th[u].pc = "restore" \/ Copying(u)) => t = u
         /\ sidecar.mu = NoOne => \A t \in Threads : th[t].pc # "restore" /\ ~Copying(t)
BY ThreadsAre DEF Sound, Guarded

\* What is said of the generation at work goes on, when no thread takes one up.
LEMMA BuiltStays ==
  ASSUME Sound, gens' = gens, \A t \in Checkpointers : th'[t].pc \in {"copy", "prune"} => th'[t].pc = th[t].pc
  PROVE  Built'
<1>1. Newest' = Newest /\ (One' <=> One)
  BY DEF Newest, One
<1> QED BY <1>1 DEF Sound, Built

LEMMA PodSound == ASSUME Sound, Pod PROVE Sound'
<1>0. Typed
  BY DEF Sound
<1>1. CASE PodStarts
  <2>1. Typed' /\ agent' = Idle /\ pod' = "up" /\ th' = th /\ sidecar' = sidecar /\ gens' = gens
    BY <1>0, <1>1, PodStartsIs
  <2>2. Idle.on = NoOne /\ Idle.st = "idle"
    BY EmptyIs
  <2>3. Placed' /\ Guarded'
    BY <2>1, <2>2, ThreadsAre DEF Sound, Placed, Guarded, Copying, After
  <2> QED BY <2>1, <2>3, BuiltStays DEF Sound
<1>2. CASE PodEnds
  <2>1. Typed' /\ agent' = NoAgent /\ pod' = "ending" /\ Moves("term", "scan") /\ sidecar' = sidecar /\ gens' = gens
    BY <1>0, <1>2, PodEndsIs
  <2>2. NoAgent.on = NoOne /\ NoAgent.st = "none"
    BY EmptyIs
  <2>3. Placed' /\ Guarded'
    BY <2>1, <2>2, ThreadsAre DEF Sound, Placed, Guarded, Copying, After, Moves, Others
  <2>4. \A t \in Checkpointers : th'[t].pc \in {"copy", "prune"} => th'[t].pc = th[t].pc
    BY <2>1, ThreadsAre DEF Moves, Others
  <2> QED BY <2>1, <2>3, <2>4, BuiltStays DEF Sound
<1>3. CASE PodGone \/ PodLost
  <2>1. Typed' /\ agent' = NoAgent /\ (\A t \in Threads : th'[t] = AtRest) /\ gens' = gens
    BY <1>0, <1>3, GoneIs
  <2>2. NoAgent.on = NoOne /\ NoAgent.st = "none" /\ AtRest.pc = "idle"
    BY EmptyIs
  <2>3. Placed' /\ Guarded'
    BY <2>1, <2>2, ThreadsAre DEF Placed, Guarded, Copying, After
  <2> QED BY <2>1, <2>2, <2>3, BuiltStays, ThreadsAre DEF Sound
<1>4. CASE SidecarRestarts
  <2>1. /\ Typed' /\ AgentOn(IF agent.st = "polling" THEN "idle" ELSE agent.st, NoOne) /\ (\A t \in Threads : th'[t] = AtRest)
        /\ gens' = gens /\ pod' = pod
    BY <1>0, <1>4, SidecarRestartsIs
  <2>2. AtRest.pc = "idle"
    BY EmptyIs
  <2>3. Placed' /\ Guarded'
    BY <2>1, <2>2, ThreadsAre DEF Sound, Placed, Guarded, Copying, After, AgentOn
  <2> QED BY <2>1, <2>2, <2>3, BuiltStays, ThreadsAre DEF Sound
<1> QED BY <1>1, <1>2, <1>3, <1>4 DEF Pod

LEMMA AgentSound == ASSUME Sound, Agent PROVE Sound'
<1>0. Typed
  BY DEF Sound
<1>1. CASE RequestTimesOut
  <2>1. /\ Typed' /\ AgentOn(IF agent.st = "polling" THEN "idle" ELSE agent.st, NoOne) /\ th' = th
        /\ gens' = gens /\ pod' = pod /\ sidecar' = sidecar
    BY <1>0, <1>1, RequestTimesOutIs
  <2>2. Placed' /\ Guarded'
    BY <2>1, ThreadsAre DEF Sound, Placed, Guarded, Copying, After, AgentOn
  <2> QED BY <2>1, <2>2, BuiltStays DEF Sound
<1>2. CASE ReportGivenUp
  <2>1. Typed' /\ agent.st = "reporting" /\ agent' = Idle /\ th' = th /\ gens' = gens /\ pod' = pod /\ sidecar' = sidecar
    BY <1>0, <1>2, ReportGivenUpIs
  <2>2. Idle.on = NoOne /\ Idle.st = "idle"
    BY EmptyIs
  <2>3. Placed' /\ Guarded'
    BY <2>1, <2>2, ThreadsAre DEF Sound, Placed, Guarded, Copying, After
  <2> QED BY <2>1, <2>3, BuiltStays DEF Sound
<1>3. ASSUME NEW f \in Files, RunWrites(f) PROVE Sound'
  <2>1. /\ Typed' /\ agent.st = "running" /\ agent'.on = agent.on /\ agent'.st \in {"running", "reporting"}
        /\ th' = th /\ gens' = gens /\ pod' = pod /\ sidecar' = sidecar
    BY <1>0, <1>3, RunWritesIs
  <2>2. Placed' /\ Guarded'
    BY <2>1, ThreadsAre DEF Sound, Placed, Guarded, Copying, After
  <2> QED BY <2>1, <2>2, BuiltStays DEF Sound
<1> QED BY <1>1, <1>2, <1>3 DEF Agent

LEMMA PollSound == ASSUME Sound, NEW p \in Polls, Poll(p) PROVE Sound'
<1>0. Typed /\ p \in Threads /\ p \notin Checkpointers /\ p \notin Reports /\ p # NoOne
  BY ThreadsAre DEF Sound
<1>1. CASE PollArrives(p)
  <2>1. /\ Typed' /\ AgentOn("polling", p) /\ Moves(p, IF sidecar.restored THEN "forward" ELSE "lock")
        /\ agent.st = "idle" /\ gens' = gens /\ pod' = pod /\ sidecar' = sidecar
    BY <1>0, <1>1, PollArrivesIs
  <2>2. Placed' /\ Guarded'
    BY <1>0, <2>1, ThreadsAre DEF Sound, Placed, Guarded, Copying, After, AgentOn, Moves, Others
  <2> QED BY <1>0, <2>1, <2>2, BuiltStays, ThreadsAre DEF Sound, Moves, Others
<1>2. CASE RestoreBegins(p)
  <2>1. /\ Typed' /\ th[p].pc = "lock" /\ sidecar.mu = NoOne /\ SidecarAt(sidecar.last, p) /\ Others(p) /\ th'[p].pc = "restore"
        /\ agent' = agent /\ gens' = gens /\ pod' = pod
    BY <1>0, <1>2, RestoreBeginsIs
  <2>2. Placed' /\ Guarded'
    BY <1>0, <2>1, Alone, ThreadsAre DEF Sound, Placed, Guarded, Copying, After, SidecarAt, Others
  <2> QED BY <1>0, <2>1, <2>2, BuiltStays, ThreadsAre DEF Sound, Others
<1>3. ASSUME NEW f \in Files, RestoreCopies(p, f) PROVE Sound'
  <2>1. /\ Typed' /\ th[p].pc = "restore" /\ Others(p) /\ th'[p].pc = "restore"
        /\ agent' = agent /\ gens' = gens /\ pod' = pod /\ sidecar' = sidecar
    BY <1>0, <1>3, RestoreCopiesIs
  <2>2. Placed' /\ Guarded'
    BY <1>0, <2>1, ThreadsAre DEF Sound, Placed, Guarded, Copying, After, Others
  <2> QED BY <1>0, <2>1, <2>2, BuiltStays, ThreadsAre DEF Sound, Others
<1>4. CASE RestoreEnds(p)
  <2>1. /\ Typed' /\ th[p].pc = "restore" /\ Moves(p, "forward") /\ SidecarAt(live, NoOne)
        /\ agent' = agent /\ gens' = gens /\ pod' = pod
    BY <1>0, <1>4, RestoreEndsIs
  <2>2. Placed' /\ Guarded'
    BY <1>0, <2>1, Alone, ThreadsAre DEF Sound, Placed, Guarded, Copying, After, SidecarAt, Moves, Others
  <2> QED BY <1>0, <2>1, <2>2, BuiltStays, ThreadsAre DEF Sound, Moves, Others
<1>5. CASE RestoreFails(p)
  <2>1. /\ Typed' /\ th[p].pc = "restore" /\ Others(p) /\ th'[p] = AtRest /\ SidecarAt(sidecar.last, NoOne)
        /\ agent' = (IF agent.on = p THEN Idle ELSE agent) /\ gens' = gens /\ pod' = pod
    BY <1>0, <1>5, RestoreFailsIs
  <2>2. Idle.on = NoOne /\ Idle.st = "idle" /\ AtRest.pc = "idle"
    BY EmptyIs
  <2>3. Placed' /\ Guarded'
    BY <1>0, <2>1, <2>2, Alone, ThreadsAre DEF Sound, Placed, Guarded, Copying, After, SidecarAt, Others
  <2> QED BY <1>0, <2>1, <2>2, <2>3, BuiltStays, ThreadsAre DEF Sound, Others
<1>6. CASE PollForwards(p)
  <2>1. /\ Typed' /\ th[p].pc = "forward" /\ sidecar'.mu = sidecar.mu /\ Others(p) /\ th'[p] = AtRest /\ gens' = gens /\ pod' = pod
        /\ \/ /\ agent.on = p
              /\ agent' = [st |-> "running", run |-> given + 1, todo |-> Files, needs |-> recorded, on |-> NoOne]
           \/ agent' = (IF agent.on = p THEN Idle ELSE agent)
    BY <1>0, <1>6, PollForwardsIs
  <2>2. Idle.on = NoOne /\ Idle.st = "idle" /\ AtRest.pc = "idle"
    BY EmptyIs
  <2>3. agent' = agent \/ (agent.on = p /\ agent'.on = NoOne /\ agent'.st \in {"running", "idle"})
    BY <2>1, <2>2
  <2>4. Placed' /\ Guarded'
    BY <1>0, <2>1, <2>2, <2>3, ThreadsAre DEF Sound, Placed, Guarded, Copying, After, Others
  <2> QED BY <1>0, <2>1, <2>2, <2>4, BuiltStays, ThreadsAre DEF Sound, Others
<1> QED BY <1>1, <1>2, <1>3, <1>4, <1>5, <1>6 DEF Poll

LEMMA ReportSound == ASSUME Sound, NEW d \in Reports, Report(d) PROVE Sound'
<1>0. Typed /\ d \in Threads /\ d \in Checkpointers /\ d \notin Polls /\ d # NoOne /\ After(d) = "forward"
  BY ThreadsAre DEF Sound, After
<1>1. CASE ReportArrives(d)
  <2>1. /\ Typed' /\ AgentOn("reporting", d) /\ Others(d) /\ th'[d].pc = "scan" /\ agent.st = "reporting"
        /\ sidecar'.mu = sidecar.mu /\ gens' = gens /\ pod' = pod
    BY <1>0, <1>1, ReportArrivesIs
  <2>2. Placed' /\ Guarded'
    BY <1>0, <2>1, ThreadsAre DEF Sound, Placed, Guarded, Copying, After, AgentOn, Moves, Others
  <2> QED BY <1>0, <2>1, <2>2, BuiltStays, ThreadsAre DEF Sound, Moves, Others
<1>2. CASE ReportForwards(d)
  <2>1. /\ Typed' /\ th[d].pc = "forward" /\ Others(d) /\ th'[d] = AtRest /\ sidecar' = sidecar /\ gens' = gens /\ pod' = pod
        /\ (agent.on # d /\ agent' = agent) \/ (agent.on = d /\ (agent' = Idle \/ AgentOn(agent.st, NoOne)))
    BY <1>0, <1>2, ReportForwardsIs DEF Sound, Placed
  <2>2. Idle.on = NoOne /\ Idle.st = "idle" /\ AtRest.pc = "idle"
    BY EmptyIs
  <2>3. (agent.on # d /\ agent' = agent) \/ (agent.on = d /\ agent'.on = NoOne /\ agent'.st \in {"reporting", "idle"})
    BY <2>1, <2>2 DEF AgentOn, Sound, Placed
  <2>4. Placed' /\ Guarded'
    BY <1>0, <2>1, <2>2, <2>3, ThreadsAre DEF Sound, Placed, Guarded, Copying, After, Others
  <2> QED BY <1>0, <2>1, <2>2, <2>4, BuiltStays, ThreadsAre DEF Sound, Others
<1> QED BY <1>1, <1>2 DEF Report

LEMMA CheckpointSound == ASSUME Sound, NEW t \in Checkpointers, Checkpoint(t) PROVE Sound'
<1>0. /\ Typed /\ One /\ t \in Threads /\ t \notin Polls /\ t # NoOne /\ After(t) \in {"forward", "over", "idle"}
      /\ (th[t].pc \in {"copy", "prune"} => gens # <<>> /\ (Newest.current <=> th[t].pc = "prune"))
  BY ThreadsAre, AfterIs DEF Sound, Built
<1>a. agent' = agent /\ pod' = pod /\ (th[t].pc # "idle" /\ th'[t].pc = "idle" => t \notin Reports)
      => (Others(t) /\ th[t].pc # "idle" /\ th'[t].pc \in {"label", "copy", "prune", After(t)} => Placed')
  BY <1>0, ThreadsAre DEF Sound, Placed, Others, After
<1>1. CASE Scan(t)
  <2>1. /\ Typed' /\ th[t].pc = "scan" /\ sidecar.mu = NoOne /\ Others(t) /\ agent' = agent /\ pod' = pod /\ gens' = gens
        /\ \/ SidecarAt(sidecar.last, t) /\ th'[t].pc = "label"
           \/ sidecar' = sidecar /\ th'[t].pc = After(t)
    BY <1>0, <1>1, ScanIs DEF Moves
  <2>2. Placed'
    BY <1>0, <1>a, <2>1 DEF After
  <2>3. Guarded'
    BY <1>0, <2>1, Alone, ThreadsAre DEF Sound, Guarded, Copying, SidecarAt, Others
  <2> QED BY <1>0, <2>1, <2>2, <2>3, BuiltStays, ThreadsAre DEF Sound, Others
<1>2. CASE Label(t)
  <2>1. /\ Typed' /\ th[t].pc = "label" /\ Others(t) /\ agent' = agent /\ pod' = pod /\ sidecar' = sidecar
        /\ th'[t].pc = "copy" /\ One' /\ gens' # <<>> /\ ~Newest'.current
    BY <1>0, <1>2, LabelIs
  <2>2. Placed'
    BY <1>0, <1>a, <2>1
  <2>3. Guarded'
    BY <1>0, <2>1, ThreadsAre DEF Sound, Guarded, Copying, Others
  <2>4. Built'
    <3>1. \A u \in Checkpointers : th'[u].pc \in {"copy", "prune"} => u = t
      BY <2>1, Alone, ThreadsAre DEF Others, Copying
    <3> QED BY <2>1, <3>1 DEF Built
  <2> QED BY <2>1, <2>2, <2>3, <2>4 DEF Sound
<1>3. ASSUME NEW f \in Files, Copy(t, f) PROVE Sound'
  <2>0. th[t].pc = "copy"
    BY <1>3 DEF Copy
  <2>1. /\ Typed' /\ Others(t) /\ agent' = agent /\ pod' = pod /\ sidecar' = sidecar
        /\ th'[t].pc = "copy" /\ One' /\ gens' # <<>> /\ ~Newest'.current
    BY <1>0, <1>3, <2>0, CopyIs
  <2>2. Placed'
    BY <1>0, <1>a, <2>0, <2>1
  <2>3. Guarded'
    BY <1>0, <2>0, <2>1, ThreadsAre DEF Sound, Guarded, Copying, Others
  <2>4. Built'
    <3>1. \A u \in Checkpointers : th'[u].pc \in {"copy", "prune"} => u = t
      BY <2>0, <2>1, Alone, ThreadsAre DEF Others, Copying
    <3> QED BY <2>1, <3>1 DEF Built
  <2> QED BY <2>1, <2>2, <2>3, <2>4 DEF Sound
<1>4. CASE Swap(t)
  <2>0. th[t].pc = "copy"
    BY <1>4 DEF Swap
  <2>1. /\ Typed' /\ Moves(t, "prune") /\ agent' = agent /\ pod' = pod /\ sidecar' = sidecar
        /\ One' /\ gens' # <<>> /\ Newest'.current
    BY <1>0, <1>4, <2>0, SwapIs
  <2>2. Placed'
    BY <1>0, <1>a, <2>0, <2>1 DEF Moves
  <2>3. Guarded'
    BY <1>0, <2>0, <2>1, ThreadsAre DEF Sound, Guarded, Copying, Others, Moves
  <2>4. Built'
    <3>1. \A u \in Checkpointers : th'[u].pc \in {"copy", "prune"} => u = t
      BY <2>0, <2>1, Alone, ThreadsAre DEF Others, Copying, Moves
    <3> QED BY <2>1, <3>1 DEF Built, Moves
  <2> QED BY <2>1, <2>2, <2>3, <2>4 DEF Sound
<1>5. CASE Prune(t)
  <2>0. th[t].pc = "prune"
    BY <1>5 DEF Prune
  <2>1. /\ Typed' /\ Moves(t, After(t)) /\ agent' = agent /\ pod' = pod /\ SidecarAt(th[t].scan, NoOne) /\ One'
    BY <1>0, <1>5, <2>0, PruneIs
  <2>2. Placed'
    BY <1>0, <1>a, <2>0, <2>1 DEF Moves, After
  <2>3. Guarded'
    BY <1>0, <2>0, <2>1, Alone, ThreadsAre DEF Sound, Guarded, Copying, Others, Moves, SidecarAt
  <2>4. Built'
    <3>1. \A u \in Checkpointers : th'[u].pc \notin {"copy", "prune"}
      BY <1>0, <2>0, <2>1, Alone, ThreadsAre DEF Others, Copying, Moves
    <3> QED BY <2>1, <3>1 DEF Built
  <2> QED BY <2>1, <2>2, <2>3, <2>4 DEF Sound
<1>6. CASE CheckpointFails(t)
  <2>1. /\ Typed' /\ Copying(t) /\ Others(t) /\ th'[t].pc = After(t) /\ agent' = agent /\ pod' = pod
        /\ SidecarAt(sidecar.last, NoOne) /\ gens' = gens
    BY <1>0, <1>6, CheckpointFailsIs DEF Copying
  <2>2. Placed'
    BY <1>0, <1>a, <2>1 DEF Copying, After
  <2>3. Guarded'
    BY <1>0, <2>1, Alone, ThreadsAre DEF Sound, Guarded, Copying, Others, SidecarAt
  <2> QED BY <1>0, <2>1, <2>2, <2>3, BuiltStays, ThreadsAre DEF Sound, Others
<1> QED BY <1>1, <1>2, <1>3, <1>4, <1>5, <1>6 DEF Checkpoint

LEMMA SoundNext == ASSUME Sound, [Next]_vars PROVE Sound'
<1>0. Typed
  BY DEF Sound
<1>1. CASE TickDue
  <2>1. Typed' /\ pod = "up" /\ th["tick"].pc = "idle" /\ Moves("tick", "scan") /\ UNCHANGED <<pod, gens, agent, sidecar>>
    BY <1>0, <1>1, TickDueIs
  <2>2. Placed' /\ Guarded'
    BY <2>1, ThreadsAre DEF Sound, Placed, Guarded, Copying, Moves, Others
  <2> QED BY <2>1, <2>2, BuiltStays, ThreadsAre DEF Sound, Moves, Others
<1>2. CASE UNCHANGED vars
  <2>1. Typed' /\ Placed' /\ Guarded'
    BY <1>2 DEF vars, Sound, Typed, Placed, Guarded, Copying
  <2> QED BY <1>2, <2>1, BuiltStays DEF Sound, vars
<1> QED BY <1>1, <1>2, PodSound, AgentSound, PollSound, ReportSound, CheckpointSound DEF Next

LEMMA AlwaysSound == Spec => []Sound
BY SoundInit, SoundNext, PTL DEF Spec

-----------------------------------------------------------------------------
(* Copies hold what was scanned. *)

Restoring == \E p \in Polls : th[p].pc = "restore"
Within(x, y) == \A f \in Files : x[f] \subseteq y[f]

\* A step that has to do neither with trees nor with copies of them.
Aside ==
  /\ live' = live /\ gens' = gens /\ sidecar'.last = sidecar.last /\ past'.seeded = past.seeded
  /\ pod' \in {pod, "up"} /\ th'["term"] = th["term"]
  /\ \A t \in Threads : th'[t].pc = "restore" \/ Copying(t)' => th'[t] = th[t]

Sweeps == PodGone \/ PodLost \/ SidecarRestarts

LEMMA Swept == ASSUME Sound, Sweeps PROVE gens' = gens /\ \A t \in Threads : th'[t].pc = "idle"
BY GoneIs, SidecarRestartsIs, EmptyIs DEF Sound, Sweeps

LEMMA Kinds ==
  ASSUME Sound, [Next]_vars
  PROVE  \/ Aside \/ PodEnds \/ Sweeps \/ (\E f \in Files : RunWrites(f))
         \/ \E p \in Polls : RestoreBegins(p) \/ RestoreEnds(p) \/ \E f \in Files : RestoreCopies(p, f)
         \/ \E t \in Checkpointers : Checkpoint(t)
<1>0. Typed
  BY DEF Sound
<1>1. PodStarts => Aside
  BY <1>0, PodStartsIs DEF Aside, Copying
<1>2. RequestTimesOut => Aside
  BY <1>0, RequestTimesOutIs DEF Aside, Copying
<1>3. ReportGivenUp => Aside
  BY <1>0, ReportGivenUpIs DEF Aside, Copying
<1>4. ASSUME NEW p \in Polls, PollArrives(p) PROVE Aside
  BY <1>0, <1>4, PollArrivesIs, ThreadsAre DEF Aside, Copying, Moves, Others
<1>5. ASSUME NEW p \in Polls, RestoreFails(p) PROVE Aside
  <2>1. AtRest.pc = "idle"
    BY EmptyIs
  <2> QED BY <1>0, <1>5, <2>1, RestoreFailsIs, ThreadsAre DEF Aside, Copying, SidecarAt, Others, PastBut
<1>6. ASSUME NEW p \in Polls, PollForwards(p) PROVE Aside
  <2>1. AtRest.pc = "idle"
    BY EmptyIs
  <2> QED BY <1>0, <1>6, <2>1, PollForwardsIs, ThreadsAre DEF Aside, Copying, Others, PastBut
<1>7. ASSUME NEW d \in Reports, ReportArrives(d) PROVE Aside
  BY <1>0, <1>7, ReportArrivesIs, ThreadsAre DEF Aside, Copying, Moves, Others
<1>8. ASSUME NEW d \in Reports, ReportForwards(d) PROVE Aside
  <2>1. AtRest.pc = "idle"
    BY EmptyIs
  <2>2. agent.on = d => agent.st = "reporting"
    BY DEF Sound, Placed
  <2> QED BY <1>0, <1>8, <2>1, <2>2, ReportForwardsIs, ThreadsAre DEF Aside, Copying, Others, PastBut
<1>9. TickDue => Aside
  BY <1>0, TickDueIs, ThreadsAre DEF Aside, Copying, Moves, Others
<1>10. UNCHANGED vars => Aside
  BY DEF vars, Aside, Copying
<1> QED BY <1>1, <1>2, <1>3, <1>4, <1>5, <1>6, <1>7, <1>8, <1>9, <1>10 DEF Next, Pod, Agent, Poll, Report, Sweeps

LEMMA SameCurrent == gens' = gens => Current' = Current /\ Newest' = Newest
BY DEF Current, Newest

\* What was scanned is still in the tree, and in what was copied of it.
Copied ==
  \A t \in Checkpointers : Copying(t) =>
    /\ th[t].scan # sidecar.last /\ Within(th[t].scan, live)
    /\ th[t].pc = "copy" => \A f \in Files \ th[t].todo : th[t].scan[f] \subseteq Newest.at[f]
    /\ th[t].pc = "prune" => Within(th[t].scan, Current)

\* What was restored is in the tree.
Restored == \A p \in Polls : th[p].pc = "restore" => \A f \in Files \ th[p].todo : Current[f] \subseteq live[f]

\* Of a step of a copy: who takes it, and that nobody else is at work before or after.
LEMMA CopiesAlone ==
  ASSUME Sound, NEW t \in Checkpointers, Checkpoint(t)
  PROVE  /\ Others(t) /\ agent' = agent /\ live' = live /\ pod' = pod /\ PastBut({"bare"})
         /\ UNCHANGED <<recorded, given>>
         /\ \/ Scan(t) /\ th[t].pc = "scan" /\ gens' = gens
            \/ Label(t) /\ th[t].pc = "label"
            \/ (\E f \in Files : Copy(t, f)) /\ th[t].pc = "copy"
            \/ Swap(t) /\ th[t].pc = "copy"
            \/ Prune(t) /\ th[t].pc = "prune"
            \/ CheckpointFails(t) /\ Copying(t) /\ gens' = gens
         /\ \A u \in Threads : u # t => /\ th'[u] = th[u]
                                        /\ th[u].pc # "restore" /\ ~Copying(u)
<1>0. t \in Threads /\ Typed /\ One /\ (th[t].pc \in {"copy", "prune"} => gens # <<>> /\ (Newest.current <=> th[t].pc = "prune"))
  BY ThreadsAre DEF Sound, Built
<1>1. CASE Scan(t)
  BY <1>0, <1>1, ScanIs, Alone DEF Others, PastBut, Copying
<1>2. CASE Label(t)
  BY <1>0, <1>2, LabelIs, Alone DEF Others, PastBut, Copying
<1>3. ASSUME NEW f \in Files, Copy(t, f) PROVE Others(t) /\ agent' = agent /\ live' = live /\ pod' = pod /\ PastBut({"bare"})
                                               /\ UNCHANGED <<recorded, given>> /\ th[t].pc = "copy"
  <2>1. th[t].pc = "copy"
    BY <1>3 DEF Copy
  <2> QED BY <1>0, <1>3, <2>1, CopyIs DEF PastBut
<1>4. CASE Swap(t)
  <2>1. th[t].pc = "copy"
    BY <1>4 DEF Swap
  <2> QED BY <1>0, <1>4, <2>1, SwapIs, Alone DEF Others, Moves, Copying
<1>5. CASE Prune(t)
  <2>1. th[t].pc = "prune"
    BY <1>5 DEF Prune
  <2> QED BY <1>0, <1>5, <2>1, PruneIs, Alone DEF Others, Moves, PastBut, Copying
<1>6. CASE CheckpointFails(t)
  BY <1>0, <1>6, CheckpointFailsIs, Alone DEF Others, PastBut, Copying
<1>7. CASE \E f \in Files : Copy(t, f)
  BY <1>0, <1>3, <1>7, Alone DEF Others, Copying
<1> QED BY <1>1, <1>2, <1>4, <1>5, <1>6, <1>7 DEF Checkpoint

\* The steps of a copy, each with all it does.
SameMarks == sidecar'.restored = sidecar.restored /\ sidecar'.inflight = sidecar.inflight

Scanned(t) ==
  /\ th[t].pc = "scan" /\ (\A u \in Threads : th[u].pc # "restore" /\ ~Copying(u))
  /\ live # sidecar.last /\ th'[t].pc = "label" /\ th'[t].scan = live /\ th'[t].failed = th[t].failed
  /\ gens' = gens /\ Current' = Current /\ sidecar'.last = sidecar.last /\ PastBut({})
Unchanged(t) ==
  /\ th[t].pc = "scan" /\ (\A u \in Threads : th[u].pc # "restore" /\ ~Copying(u))
  /\ live = sidecar.last /\ Moves(t, After(t))
  /\ gens' = gens /\ Current' = Current /\ sidecar'.last = sidecar.last /\ PastBut({})
Labelled(t) ==
  /\ th[t].pc = "label" /\ th'[t].pc = "copy" /\ th'[t].scan = th[t].scan /\ th'[t].failed = th[t].failed
  /\ th'[t].todo = {f \in Files : th[t].scan[f] # {}}
  /\ Len(gens)' = Len(gens) + 1 /\ (\A i \in 1..Len(gens) : gens'[i] = gens[i])
  /\ ~Newest'.boundary /\ (Newest'.quiesced <=> ~sidecar.inflight) /\ Newest'.at = Empty
  /\ Current' = Current /\ sidecar'.last = sidecar.last /\ PastBut({})
Copies(t, f) ==
  /\ th[t].pc = "copy" /\ f \in th[t].todo /\ th'[t].pc = "copy" /\ th'[t].scan = th[t].scan
  /\ th'[t].failed = th[t].failed /\ th'[t].todo = th[t].todo \ {f}
  /\ Len(gens)' = Len(gens) /\ (\A i \in 1..Len(gens) : i # Len(gens) => gens'[i] = gens[i])
  /\ Newest'.boundary = Newest.boundary /\ Newest'.quiesced = Newest.quiesced /\ Newest'.whole = Newest.whole
  /\ Newest'.at[f] = (IF Current[f] = th[t].scan[f] THEN Current[f] ELSE live[f])
  /\ (\A g \in Files \ {f} : Newest'.at[g] = Newest.at[g])
  /\ Current' = Current /\ sidecar'.last = sidecar.last /\ PastBut({})
Swaps(t) ==
  /\ th[t].pc = "copy" /\ th[t].todo = {} /\ Moves(t, "prune")
  /\ Len(gens)' = Len(gens)
  /\ (\A i \in 1..Len(gens) : /\ i # Len(gens) => gens'[i].whole = gens[i].whole /\ gens'[i].boundary = gens[i].boundary
                              /\ gens'[i].quiesced = gens[i].quiesced)
  /\ (Newest'.whole <=> Newest.at \in past.calm) /\ (Newest'.boundary <=> t \in Reports /\ agent.on = t)
  /\ Current' = Newest.at /\ sidecar'.last = sidecar.last
  /\ (past'.bare <=> past.bare \/ past.partial) /\ PastBut({"bare"})
Prunes(t) ==
  /\ th[t].pc = "prune" /\ Moves(t, After(t)) /\ sidecar'.last = th[t].scan
  /\ (\A i \in 1..Len(gens)' : \E j \in 1..Len(gens) : gens'[i] = gens[j])
  /\ Current' = Current /\ PastBut({})
Fails(t) ==
  /\ Copying(t) /\ th'[t].pc = After(t) /\ (th'[t].failed <=> th[t].pc # "prune")
  /\ gens' = gens /\ Current' = Current /\ sidecar'.last = sidecar.last /\ PastBut({})

LEMMA CheckpointIs ==
  ASSUME Sound, NEW t \in Checkpointers, Checkpoint(t)
  PROVE  /\ agent' = agent /\ live' = live /\ pod' = pod /\ recorded' = recorded /\ given' = given /\ SameMarks /\ th'[t].run = th[t].run
         /\ \A u \in Threads : u # t => th'[u] = th[u] /\ th[u].pc # "restore" /\ ~Copying(u)
         /\ \/ Scanned(t) \/ Unchanged(t) \/ Labelled(t) \/ (\E f \in Files : Copies(t, f))
            \/ Swaps(t) \/ Prunes(t) \/ Fails(t)
<1>0. Typed
  BY DEF Sound
<1>1. One /\ (th[t].pc \in {"copy", "prune"} => gens # <<>> /\ (Newest.current <=> th[t].pc = "prune"))
  BY DEF Sound, Built
<1>2. ASSUME Scan(t) PROVE (Scanned(t) \/ Unchanged(t)) /\ SameMarks /\ th'[t].run = th[t].run
  BY <1>0, <1>2, ScanIs, SameCurrent, Alone DEF SidecarAt, SameMarks, Scanned, Unchanged, Moves, PastBut
<1>3. ASSUME Label(t) PROVE Labelled(t) /\ SameMarks /\ th'[t].run = th[t].run
  BY <1>0, <1>1, <1>3, LabelIs DEF SameMarks, Labelled, PastBut
<1>4. ASSUME NEW f \in Files, Copy(t, f), th[t].pc = "copy" PROVE Copies(t, f) /\ SameMarks /\ th'[t].run = th[t].run
  BY <1>0, <1>1, <1>4, CopyIs DEF SameMarks, Copies, PastBut
<1>5. ASSUME Swap(t), th[t].pc = "copy" PROVE Swaps(t) /\ SameMarks /\ th'[t].run = th[t].run
  BY <1>0, <1>1, <1>5, SwapIs DEF SameMarks, Swaps, Moves
<1>6. ASSUME Prune(t), th[t].pc = "prune" PROVE Prunes(t) /\ SameMarks /\ th'[t].run = th[t].run
  BY <1>0, <1>1, <1>6, PruneIs DEF SidecarAt, SameMarks, Prunes, Moves, PastBut
<1>7. ASSUME CheckpointFails(t) PROVE Fails(t) /\ SameMarks /\ th'[t].run = th[t].run
  BY <1>0, <1>7, CheckpointFailsIs, SameCurrent DEF SidecarAt, SameMarks, Fails, Copying, PastBut
<1>8. /\ agent' = agent /\ live' = live /\ pod' = pod /\ recorded' = recorded /\ given' = given
      /\ \A u \in Threads : u # t => th'[u] = th[u] /\ th[u].pc # "restore" /\ ~Copying(u)
  BY CopiesAlone
<1> QED BY <1>2, <1>3, <1>4, <1>5, <1>6, <1>7, <1>8, CopiesAlone

\* What is reported is a run that was given out.
Named == 0 \notin recorded /\ \A d \in Reports : th[d].pc # "idle" => th[d].run # 0

LEMMA NamedNext == ASSUME Sound, Named, [Next]_vars PROVE Named'
<1>0. Typed /\ AtRest.pc = "idle" /\ given \in Nat
  BY EmptyIs, GivenIs DEF Sound
<1>1. CASE Pod
  BY <1>0, <1>1, PodStartsIs, PodEndsIs, GoneIs, SidecarRestartsIs, ThreadsAre DEF Pod, Named, Moves, Others
<1>2. CASE Agent
  BY <1>0, <1>2, RequestTimesOutIs, ReportGivenUpIs, RunWritesIs DEF Agent, Named
<1>3. ASSUME NEW p \in Polls, Poll(p) PROVE Named'
  <2>1. recorded' = recorded /\ Others(p)
    BY <1>0, <1>3, PollArrivesIs, RestoreBeginsIs, RestoreCopiesIs, RestoreEndsIs, RestoreFailsIs, PollForwardsIs
       DEF Poll, Moves
  <2> QED BY <2>1, ThreadsAre DEF Named, Others
<1>4. ASSUME NEW d \in Reports, ReportArrives(d) PROVE Named'
  <2>1. /\ Others(d) /\ th'[d].run = agent.run /\ agent.st = "reporting" /\ recorded' = recorded
    BY <1>0, <1>4, ReportArrivesIs
  <2>2. agent.run \in 1..given
    BY <1>0, <2>1 DEF Typed
  <2> QED BY <1>0, <2>1, <2>2, ThreadsAre DEF Named, Others
<1>5. ASSUME NEW d \in Reports, ReportForwards(d) PROVE Named'
  <2>1. agent.on = d => agent.st = "reporting"
    BY DEF Sound, Placed
  <2>2. /\ th[d].pc = "forward" /\ Others(d) /\ th'[d] = AtRest
        /\ recorded' = recorded \/ recorded' = recorded \cup {th[d].run}
    BY <1>0, <1>5, <2>1, ReportForwardsIs
  <2> QED BY <1>0, <2>2, ThreadsAre DEF Named, Others
<1>6. ASSUME NEW t \in Checkpointers, Checkpoint(t) PROVE Named'
  <2>1. /\ recorded' = recorded /\ Others(t) /\ th'[t].run = th[t].run /\ th[t].pc # "idle"
    BY <1>6, CheckpointIs, CopiesAlone DEF Copying
  <2> QED BY <2>1, ThreadsAre DEF Named, Others
<1>7. CASE TickDue
  BY <1>0, <1>7, TickDueIs, ThreadsAre DEF Named, Moves, Others
<1>8. CASE UNCHANGED vars
  BY <1>8 DEF vars, Named
<1> QED BY <1>1, <1>2, <1>3, <1>4, <1>5, <1>6, <1>7, <1>8 DEF Next, Report

LEMMA AlwaysNamed == Spec => [](Sound /\ Named)
<1>1. Init => Named
  <2>1. AtRest.pc = "idle"
    BY EmptyIs
  <2> QED BY <2>1, ThreadsAre DEF Init, Named
<1> QED BY <1>1, NamedNext, AlwaysSound, PTL DEF Spec

\* Every variable stays inside its shape, for any files, requests, generations kept, runs,
\* pods and faults.
THEOREM TypeCorrect == Spec => []TypeOK
<1>1. Sound /\ Named => TypeOK
  <2> SUFFICES ASSUME Sound, Named PROVE TypeOK
    OBVIOUS
  <2>1. SUBSET (1..given) \subseteq SUBSET (1..MaxRuns)
    BY Bounds DEF Sound, Typed
  <2>2. /\ pod \in {"none", "up", "ending"} /\ pods \in 0..MaxPods /\ given \in 0..MaxRuns /\ faults \in 0..MaxFaults
        /\ live \in [Files -> SUBSET (1..given)] /\ recorded \in SUBSET (0..given) /\ sidecar.mu \in Threads \cup {NoOne}
    BY DEF Sound, Typed, Trees, Sidecars
  <2>3. \A t \in Threads : th[t].pc \in Pcs
    BY DEF Sound, Typed, Serving
  <2>4. recorded \in SUBSET (1..given)
    BY <2>2, Bounds DEF Named
  <2> QED BY <2>1, <2>2, <2>3, <2>4 DEF TypeOK, Pcs
<1> QED BY <1>1, AlwaysNamed, PTL

Refills(p) == RestoreBegins(p) \/ RestoreEnds(p) \/ \E f \in Files : RestoreCopies(p, f)

\* While a tree is restored nobody copies it.
LEMMA RestoresAlone ==
  ASSUME Sound, NEW p \in Polls, Refills(p)
  PROVE  /\ gens' = gens /\ agent' = agent /\ pod' = pod /\ recorded' = recorded /\ given' = given
         /\ \A u \in Threads : u # p => th'[u] = th[u] /\ th[u].pc # "restore"
         /\ \A u \in Threads : ~Copying(u) /\ ~Copying(u)'
<1>0. Typed /\ p \in Threads
  BY ThreadsAre DEF Sound
<1>1. CASE RestoreBegins(p)
  BY <1>0, <1>1, RestoreBeginsIs, Alone DEF Others, Copying
<1>2. CASE RestoreEnds(p)
  BY <1>0, <1>2, RestoreEndsIs, Alone DEF Others, Moves, Copying
<1>3. ASSUME NEW f \in Files, RestoreCopies(p, f)
      PROVE  /\ gens' = gens /\ agent' = agent /\ pod' = pod /\ recorded' = recorded /\ given' = given
             /\ \A u \in Threads : u # p => th'[u] = th[u] /\ th[u].pc # "restore"
             /\ \A u \in Threads : ~Copying(u) /\ ~Copying(u)'
  BY <1>0, <1>3, RestoreCopiesIs, Alone DEF Others, Copying
<1> QED BY <1>1, <1>2, <1>3 DEF Refills

LEMMA CopiedNext == ASSUME Sound, Copied, [Next]_vars PROVE Copied'
<1>0. Typed /\ One
  BY DEF Sound, Built
<1>1. CASE Aside
  BY <1>1, SameCurrent, ThreadsAre DEF Aside, Copied, Copying, Within
<1>2. CASE PodEnds
  BY <1>0, <1>2, PodEndsIs, SameCurrent, ThreadsAre DEF Copied, Copying, Within, Moves, Others
<1>3. CASE Sweeps
  BY <1>3, Swept, ThreadsAre DEF Copied, Copying
<1>4. ASSUME NEW f \in Files, RunWrites(f) PROVE Copied'
  BY <1>0, <1>4, RunWritesIs, SameCurrent DEF Copied, Copying, Within
<1>5. ASSUME NEW p \in Polls, Refills(p) PROVE Copied'
  BY <1>5, RestoresAlone, ThreadsAre DEF Copied
<1>6. ASSUME NEW t \in Checkpointers, Checkpoint(t) PROVE Copied'
  <2>0. After(t) \notin {"label", "copy", "prune"}
    BY AfterIs
  <2>1. live' = live /\ \A u \in Checkpointers : Copying(u)' => u = t
    BY <1>6, CheckpointIs, ThreadsAre DEF Copying
  <2>2. SUFFICES ASSUME Copying(t)'
                 PROVE  /\ th'[t].scan # sidecar'.last /\ Within(th'[t].scan, live)
                        /\ th'[t].pc = "copy" => \A f \in Files \ th'[t].todo : th'[t].scan[f] \subseteq Newest'.at[f]
                        /\ th'[t].pc = "prune" => Within(th'[t].scan, Current')
    BY <2>1 DEF Copied, Within
  <2>3. CASE Scanned(t)
    BY <2>3 DEF Scanned, Within
  <2>4. CASE Labelled(t)
    BY <2>4 DEF Labelled, Copied, Copying
  <2>5. CASE \E f \in Files : Copies(t, f)
    BY <2>5 DEF Copies, Copied, Copying, Within
  <2>6. CASE Swaps(t)
    BY <2>6 DEF Swaps, Moves, Copied, Copying, Within
  <2> QED BY <1>6, <2>0, <2>2, <2>3, <2>4, <2>5, <2>6, CheckpointIs DEF Unchanged, Prunes, Fails, Moves, Copying
<1> QED BY <1>1, <1>2, <1>3, <1>4, <1>5, <1>6, Kinds DEF Refills

LEMMA RestoredNext == ASSUME Sound, Copied, Restored, [Next]_vars PROVE Restored'
<1>0. Typed /\ One
  BY DEF Sound, Built
<1>1. CASE Aside
  BY <1>1, SameCurrent, ThreadsAre DEF Aside, Restored
<1>2. CASE PodEnds
  BY <1>0, <1>2, PodEndsIs, SameCurrent, ThreadsAre DEF Restored, Moves, Others
<1>3. CASE Sweeps
  BY <1>3, Swept, ThreadsAre DEF Restored
<1>4. ASSUME NEW f \in Files, RunWrites(f) PROVE Restored'
  BY <1>0, <1>4, RunWritesIs, SameCurrent DEF Restored
<1>5. ASSUME NEW p \in Polls, Refills(p) PROVE Restored'
  <2>1. \A q \in Polls : th'[q].pc = "restore" => q = p
    BY <1>5, RestoresAlone, ThreadsAre
  <2>2. CASE RestoreBegins(p)
    BY <1>0, <2>1, <2>2, RestoreBeginsIs, SameCurrent DEF Restored
  <2>3. CASE RestoreEnds(p)
    BY <1>0, <2>1, <2>3, RestoreEndsIs DEF Restored, Moves
  <2>4. ASSUME NEW f \in Files, RestoreCopies(p, f) PROVE Restored'
    BY <1>0, <2>1, <2>4, RestoreCopiesIs, SameCurrent DEF Restored
  <2> QED BY <1>5, <2>2, <2>3, <2>4 DEF Refills
<1>6. ASSUME NEW t \in Checkpointers, Checkpoint(t) PROVE Restored'
  <2>1. \A p \in Polls : p # t /\ p \in Threads
    BY ThreadsAre
  <2>2. CASE \E p \in Polls : th'[p].pc = "restore"
    <3>1. (Scan(t) /\ sidecar.mu = NoOne) \/ Copying(t)
      BY <1>0, <1>6, CopiesAlone, ScanIs DEF Copying
    <3> QED BY <1>6, <2>1, <2>2, <3>1, Alone, CopiesAlone
  <2> QED BY <2>2 DEF Restored
<1> QED BY <1>1, <1>2, <1>3, <1>4, <1>5, <1>6, Kinds DEF Refills

-----------------------------------------------------------------------------
(* A pod that ends as it should loses nothing. *)

\* Where no restore found more than the volume has, what is remembered is there.
Remembers ==
  ~past.seeded =>
    /\ Within(sidecar.last, live) /\ Within(sidecar.last, Current)
    /\ \A t \in Checkpointers : Copying(t) => Within(sidecar.last, th[t].scan)

\* The final checkpoint, and any after it, is of a tree that stands still.
Ended ==
  pod = "ending" =>
    /\ \A t \in Checkpointers : Copying(t) /\ (t = "term" \/ th["term"].pc = "over") => th[t].scan = live
    /\ th["term"].pc = "over" /\ ~th["term"].failed /\ ~past.seeded => Within(live, Current)

LEMMA RemembersNext == ASSUME Sound, Copied, Remembers, [Next]_vars PROVE Remembers'
<1>0. Typed /\ One
  BY DEF Sound, Built
<1>1. CASE Aside
  BY <1>1, SameCurrent, ThreadsAre DEF Aside, Remembers, Copying, Within
<1>2. CASE PodEnds
  BY <1>0, <1>2, PodEndsIs, SameCurrent, ThreadsAre DEF Remembers, Copying, Within, Moves, Others
<1>3. CASE Sweeps
  <2>1. sidecar'.last = Empty
    BY <1>0, <1>3, GoneIs, SidecarRestartsIs, EmptyIs DEF Sweeps
  <2> QED BY <1>3, <2>1, Swept, EmptyIs, ThreadsAre DEF Remembers, Within, Copying
<1>4. ASSUME NEW f \in Files, RunWrites(f) PROVE Remembers'
  BY <1>0, <1>4, RunWritesIs, SameCurrent DEF Remembers, Copying, Within, PastBut
<1>5. ASSUME NEW p \in Polls, Refills(p) PROVE Remembers'
  <2>1. \A t \in Checkpointers : ~Copying(t)'
    BY <1>5, RestoresAlone, ThreadsAre
  <2>2. CASE RestoreBegins(p)
    BY <1>0, <2>1, <2>2, RestoreBeginsIs, SameCurrent DEF Remembers, SidecarAt, PastBut, Within
  <2>3. CASE RestoreEnds(p)
    BY <1>0, <2>1, <2>3, RestoreEndsIs, SameCurrent DEF Remembers, SidecarAt, Within
  <2>4. ASSUME NEW f \in Files, RestoreCopies(p, f) PROVE Remembers'
    BY <1>0, <2>1, <2>4, RestoreCopiesIs, SameCurrent DEF Remembers, Within
  <2> QED BY <1>5, <2>2, <2>3, <2>4 DEF Refills
<1>6. ASSUME NEW t \in Checkpointers, Checkpoint(t) PROVE Remembers'
  <2>0. After(t) \notin {"label", "copy", "prune"}
    BY AfterIs
  <2>1. live' = live /\ past'.seeded = past.seeded /\ \A u \in Checkpointers : Copying(u)' => u = t
    BY <1>6, CheckpointIs, CopiesAlone, ThreadsAre DEF Copying, PastBut
  <2>2. SUFFICES ASSUME ~past.seeded
                 PROVE  /\ Within(sidecar'.last, live) /\ Within(sidecar'.last, Current')
                        /\ Copying(t)' => Within(sidecar'.last, th'[t].scan)
    BY <2>1 DEF Remembers, Within
  <2>3. Within(sidecar.last, live) /\ Within(sidecar.last, Current) /\ (Copying(t) => Within(sidecar.last, th[t].scan))
    BY <2>2 DEF Remembers
  <2>4. CASE Scanned(t)
    BY <2>3, <2>4 DEF Scanned
  <2>5. CASE Labelled(t) \/ \E f \in Files : Copies(t, f)
    BY <2>3, <2>5 DEF Labelled, Copies, Copying
  <2>6. CASE Swaps(t)
    <3>1. Within(th[t].scan, Newest.at)
      BY <2>6 DEF Swaps, Copied, Copying, Within
    <3> QED BY <2>3, <2>6, <3>1 DEF Swaps, Moves, Within, Copying
  <2>7. CASE Prunes(t)
    <3>1. Within(th[t].scan, live) /\ Within(th[t].scan, Current)
      BY <2>7 DEF Prunes, Copied, Copying
    <3> QED BY <2>0, <2>7, <3>1 DEF Prunes, Moves, Copying
  <2>8. CASE Unchanged(t) \/ Fails(t)
    BY <2>0, <2>3, <2>8 DEF Unchanged, Fails, Moves, Copying
  <2> QED BY <1>6, <2>4, <2>5, <2>6, <2>7, <2>8, CheckpointIs
<1> QED BY <1>1, <1>2, <1>3, <1>4, <1>5, <1>6, Kinds DEF Refills

LEMMA EndedNext == ASSUME Sound, Copied, Remembers, Ended, [Next]_vars PROVE Ended'
<1>0. Typed /\ One
  BY DEF Sound, Built
<1>1. CASE Aside
  BY <1>1, SameCurrent, ThreadsAre DEF Aside, Ended, Copying, Within
<1>2. CASE PodEnds
  BY <1>0, <1>2, PodEndsIs DEF Ended, Copying, Moves
<1>3. CASE Sweeps
  BY <1>0, <1>3, GoneIs, SidecarRestartsIs DEF Ended, Sweeps
<1>4. ASSUME NEW f \in Files, RunWrites(f) PROVE Ended'
  <2>1. pod' = pod /\ agent.st = "running"
    BY <1>0, <1>4, RunWritesIs
  <2> QED BY <2>1 DEF Sound, Placed, Ended
<1>5. ASSUME NEW p \in Polls, Refills(p) PROVE Ended'
  <2>1. pod' = pod /\ th'["term"] = th["term"] /\ \A t \in Checkpointers : ~Copying(t)'
    BY <1>5, RestoresAlone, ThreadsAre
  <2>2. CASE RestoreBegins(p)
    BY <1>0, <2>1, <2>2, RestoreBeginsIs, SameCurrent DEF Ended, PastBut, Within
  <2>3. CASE RestoreEnds(p)
    BY <1>0, <2>1, <2>3, RestoreEndsIs, SameCurrent DEF Ended, Within
  <2>4. ASSUME NEW f \in Files, RestoreCopies(p, f) PROVE Ended'
    BY <1>0, <2>1, <2>4, RestoreCopiesIs, SameCurrent DEF Ended, Within
  <2> QED BY <1>5, <2>2, <2>3, <2>4 DEF Refills
<1>6. ASSUME NEW t \in Checkpointers, Checkpoint(t) PROVE Ended'
  <2>0. /\ After(t) \notin {"label", "copy", "prune"} /\ "term" \in Checkpointers /\ "term" \in Threads
        /\ (After(t) = "over" <=> t = "term")
    BY ThreadsAre, AfterIs DEF After
  <2>1. /\ live' = live /\ pod' = pod /\ past'.seeded = past.seeded /\ (\A u \in Checkpointers : Copying(u)' => u = t)
        /\ (t # "term" => th'["term"] = th["term"])
    BY <1>6, <2>0, CheckpointIs, CopiesAlone, ThreadsAre DEF Copying, PastBut
  <2>2. SUFFICES ASSUME pod = "ending"
                 PROVE  /\ Copying(t)' /\ (t = "term" \/ th'["term"].pc = "over") => th'[t].scan = live
                        /\ th'["term"].pc = "over" /\ ~th'["term"].failed /\ ~past.seeded => Within(live, Current')
    BY <2>1 DEF Ended, Within
  <2>3. /\ Copying(t) /\ (t = "term" \/ th["term"].pc = "over") => th[t].scan = live
        /\ th["term"].pc = "over" /\ ~th["term"].failed /\ ~past.seeded => Within(live, Current)
    BY <2>2 DEF Ended
  <2>4. CASE Scanned(t)
    BY <2>1, <2>3, <2>4 DEF Scanned
  <2>5. CASE Unchanged(t)
    BY <2>0, <2>1, <2>3, <2>5 DEF Unchanged, Moves, Copying, Remembers
  <2>6. CASE Labelled(t) \/ \E f \in Files : Copies(t, f)
    BY <2>1, <2>3, <2>6 DEF Labelled, Copies, Copying
  <2>7. CASE Swaps(t)
    <3>1. Within(th[t].scan, Newest.at)
      BY <2>7 DEF Swaps, Copied, Copying, Within
    <3> QED BY <2>1, <2>3, <2>7, <3>1 DEF Swaps, Moves, Copying
  <2>8. CASE Prunes(t) \/ Fails(t)
    <3>1. th[t].pc = "prune" => Within(th[t].scan, Current)
      BY DEF Copied, Copying
    <3> QED BY <2>0, <2>1, <2>3, <2>8, <3>1 DEF Prunes, Fails, Moves, Copying
  <2> QED BY <1>6, <2>4, <2>5, <2>6, <2>7, <2>8, CheckpointIs
<1> QED BY <1>1, <1>2, <1>3, <1>4, <1>5, <1>6, Kinds DEF Refills

Held == Sound /\ Copied /\ Restored /\ Remembers /\ Ended

LEMMA AlwaysHeld == Spec => []Held
<1>1. Init => Held
  <2> SUFFICES ASSUME Init PROVE Held
    OBVIOUS
  <2>1. /\ pod = "none" /\ live = Empty /\ sidecar.last = Empty /\ (\A t \in Threads : th[t].pc = "idle")
    BY EmptyIs DEF Init
  <2> QED BY <2>1, SoundInit, EmptyIs, ThreadsAre DEF Held, Copied, Restored, Remembers, Ended, Copying, Within
<1>2. Held /\ [Next]_vars => Held'
  BY SoundNext, CopiedNext, RestoredNext, RemembersNext, EndedNext DEF Held
<1> QED BY <1>1, <1>2, PTL DEF Spec

\* When a pod ends as it should and its final checkpoint does not fail, nothing that was
\* written is lost with it, however often it was restored, copied and restarted before
\* (main.go: this covers every ordinary end of a pod).
THEOREM EndIsSafe == Spec => EndKeepsWork
<1>1. Held /\ [Next]_vars =>
        [PodGone /\ ~th["term"].failed /\ ~past.seeded => \A f \in Files : live[f] \subseteq Current[f]]_vars
  BY DEF Held, Ended, PodGone, Within
<1> QED BY <1>1, AlwaysHeld, PTL DEF Spec, EndKeepsWork

-----------------------------------------------------------------------------
(* While the tree is not whole there is no unit in hand. *)

Works == agent.st \in {"running", "reporting"}
NotReady == ~sidecar.restored /\ ~Works /\ \A p \in Polls : agent.on = p => th[p].pc # "forward"
Ready ==
  ~past.late =>
    /\ past.partial \/ Restoring => NotReady
    /\ \A p \in Polls : agent.on = p /\ th[p].pc = "lock" => ~sidecar.restored

LEMMA Idlers ==
  /\ Idle.st = "idle" /\ Idle.on = NoOne /\ NoAgent.st = "none" /\ NoAgent.on = NoOne /\ AtRest.pc = "idle"
  /\ ~Fresh.restored /\ ~Fresh.inflight /\ Fresh.last = Empty /\ ~AtRest.failed
<1>1. 0 \in Nat
  OBVIOUS
<1> QED BY <1>1, EmptyIs

LEMMA PollReady == ASSUME Sound, Ready, NEW p \in Polls, Poll(p) PROVE Ready'
<1>0. Typed /\ p \in Threads /\ p # NoOne
  BY ThreadsAre DEF Sound
<1> SUFFICES ASSUME ~past'.late PROVE Ready'
  BY DEF Ready
<1>1. CASE PollArrives(p)
  <2>1. /\ AgentOn("polling", p) /\ Moves(p, IF sidecar.restored THEN "forward" ELSE "lock") /\ sidecar' = sidecar /\ past' = past
    BY <1>0, <1>1, PollArrivesIs
  <2> QED BY <2>1, ThreadsAre DEF Ready, NotReady, Works, Restoring, Moves, Others, AgentOn
<1>2. CASE RestoreBegins(p)
  <2>1. /\ th[p].pc = "lock" /\ SidecarAt(sidecar.last, p) /\ Others(p) /\ th'[p].pc = "restore"
        /\ (past'.late <=> past.late \/ agent.on # p) /\ agent' = agent
    BY <1>0, <1>2, RestoreBeginsIs
  <2>2. agent.on = p /\ agent.st = "polling" /\ ~sidecar.restored
    BY <2>1 DEF Ready, Sound, Placed
  <2> QED BY <2>1, <2>2, ThreadsAre DEF Ready, NotReady, Works, SidecarAt
<1>3. ASSUME NEW f \in Files, RestoreCopies(p, f) PROVE Ready'
  <2>1. th[p].pc = "restore" /\ Others(p) /\ th'[p].pc = "restore" /\ agent' = agent /\ sidecar' = sidecar /\ past' = past
    BY <1>0, <1>3, RestoreCopiesIs
  <2> QED BY <2>1, ThreadsAre DEF Ready, NotReady, Works, Restoring, Others
<1>4. CASE RestoreEnds(p)
  <2>1. /\ th[p].pc = "restore" /\ Moves(p, "forward") /\ SidecarAt(live, NoOne) /\ ~past'.partial /\ agent' = agent
        /\ PastBut({"partial", "seeded", "calm"})
    BY <1>0, <1>4, RestoreEndsIs
  <2>2. \A q \in Polls : th'[q].pc # "restore"
    BY <1>0, <2>1, Alone, ThreadsAre DEF Moves, Others
  <2> QED BY <2>1, <2>2, ThreadsAre DEF Ready, Restoring, Moves, Others, SidecarAt, PastBut
<1>5. CASE RestoreFails(p)
  <2>1. /\ th[p].pc = "restore" /\ SidecarAt(sidecar.last, NoOne) /\ Others(p) /\ th'[p] = AtRest
        /\ agent' = (IF agent.on = p THEN Idle ELSE agent) /\ PastBut({"partial"})
    BY <1>0, <1>5, RestoreFailsIs
  <2>2. NotReady /\ ~past.late
    BY <2>1 DEF Ready, Restoring, PastBut
  <2> QED BY <2>1, <2>2, Idlers, ThreadsAre DEF Ready, NotReady, Works, SidecarAt, Others
<1>6. CASE PollForwards(p)
  <2>1. /\ th[p].pc = "forward" /\ Others(p) /\ th'[p] = AtRest /\ (past'.late <=> past.late \/ agent.on # p) /\ PastBut({"late"})
        /\ agent'.on = NoOne \/ agent' = agent
    BY <1>0, <1>6, PollForwardsIs, Idlers
  <2>2. agent.on = p /\ ~past.late /\ ~past.partial /\ ~Restoring /\ agent'.on = NoOne
    <3>1. agent.on = p /\ ~past.late
      BY <2>1
    <3>2. agent'.on = NoOne
      BY <1>0, <1>6, <3>1, PollForwardsIs, Idlers
    <3> QED BY <2>1, <3>1, <3>2 DEF Ready, NotReady
  <2> QED BY <2>1, <2>2, Idlers, ThreadsAre DEF Ready, Restoring, Others, PastBut
<1> QED BY <1>1, <1>2, <1>3, <1>4, <1>5, <1>6 DEF Poll

LEMMA ReadyNext == ASSUME Sound, Ready, [Next]_vars PROVE Ready'
<1>0. Typed
  BY DEF Sound
<1>1. CASE PodStarts
  BY <1>0, <1>1, PodStartsIs, Idlers, ThreadsAre DEF Ready, NotReady, Works, Restoring
<1>2. CASE PodEnds
  BY <1>0, <1>2, PodEndsIs, Idlers, ThreadsAre DEF Ready, NotReady, Works, Restoring, Moves, Others
<1>3. CASE PodGone \/ PodLost
  BY <1>0, <1>3, GoneIs, Idlers, ThreadsAre DEF Ready, NotReady, Works, Restoring
<1>4. CASE SidecarRestarts
  <2>1. /\ sidecar' = Fresh /\ (\A t \in Threads : th'[t] = AtRest) /\ PastBut({"partial"})
        /\ AgentOn(IF agent.st = "polling" THEN "idle" ELSE agent.st, NoOne) /\ (past'.partial => past.partial \/ Restoring)
    BY <1>0, <1>4, SidecarRestartsIs DEF Restoring
  <2> QED BY <2>1, Idlers, ThreadsAre DEF Ready, NotReady, Works, Restoring, AgentOn, PastBut
<1>5. CASE RequestTimesOut
  BY <1>0, <1>5, RequestTimesOutIs, ThreadsAre DEF Ready, NotReady, Works, Restoring, AgentOn
<1>6. CASE ReportGivenUp
  BY <1>0, <1>6, ReportGivenUpIs, Idlers, ThreadsAre DEF Ready, NotReady, Works, Restoring
<1>7. ASSUME NEW f \in Files, RunWrites(f) PROVE Ready'
  BY <1>0, <1>7, RunWritesIs DEF Ready, NotReady, Works, Restoring, PastBut
<1>8. ASSUME NEW d \in Reports, ReportArrives(d) PROVE Ready'
  BY <1>0, <1>8, ReportArrivesIs, ThreadsAre DEF Ready, NotReady, Works, Restoring, AgentOn, Moves, Others
<1>9. ASSUME NEW d \in Reports, ReportForwards(d) PROVE Ready'
  <2>1. agent.on = d => agent.st = "reporting"
    BY DEF Sound, Placed
  <2> QED BY <1>0, <1>9, <2>1, ReportForwardsIs, Idlers, ThreadsAre DEF Ready, NotReady, Works, Restoring, AgentOn, Others, PastBut
<1>10. CASE TickDue
  BY <1>0, <1>10, TickDueIs, ThreadsAre DEF Ready, NotReady, Works, Restoring, Moves, Others
<1>11. ASSUME NEW t \in Checkpointers, Checkpoint(t) PROVE Ready'
  <2>1. agent' = agent /\ PastBut({"bare"}) /\ SameMarks /\ \A p \in Polls : th'[p] = th[p]
    BY <1>11, CheckpointIs, CopiesAlone, ThreadsAre
  <2> QED BY <2>1 DEF Ready, NotReady, Works, Restoring, PastBut, SameMarks
<1>12. CASE UNCHANGED vars
  BY <1>12 DEF vars, Ready, NotReady, Works, Restoring
<1> QED BY <1>1, <1>2, <1>3, <1>4, <1>5, <1>6, <1>7, <1>8, <1>9, <1>10, <1>11, <1>12, PollReady DEF Next, Pod, Agent, Report

-----------------------------------------------------------------------------
(* What is due, and what steps that touch no tree do to it. *)

\* What the manager knows to be saved, or is about to be told.
Told == {th[d].run : d \in {d \in Reports : th[d].pc = "forward" /\ ~th[d].failed}}
Due == (recorded \cup Told) \ past.unsaved
Holds(x) == \A f \in Files : Due \subseteq x[f]

Keeps(on) ==
  /\ Works /\ agent'.st = agent.st /\ agent'.on = on /\ agent'.run = agent.run /\ agent'.todo = agent.todo
  /\ agent'.needs = agent.needs
Begins ==
  /\ agent'.st = "running" /\ agent'.on = NoOne /\ agent'.run = given + 1 /\ agent'.todo = Files /\ agent'.needs = recorded'

Idly ==
  /\ past.late => past'.late
  /\ past'.bare = past.bare /\ past'.calm = past.calm
  /\ past.partial => past'.partial
  /\ Restoring => Restoring' \/ past'.partial
  /\ recorded \subseteq recorded' /\ past.unsaved \subseteq past'.unsaved
  /\ Due' \subseteq Due
  /\ ~past'.late =>
       /\ NotReady => NotReady'
       /\ ~Works' \/ Begins \/ Keeps(NoOne) \/ (Keeps(agent.on) /\ sidecar'.inflight = sidecar.inflight)
          \/ (Keeps(agent'.on) /\ ~sidecar'.inflight /\ th'[agent'.on].pc = "scan")
  /\ agent'.on \in Reports /\ agent'.on = agent.on => th'[agent.on] = th[agent.on]

LEMMA IdleKinds ==
  ASSUME Sound, [Next]_vars
  PROVE  \/ Idly \/ PodEnds \/ Sweeps \/ (\E f \in Files : RunWrites(f))
         \/ (\E p \in Polls : Refills(p)) \/ \E t \in Checkpointers : Checkpoint(t)
<1>0. Typed /\ Placed
  BY DEF Sound
<1>1. ASSUME PodStarts PROVE Idly
  <2>1. agent.st = "none" /\ agent.on \notin Reports
    BY <1>0, <1>1, PodStartsIs DEF Placed
  <2> QED BY <1>0, <1>1, <2>1, PodStartsIs, Idlers, ThreadsAre DEF Idly, Works, NotReady, Told, Due, Restoring
<1>2. ASSUME RequestTimesOut PROVE Idly
  BY <1>0, <1>2, RequestTimesOutIs, ThreadsAre DEF Idly, Works, NotReady, Told, Due, Restoring, AgentOn, Keeps
<1>3. ASSUME ReportGivenUp PROVE Idly
  BY <1>0, <1>3, ReportGivenUpIs, Idlers, ThreadsAre DEF Idly, Works, NotReady, Told, Due, Restoring
<1>4. ASSUME NEW p \in Polls, PollArrives(p) PROVE Idly
  <2>1. p \notin Reports /\ agent.on \notin Reports /\ \A d \in Reports : d # p
    BY <1>0, <1>4, PollArrivesIs, ThreadsAre DEF Placed
  <2> QED BY <1>0, <1>4, <2>1, PollArrivesIs, ThreadsAre DEF Idly, Works, NotReady, Told, Due, Restoring, AgentOn, Moves, Others
<1>5. ASSUME NEW p \in Polls, RestoreFails(p) PROVE Idly
  BY <1>0, <1>5, RestoreFailsIs, Idlers, ThreadsAre
     DEF Idly, Works, NotReady, Told, Due, Restoring, Keeps, Others, PastBut, SidecarAt
<1>6. ASSUME NEW p \in Polls, PollForwards(p) PROVE Idly
  <2>1. /\ th[p].pc = "forward" /\ Others(p) /\ th'[p] = AtRest /\ recorded' = recorded
        /\ (past'.late <=> past.late \/ agent.on # p) /\ PastBut({"late"})
        /\ \/ agent.on = p /\ agent' = [st |-> "running", run |-> given + 1, todo |-> Files, needs |-> recorded, on |-> NoOne]
           \/ agent' = (IF agent.on = p THEN Idle ELSE agent)
    BY <1>0, <1>6, PollForwardsIs
  <2>2. (agent.on = p /\ (Begins \/ agent' = Idle)) \/ (agent.on # p /\ agent' = agent)
    BY <2>1 DEF Begins
  <2>3. Due' \subseteq Due
    BY <2>1, <2>2, Idlers, ThreadsAre DEF Due, Told, Begins, Others, PastBut
  <2>4. Restoring => Restoring'
    BY <2>1, ThreadsAre DEF Restoring, Others
  <2> QED BY <2>1, <2>2, <2>3, <2>4, Idlers, ThreadsAre DEF Idly, Works, NotReady, Begins, Others, PastBut
<1>7. ASSUME NEW d \in Reports, ReportArrives(d) PROVE Idly
  BY <1>0, <1>7, ReportArrivesIs, ThreadsAre DEF Idly, Works, NotReady, Told, Due, Restoring, AgentOn, Keeps, Moves, Others
<1>8. ASSUME NEW d \in Reports, ReportForwards(d) PROVE Idly
  <2>1. agent.on = d => agent.st = "reporting"
    BY <1>0 DEF Placed
  <2>2. /\ th[d].pc = "forward" /\ Others(d) /\ th'[d] = AtRest /\ sidecar' = sidecar
        /\ PastBut({"unsaved"}) /\ past.unsaved \subseteq past'.unsaved
        /\ (agent.on # d /\ agent' = agent) \/ (agent.on = d /\ (agent' = Idle \/ AgentOn(agent.st, NoOne)))
        /\ \/ recorded' = recorded /\ past' = past
           \/ /\ recorded' = recorded \cup {th[d].run}
              /\ th[d].failed => past'.unsaved = past.unsaved \cup {th[d].run}
    BY <1>0, <1>8, <2>1, ReportForwardsIs
  <2>3. Due' \subseteq Due
    <3>1. Told' \subseteq Told
      BY <2>2, Idlers, ThreadsAre DEF Told, Others, AgentOn
    <3>2. recorded' \ past'.unsaved \subseteq Due
      BY <2>2 DEF Due, Told
    <3> QED BY <2>2, <3>1, <3>2 DEF Due
  <2>4. Restoring => Restoring'
    BY <2>2, ThreadsAre DEF Restoring, Others
  <2>5. NotReady => NotReady'
    BY <2>1, <2>2, Idlers, ThreadsAre DEF NotReady, Works, Others, AgentOn
  <2>6. ~Works' \/ Keeps(NoOne) \/ Keeps(agent.on)
    BY <2>1, <2>2, Idlers DEF Works, Keeps, AgentOn
  <2>7. agent'.on \in Reports /\ agent'.on = agent.on => th'[agent.on] = th[agent.on]
    BY <2>2, Idlers, ThreadsAre DEF Others, AgentOn
  <2> QED BY <2>2, <2>3, <2>4, <2>5, <2>6, <2>7 DEF Idly, PastBut
<1>9. ASSUME TickDue PROVE Idly
  BY <1>0, <1>9, TickDueIs, ThreadsAre DEF Idly, Works, NotReady, Told, Due, Restoring, Keeps, Moves, Others
<1>10. ASSUME UNCHANGED vars PROVE Idly
  BY <1>10 DEF vars, Idly, Works, NotReady, Told, Due, Restoring, Keeps
<1> QED BY <1>1, <1>2, <1>3, <1>4, <1>5, <1>6, <1>7, <1>8, <1>9, <1>10
        DEF Next, Pod, Agent, Poll, Report, Sweeps, Refills

-----------------------------------------------------------------------------
(* A report is of a tree that stands still. *)

\* What of a run the sidecar remembers is saved, and in what is about to be.
Follows(r, f) ==
  r \in sidecar.last[f] =>
    /\ r \in live[f] /\ r \in Current[f]
    /\ \A t \in Checkpointers : Copying(t) => r \in th[t].scan[f]

\* A run is in what it has written.
Mine ==
  ~past.late /\ Works =>
    \A f \in Files :
      /\ f \notin agent.todo \/ agent.st = "reporting" => agent.run \in live[f]
      /\ Follows(agent.run, f)

\* A report whose checkpoint is to come, or under way: its run is in the tree, and in what is
\* copied for it, whoever waits; if not, that is known, or the manager has heard of it before.
Under(d) == th[d].pc = "scan" \/ Copying(d)
Accounted(r) == r \in past.unsaved \cup recorded
Theirs ==
  ~past.late => \A d \in Reports : Under(d) /\ ~Accounted(th[d].run) =>
    /\ ~Restoring
    /\ \A f \in Files :
         /\ th[d].run \in live[f] /\ Follows(th[d].run, f)
         /\ Copying(d) => th[d].run \in th[d].scan[f]

\* While a report is waited for the tree stands still, and the copy taken of it is of it all.
Still ==
  ~past.late =>
    /\ agent.st = "reporting" => live \in past.calm
    /\ agent.on \in Reports =>
         /\ ~sidecar.inflight
         /\ Copying(agent.on) => th[agent.on].scan = live
         /\ th[agent.on].pc = "copy" => Newest.quiesced /\ \A f \in Files \ th[agent.on].todo : Newest.at[f] = live[f]

\* No tree is restored while a run is in hand.
LEMMA NoRefill ==
  ASSUME Sound, Ready, [Next]_vars, NEW p \in Polls, Refills(p), ~past'.late
  PROVE  ~Works /\ ~Works' /\ agent'.on \notin Reports
<1>0. Typed /\ Ready'
  BY ReadyNext DEF Sound
<1>1. agent' = agent
  BY RestoresAlone
<1>2. ASSUME RestoreBegins(p) PROVE ~Works'
  BY <1>0, <1>2, RestoreBeginsIs DEF Ready, Restoring, NotReady
<1>3. ASSUME RestoreEnds(p) PROVE ~Works
  BY <1>0, <1>3, RestoreEndsIs DEF Ready, Restoring, NotReady, PastBut
<1>4. ASSUME NEW f \in Files, RestoreCopies(p, f) PROVE ~Works'
  BY <1>0, <1>4, RestoreCopiesIs DEF Ready, Restoring, NotReady
<1>5. ~Works /\ ~Works'
  BY <1>1, <1>2, <1>3, <1>4 DEF Refills, Works, NotReady
<1> QED BY <1>1, <1>5 DEF Sound, Placed, Works

LEMMA FollowsOn ==
  ASSUME Sound, Copied, NEW t \in Checkpointers, Checkpoint(t), NEW r, NEW f \in Files, Follows(r, f)
  PROVE  Follows(r, f)'
<1>0. t \in Threads /\ After(t) \notin {"label", "copy", "prune"}
  BY ThreadsAre, AfterIs
<1>1. live' = live /\ \A u \in Checkpointers : Copying(u)' => u = t
  BY CheckpointIs, ThreadsAre DEF Copying
<1> SUFFICES ASSUME r \in sidecar'.last[f]
             PROVE  r \in live[f] /\ r \in Current'[f] /\ (Copying(t)' => r \in th'[t].scan[f])
  BY <1>1 DEF Follows
<1>3. r \in sidecar.last[f] => r \in live[f] /\ r \in Current[f] /\ (Copying(t) => r \in th[t].scan[f])
  BY DEF Follows
<1>4. CASE Scanned(t)
  BY <1>3, <1>4 DEF Scanned
<1>5. CASE Unchanged(t)
  BY <1>0, <1>3, <1>5 DEF Unchanged, Moves, Copying
<1>6. CASE Labelled(t) \/ \E g \in Files : Copies(t, g)
  BY <1>3, <1>6 DEF Labelled, Copies, Copying
<1>7. CASE Swaps(t)
  <2>1. th[t].scan[f] \subseteq Newest.at[f]
    BY <1>7 DEF Swaps, Copied, Copying
  <2> QED BY <1>3, <1>7, <2>1 DEF Swaps, Moves, Copying
<1>8. CASE Prunes(t)
  <2>1. th[t].scan[f] \subseteq live[f] /\ th[t].scan[f] \subseteq Current[f]
    BY <1>8 DEF Prunes, Copied, Copying, Within
  <2> QED BY <1>0, <1>8, <2>1 DEF Prunes, Moves, Copying
<1>9. CASE Fails(t)
  BY <1>0, <1>3, <1>9 DEF Fails, Copying
<1> QED BY <1>4, <1>5, <1>6, <1>7, <1>8, <1>9, CheckpointIs

LEMMA MineNext == ASSUME Sound, Copied, Ready, Mine, [Next]_vars PROVE Mine'
<1>0. Typed /\ given \in Nat
  BY GivenIs DEF Sound
<1> SUFFICES ASSUME ~past'.late, Works' PROVE Mine'
  BY DEF Mine
<1>1. CASE Aside /\ Idly
  <2>0. live' = live /\ sidecar'.last = sidecar.last /\ Current' = Current /\ ~past.late
        /\ \A t \in Checkpointers : Copying(t)' => th'[t] = th[t] /\ Copying(t)
    BY <1>1, SameCurrent, ThreadsAre DEF Aside, Idly, Copying
  <2>1. CASE Begins
    <3>1. \A f \in Files : given + 1 \notin sidecar.last[f]
      BY <1>0 DEF Typed, Sidecars, Trees
    <3> QED BY <2>0, <2>1, <3>1 DEF Mine, Begins, Follows
  <2>2. CASE Works /\ agent'.st = agent.st /\ agent'.run = agent.run /\ agent'.todo = agent.todo
    BY <2>0, <2>2 DEF Mine, Follows
  <2> QED BY <1>1, <2>1, <2>2 DEF Idly, Keeps
<1>2. CASE PodEnds
  BY <1>0, <1>2, PodEndsIs, Idlers DEF Works
<1>3. CASE Sweeps
  <2>1. SidecarRestarts
    BY <1>0, <1>3, GoneIs, Idlers DEF Sweeps, Works
  <2>2. /\ sidecar'.last = Empty /\ live' = live /\ PastBut({"partial"})
        /\ AgentOn(IF agent.st = "polling" THEN "idle" ELSE agent.st, NoOne)
    BY <1>0, <2>1, SidecarRestartsIs, Idlers
  <2> QED BY <1>0, <2>2, EmptyIs DEF Mine, Follows, Works, AgentOn, PastBut
<1>4. ASSUME NEW f \in Files, RunWrites(f) PROVE Mine'
  BY <1>0, <1>4, RunWritesIs, SameCurrent DEF Mine, Follows, Works, Copying, PastBut
<1>5. ASSUME NEW p \in Polls, Refills(p) PROVE Mine'
  BY <1>5, NoRefill DEF Mine
<1>6. ASSUME NEW t \in Checkpointers, Checkpoint(t) PROVE Mine'
  <2>1. agent' = agent /\ live' = live
    BY <1>6, CheckpointIs
  <2>2. Works /\ ~past.late
    BY <1>6, <2>1, CopiesAlone DEF Works, PastBut
  <2>3. \A f \in Files : Follows(agent.run, f) => Follows(agent.run, f)'
    BY <1>6, <2>1, FollowsOn
  <2> QED BY <2>1, <2>2, <2>3 DEF Mine
<1> QED BY <1>1, <1>2, <1>3, <1>4, <1>5, <1>6, Kinds, IdleKinds DEF Refills

\* A report that is under way was there, or comes in now.
LEMMA UnderBefore ==
  ASSUME Sound, [Next]_vars, NEW d \in Reports, Under(d)', ~ReportArrives(d)
  PROVE  Under(d) /\ th'[d].run = th[d].run
<1>0. Typed /\ AtRest.pc = "idle" /\ d \in Threads /\ d # "term" /\ d # "tick" /\ d \notin Polls /\ d \in Checkpointers
  BY EmptyIs, GivenIs, ThreadsAre DEF Sound
<1>1. CASE Sweeps
  BY <1>0, <1>1, Swept DEF Under, Copying
<1>2. CASE PodStarts \/ PodEnds \/ Agent \/ TickDue \/ UNCHANGED vars
  <2>1. th'[d] = th[d] \/ th' = th
    BY <1>0, <1>2, PodStartsIs, PodEndsIs, RequestTimesOutIs, ReportGivenUpIs, RunWritesIs, TickDueIs
       DEF Agent, Moves, Others, vars
  <2> QED BY <2>1 DEF Under, Copying
<1>3. ASSUME NEW p \in Polls, Poll(p) PROVE th'[d] = th[d]
  <2>1. Others(p)
    BY <1>0, <1>3, PollArrivesIs, RestoreBeginsIs, RestoreCopiesIs, RestoreEndsIs, RestoreFailsIs, PollForwardsIs
       DEF Poll, Moves
  <2> QED BY <1>0, <1>3, <2>1 DEF Others
<1>4. ASSUME NEW e \in Reports, ReportArrives(e) PROVE th'[d] = th[d]
  BY <1>0, <1>4, ReportArrivesIs DEF Others
<1>5. ASSUME NEW e \in Reports, ReportForwards(e) PROVE e # d /\ th'[d] = th[d]
  <2>1. (agent.on = e => agent.st = "reporting") /\ e \in Threads
    BY ThreadsAre DEF Sound, Placed
  <2>2. Others(e) /\ th'[e] = AtRest
    BY <1>0, <1>5, <2>1, ReportForwardsIs
  <2> QED BY <1>0, <2>1, <2>2 DEF Under, Copying, Others
<1>6. ASSUME NEW t \in Checkpointers, Checkpoint(t) PROVE Under(d) /\ th'[d].run = th[d].run
  <2>1. CASE d = t
    BY <1>6, <2>1, CheckpointIs, CopiesAlone DEF Under, Copying
  <2>2. CASE d # t
    BY <1>0, <1>6, <2>2, CheckpointIs DEF Under, Copying
  <2> QED BY <2>1, <2>2
<1> QED BY <1>1, <1>2, <1>3, <1>4, <1>5, <1>6 DEF Next, Pod, Report, Sweeps, Under, Copying

LEMMA TheirsNext == ASSUME Sound, Copied, Ready, Mine, Theirs, [Next]_vars PROVE Theirs'
<1>0. Typed
  BY DEF Sound
<1> SUFFICES ASSUME ~past'.late, NEW d \in Reports, NEW r, r = th'[d].run, Under(d)', ~Accounted(r)'
             PROVE  /\ ~Restoring'
                    /\ \A f \in Files : r \in live'[f] /\ Follows(r, f)' /\ (Copying(d)' => r \in th'[d].scan[f])
  BY DEF Theirs, Follows, Accounted
<1>d. d \in Threads /\ d \in Checkpointers /\ d # "term" /\ d \notin Polls
  BY ThreadsAre
<1>1. CASE ReportArrives(d)
  <2>1. /\ agent.st = "reporting" /\ Others(d) /\ th'[d].pc = "scan" /\ r = agent.run /\ past' = past
        /\ live' = live /\ gens' = gens /\ sidecar'.last = sidecar.last
    BY <1>0, <1>1, ReportArrivesIs
  <2>2. ~Restoring /\ \A f \in Files : r \in live[f] /\ Follows(r, f)
    BY <2>1 DEF Ready, NotReady, Works, Mine
  <2>3. ~Restoring'
    BY <1>d, <2>1, <2>2, ThreadsAre DEF Restoring, Others
  <2>4. \A t \in Checkpointers : Copying(t)' => t # d /\ th'[t] = th[t]
    BY <2>1, ThreadsAre DEF Copying, Others
  <2> QED BY <1>d, <2>1, <2>2, <2>3, <2>4, SameCurrent DEF Follows, Copying
<1>2. CASE ~ReportArrives(d)
  <2>0. Under(d) /\ th[d].run = r
    BY <1>2, UnderBefore
  <2>1. ASSUME ~past.late, ~Accounted(r)
        PROVE  ~Restoring /\ \A f \in Files : r \in live[f] /\ Follows(r, f) /\ (Copying(d) => r \in th[d].scan[f])
    BY <2>0, <2>1 DEF Theirs
  <2>2. ASSUME recorded \subseteq recorded', past.unsaved \subseteq past'.unsaved PROVE ~Accounted(r)
    BY <2>0, <2>2 DEF Accounted
  <2>3. CASE Aside /\ Idly
    <3>1. /\ live' = live /\ gens' = gens /\ sidecar'.last = sidecar.last /\ ~past.late /\ ~Accounted(r)
          /\ \A t \in Threads : th'[t].pc = "restore" \/ Copying(t)' => th'[t] = th[t]
      BY <2>2, <2>3 DEF Aside, Idly
    <3>2. ~Restoring'
      BY <2>1, <3>1, ThreadsAre DEF Restoring
    <3>3. \A t \in Checkpointers : Copying(t)' => th'[t] = th[t] /\ Copying(t)
      BY <3>1, ThreadsAre DEF Copying
    <3> QED BY <1>d, <2>0, <2>1, <3>1, <3>2, <3>3, SameCurrent DEF Follows
  <2>4. CASE PodEnds
    <3>1. /\ live' = live /\ gens' = gens /\ sidecar' = sidecar /\ past' = past /\ recorded' = recorded /\ Moves("term", "scan")
      BY <1>0, <2>4, PodEndsIs
    <3>2. ~Restoring'
      BY <2>1, <2>2, <3>1, ThreadsAre DEF Restoring, Moves, Others
    <3>3. \A t \in Checkpointers : Copying(t)' => th'[t] = th[t] /\ Copying(t)
      BY <3>1, ThreadsAre DEF Copying, Moves, Others
    <3> QED BY <1>d, <2>0, <2>1, <2>2, <3>1, <3>2, <3>3, SameCurrent DEF Follows
  <2>5. CASE Sweeps
    BY <1>d, <2>5, Swept DEF Under, Copying
  <2>6. ASSUME NEW g \in Files, RunWrites(g)
        PROVE  /\ ~Restoring'
               /\ \A f \in Files : r \in live'[f] /\ Follows(r, f)' /\ (Copying(d)' => r \in th'[d].scan[f])
    <3>1. /\ (\A f \in Files : live[f] \subseteq live'[f]) /\ PastBut({"calm"}) /\ UNCHANGED <<gens, sidecar, th, recorded>>
      BY <1>0, <2>6, RunWritesIs
    <3> QED BY <2>0, <2>1, <2>2, <3>1, SameCurrent DEF Follows, Restoring, Copying, PastBut
  <2>7. ASSUME NEW p \in Polls, Refills(p) PROVE FALSE
    <3>1. /\ th'[d] = th[d] /\ ~Copying(d) /\ recorded' = recorded
      BY <1>d, <2>7, RestoresAlone
    <3>2. th[d].pc = "scan"
      BY <2>0, <3>1 DEF Under
    <3>3. CASE RestoreBegins(p)
      <4>1. past'.unsaved = past.unsaved \cup (Waiting \ recorded)
        BY <1>0, <3>3, RestoreBeginsIs
      <4> QED BY <2>0, <3>1, <3>2, <4>1 DEF Waiting, Accounted
    <3>4. CASE ~RestoreBegins(p)
      <4>1. Restoring /\ ~past.late /\ past'.unsaved = past.unsaved
        BY <1>0, <2>7, <3>4, RestoreEndsIs, RestoreCopiesIs DEF Refills, Restoring, PastBut
      <4> QED BY <2>1, <2>2, <3>1, <4>1
    <3> QED BY <3>3, <3>4
  <2>8. ASSUME NEW t \in Checkpointers, Checkpoint(t)
        PROVE  /\ ~Restoring'
               /\ \A f \in Files : r \in live'[f] /\ Follows(r, f)' /\ (Copying(d)' => r \in th'[d].scan[f])
    <3>1. /\ live' = live /\ recorded' = recorded /\ PastBut({"bare"})
          /\ \A u \in Threads : u # t => th'[u] = th[u] /\ th[u].pc # "restore" /\ ~Copying(u)
      BY <2>8, CheckpointIs, CopiesAlone
    <3>2. /\ ~Restoring /\ \A f \in Files : r \in live[f] /\ Follows(r, f) /\ (Copying(d) => r \in th[d].scan[f])
      BY <2>1, <2>2, <3>1 DEF PastBut
    <3>3. ~Restoring'
      BY <3>1, <3>2, ThreadsAre DEF Restoring
    <3>4. \A f \in Files : Follows(r, f)'
      BY <2>8, <3>2, FollowsOn
    <3>5. ASSUME d = t, Copying(d)' PROVE \A f \in Files : r \in th'[d].scan[f]
      <4>1. Scanned(t) \/ Labelled(t) \/ (\E f \in Files : Copies(t, f)) \/ Swaps(t)
        BY <2>8, <3>5, CheckpointIs, AfterIs DEF Unchanged, Prunes, Fails, Moves, Copying
      <4> QED BY <3>2, <3>5, <4>1 DEF Scanned, Labelled, Copies, Swaps, Moves, Copying
    <3>6. ASSUME d # t PROVE ~Copying(d)'
      BY <1>d, <3>1, <3>6 DEF Copying
    <3> QED BY <3>1, <3>2, <3>3, <3>4, <3>5, <3>6
  <2> QED BY <2>0, <2>3, <2>4, <2>5, <2>6, <2>7, <2>8, Kinds, IdleKinds DEF Refills
<1> QED BY <1>1, <1>2

LEMMA StillNext == ASSUME Sound, Copied, Ready, Still, [Next]_vars PROVE Still'
<1>0. Typed
  BY DEF Sound
<1> SUFFICES ASSUME ~past'.late PROVE Still'
  BY DEF Still
<1>1. CASE Aside /\ Idly
  <2>1. live' = live /\ past'.calm = past.calm /\ Newest' = Newest /\ ~past.late
    BY <1>1, SameCurrent DEF Aside, Idly
  <2>2. agent'.st = "reporting" => agent.st = "reporting"
    BY <1>1 DEF Idly, Works, Begins, Keeps
  <2>3. ASSUME agent'.on \in Reports
        PROVE  /\ ~sidecar'.inflight
               /\ Copying(agent.on)' => th'[agent'.on].scan = live
               /\ th'[agent'.on].pc = "copy" =>
                    Newest.quiesced /\ \A f \in Files \ th'[agent'.on].todo : Newest.at[f] = live[f]
    <3>1. Works' /\ agent'.on # NoOne
      <4>1. Placed'
        BY SoundNext DEF Sound
      <4> QED BY <2>3, <4>1, ThreadsAre DEF Placed, Works
    <3>2. CASE agent'.on = agent.on /\ sidecar'.inflight = sidecar.inflight
      BY <1>1, <2>1, <2>3, <3>2 DEF Idly, Still, Copying
    <3>3. CASE ~sidecar'.inflight /\ th'[agent'.on].pc = "scan"
      BY <3>3 DEF Copying
    <3> QED BY <1>1, <3>1, <3>2, <3>3 DEF Idly, Begins, Keeps
  <2> QED BY <2>1, <2>2, <2>3 DEF Still, Copying
<1>2. CASE PodEnds
  BY <1>0, <1>2, PodEndsIs, Idlers, ThreadsAre DEF Still
<1>3. CASE Sweeps
  <2>1. CASE PodGone \/ PodLost
    BY <1>0, <2>1, GoneIs, Idlers, ThreadsAre DEF Still
  <2>2. CASE SidecarRestarts
    BY <1>0, <2>2, SidecarRestartsIs, ThreadsAre DEF Still, AgentOn, PastBut
  <2> QED BY <1>3, <2>1, <2>2 DEF Sweeps
<1>4. ASSUME NEW f \in Files, RunWrites(f) PROVE Still'
  <2>1. agent.on \notin Reports
    BY <1>0, <1>4, RunWritesIs DEF Sound, Placed
  <2> QED BY <1>0, <1>4, <2>1, RunWritesIs DEF Still
<1>5. ASSUME NEW p \in Polls, Refills(p) PROVE Still'
  BY <1>5, NoRefill DEF Still, Works
<1>6. ASSUME NEW t \in Checkpointers, Checkpoint(t) PROVE Still'
  <2>0. t \in Threads /\ After(t) \notin {"label", "copy", "prune"} /\ Typed
    BY ThreadsAre, AfterIs DEF Sound
  <2>1. /\ agent' = agent /\ live' = live /\ SameMarks /\ past'.calm = past.calm /\ past'.late = past.late
        /\ \A u \in Threads : u # t => th'[u] = th[u] /\ ~Copying(u)
    BY <1>6, CheckpointIs, CopiesAlone DEF PastBut
  <2>2. CASE agent.on \in Reports /\ agent.on # t
    BY <2>1, <2>2, ThreadsAre DEF Still, SameMarks, Copying
  <2>3. CASE agent.on \notin Reports
    BY <2>1, <2>3 DEF Still
  <2>4. CASE agent.on \in Reports /\ agent.on = t
    <3>1. /\ ~sidecar.inflight /\ (Copying(t) => th[t].scan = live)
          /\ th[t].pc = "copy" => Newest.quiesced /\ \A f \in Files \ th[t].todo : Newest.at[f] = live[f]
      BY <2>1, <2>4 DEF Still
    <3> SUFFICES /\ Copying(t)' => th'[t].scan = live
                 /\ th'[t].pc = "copy" => Newest'.quiesced /\ \A f \in Files \ th'[t].todo : Newest'.at[f] = live[f]
      BY <2>1, <2>4, <3>1 DEF Still, SameMarks, Copying
    <3>2. CASE Scanned(t)
      BY <3>2 DEF Scanned
    <3>3. CASE Unchanged(t) \/ Prunes(t)
      BY <2>0, <3>3 DEF Unchanged, Prunes, Moves, Copying
    <3>4. CASE Labelled(t)
      <4>1. \A f \in Files : Empty[f] = {}
        BY DEF Empty
      <4> QED BY <3>1, <3>4, <4>1 DEF Labelled, Copying
    <3>5. ASSUME NEW f \in Files, Copies(t, f)
          PROVE  th'[t].scan = live /\ Newest'.quiesced /\ \A g \in Files \ th'[t].todo : Newest'.at[g] = live[g]
      BY <3>1, <3>5 DEF Copies, Copying
    <3>6. CASE Swaps(t)
      BY <3>1, <3>6 DEF Swaps, Moves, Copying
    <3>7. CASE Fails(t)
      BY <2>0, <3>7 DEF Fails, Copying
    <3> QED BY <1>6, <3>2, <3>3, <3>4, <3>5, <3>6, <3>7, CheckpointIs
  <2> QED BY <2>2, <2>3, <2>4
<1> QED BY <1>1, <1>2, <1>3, <1>4, <1>5, <1>6, Kinds, IdleKinds DEF Refills

LEMMA BoundaryNext == ASSUME Sound, Ready, Still, BoundaryIsWhole, [Next]_vars PROVE BoundaryIsWhole'
<1>0. Typed
  BY DEF Sound
<1>1. CASE gens' = gens /\ (past.late => past'.late)
  BY <1>1 DEF BoundaryIsWhole
<1>2. ASSUME NEW t \in Checkpointers, Checkpoint(t) PROVE BoundaryIsWhole'
  <2>0. t \in Threads /\ past'.late = past.late
    BY <1>2, CopiesAlone, ThreadsAre DEF PastBut
  <2> SUFFICES ASSUME ~past.late, NEW i \in 1..Len(gens)', gens'[i].boundary PROVE gens'[i].quiesced /\ gens'[i].whole
    BY <2>0 DEF BoundaryIsWhole
  <2>1. \A j \in 1..Len(gens) : gens[j].boundary => gens[j].quiesced /\ gens[j].whole
    BY DEF BoundaryIsWhole
  <2>2. Len(gens) \in Nat
    BY <1>0, GensAre
  <2>3. CASE Scanned(t) \/ Unchanged(t) \/ Fails(t)
    BY <2>1, <2>3 DEF Scanned, Unchanged, Fails
  <2>4. CASE Labelled(t)
    <3>1. i # Len(gens)'
      BY <2>4 DEF Labelled, Newest
    <3>2. i \in 1..Len(gens)
      BY <2>2, <2>4, <3>1 DEF Labelled
    <3> QED BY <2>1, <2>4, <3>2 DEF Labelled
  <2>5. ASSUME NEW f \in Files, Copies(t, f) PROVE gens'[i].quiesced /\ gens'[i].whole
    <3>1. i \in 1..Len(gens) /\ Len(gens)' = Len(gens)
      BY <2>5 DEF Copies
    <3>2. CASE i # Len(gens)
      BY <2>1, <2>5, <3>1, <3>2 DEF Copies
    <3>3. CASE i = Len(gens)
      BY <2>1, <2>5, <3>1, <3>3 DEF Copies, Newest
    <3> QED BY <3>2, <3>3
  <2>6. CASE Swaps(t)
    <3>1. i \in 1..Len(gens) /\ Len(gens)' = Len(gens) /\ gens'[i].quiesced = gens[i].quiesced
      BY <2>6 DEF Swaps
    <3>2. CASE i # Len(gens)
      BY <2>1, <2>6, <3>1, <3>2 DEF Swaps
    <3>3. CASE i = Len(gens)
      <4>1. t \in Reports /\ agent.on = t /\ agent.st = "reporting" /\ th[t].pc = "copy" /\ th[t].todo = {}
        BY <2>6, <3>1, <3>3 DEF Swaps, Newest, Sound, Placed
      <4>2. Newest.quiesced /\ live \in past.calm /\ \A f \in Files : Newest.at[f] = live[f]
        BY <4>1 DEF Still
      <4>3. Newest.at = live
        <5>1. Newest \in Generations(given) /\ live \in Trees(given)
          BY <1>0, <4>1, GensAre, ThreadsAre DEF Sound, Built, Typed
        <5>2. Newest.at \in Trees(given)
          BY <5>1 DEF Generations
        <5> QED BY <4>2, <5>1, <5>2 DEF Trees
      <4> QED BY <2>6, <3>1, <3>3, <4>2, <4>3 DEF Swaps, Newest
    <3> QED BY <3>2, <3>3
  <2>7. CASE Prunes(t)
    BY <2>1, <2>7 DEF Prunes
  <2> QED BY <1>2, <2>3, <2>4, <2>5, <2>6, <2>7, CheckpointIs
<1>3. CASE Aside /\ Idly
  BY <1>1, <1>3 DEF Aside, Idly
<1>4. CASE PodEnds
  BY <1>0, <1>1, <1>4, PodEndsIs
<1>5. CASE Sweeps
  BY <1>0, <1>1, <1>5, GoneIs, SidecarRestartsIs DEF Sweeps, PastBut
<1>6. ASSUME NEW f \in Files, RunWrites(f) PROVE BoundaryIsWhole'
  BY <1>0, <1>1, <1>6, RunWritesIs DEF PastBut
<1>7. ASSUME NEW p \in Polls, Refills(p) PROVE gens' = gens /\ (past.late => past'.late)
  <2>1. CASE RestoreBegins(p)
    BY <1>0, <2>1, RestoreBeginsIs
  <2>2. CASE RestoreEnds(p)
    BY <1>0, <2>2, RestoreEndsIs DEF PastBut
  <2>3. ASSUME NEW f \in Files, RestoreCopies(p, f) PROVE gens' = gens /\ (past.late => past'.late)
    BY <1>0, <2>3, RestoreCopiesIs
  <2> QED BY <1>7, <2>1, <2>2, <2>3 DEF Refills
<1> QED BY <1>1, <1>2, <1>3, <1>4, <1>5, <1>6, <1>7, Kinds, IdleKinds DEF Refills

Steady == Held /\ Ready /\ Mine /\ Theirs /\ Still /\ BoundaryIsWhole

LEMMA AlwaysSteady == Spec => []Steady
<1>1. Init => Ready /\ Mine /\ Theirs /\ Still /\ BoundaryIsWhole
  <2> SUFFICES ASSUME Init PROVE Ready /\ Mine /\ Theirs /\ Still /\ BoundaryIsWhole
    OBVIOUS
  <2>1. /\ agent = NoAgent /\ (\A t \in Threads : th[t].pc = "idle") /\ past.partial = FALSE /\ Len(gens) = 0
    BY Idlers DEF Init
  <2> QED BY <2>1, Idlers, ThreadsAre DEF Ready, Mine, Theirs, Still, BoundaryIsWhole, Works, Restoring, Under, Copying
<1>2. Steady /\ Held' /\ [Next]_vars => Steady'
  BY ReadyNext, MineNext, TheirsNext, StillNext, BoundaryNext DEF Held, Steady
<1> QED BY <1>1, <1>2, AlwaysHeld, PTL DEF Spec, Steady

\* While nobody restores who is not waited for, what is copied at the end of a run, with
\* the agent waiting for its report to be taken, is labelled quiesced and is one tree that
\* stood still: the mark is cleared when the report comes in, before the scan (proxy.go: with
\* the two the other way round every work-boundary copy came out mislabelled).
THEOREM BoundariesAreWhole == Spec => []BoundaryIsWhole
<1>1. Steady => BoundaryIsWhole
  BY DEF Steady
<1> QED BY <1>1, AlwaysSteady, PTL

-----------------------------------------------------------------------------
(* What the manager has the handle of is on the volume. *)

\* What is due is on the volume and in the tree, or will be before a unit is handed out,
\* and in what is about to be copied.
Saved ==
  Undisturbed =>
    /\ Holds(Current)
    /\ past.partial \/ Restoring \/ (NotReady /\ live = Empty /\ sidecar.last = Empty) \/ Holds(live)
    /\ ~past.partial => \A t \in Checkpointers : th[t].pc \in {"label", "copy"} => Holds(th[t].scan)

LEMMA RefillSaved ==
  ASSUME Sound, Restored, Saved, NEW p \in Polls, Refills(p)
  PROVE  Saved'
<1>0. Typed
  BY DEF Sound
<1>1. /\ gens' = gens /\ agent' = agent /\ recorded' = recorded /\ Current' = Current
      /\ (\A u \in Threads : u # p => th'[u] = th[u]) /\ \A u \in Threads : ~Copying(u) /\ ~Copying(u)'
  BY RestoresAlone, SameCurrent
<1>2. Told' = Told
  BY <1>1, ThreadsAre DEF Told
<1>3. CASE RestoreBegins(p)
  <2>1. /\ th'[p].pc = "restore" /\ PastBut({"late", "unsaved"}) /\ (past.late => past'.late)
        /\ past.unsaved \subseteq past'.unsaved
    BY <1>0, <1>3, RestoreBeginsIs
  <2> QED BY <1>1, <1>2, <2>1, ThreadsAre DEF Saved, Undisturbed, Holds, Due, Restoring, Copying, PastBut
<1>4. CASE RestoreEnds(p)
  <2>1. /\ th[p].pc = "restore" /\ th[p].todo = {} /\ live' = live /\ PastBut({"partial", "seeded", "calm"})
    BY <1>0, <1>4, RestoreEndsIs
  <2>2. \A f \in Files : Current[f] \subseteq live[f]
    BY <2>1 DEF Restored
  <2> QED BY <1>1, <1>2, <2>1, <2>2, ThreadsAre DEF Saved, Undisturbed, Holds, Due, Copying, PastBut
<1>5. ASSUME NEW f \in Files, RestoreCopies(p, f) PROVE Saved'
  <2>1. th'[p].pc = "restore" /\ past' = past
    BY <1>0, <1>5, RestoreCopiesIs
  <2> QED BY <1>1, <1>2, <2>1, ThreadsAre DEF Saved, Undisturbed, Holds, Due, Restoring, Copying
<1> QED BY <1>3, <1>4, <1>5 DEF Refills

LEMMA CheckpointSaved ==
  ASSUME Sound, Copied, Theirs, Saved, NEW t \in Checkpointers, Checkpoint(t)
  PROVE  Saved'
<1>0. t \in Threads /\ t \notin Polls /\ Typed /\ After(t) \in {"forward", "over", "idle"}
  BY ThreadsAre, AfterIs DEF Sound
<1>1. /\ agent' = agent /\ live' = live /\ recorded' = recorded /\ SameMarks /\ PastBut({"bare"})
      /\ \A u \in Threads : u # t => th'[u] = th[u] /\ th[u].pc # "restore" /\ ~Copying(u)
  BY CheckpointIs, CopiesAlone
<1>2. (past.bare => past'.bare)
  BY CheckpointIs DEF Scanned, Unchanged, Labelled, Copies, Swaps, Prunes, Fails, PastBut
<1> SUFFICES ASSUME Undisturbed' PROVE Saved'
  BY DEF Saved
<1>3. Undisturbed
  BY <1>1, <1>2 DEF Undisturbed, PastBut
<1>4. (Restoring' <=> Restoring) /\ (NotReady' <=> NotReady)
  BY <1>0, <1>1, ThreadsAre DEF Restoring, NotReady, Works, SameMarks
<1>5. /\ Holds(Current)
      /\ past.partial \/ Restoring \/ (NotReady /\ live = Empty /\ sidecar.last = Empty) \/ Holds(live)
      /\ ~past.partial => (th[t].pc \in {"label", "copy"} => Holds(th[t].scan))
  BY <1>3 DEF Saved
<1>6. CASE th'[t].pc # "forward"
  <2>1. Due' \subseteq Due
    BY <1>1, <1>6, ThreadsAre DEF Due, Told, PastBut
  <2>2. SUFFICES /\ Holds(Current')
                 /\ past.partial \/ Restoring \/ (NotReady /\ live = Empty /\ sidecar'.last = Empty) \/ Holds(live)
                 /\ ~past.partial => (th'[t].pc \in {"label", "copy"} => Holds(th'[t].scan))
    BY <1>1, <1>4, <2>1, ThreadsAre DEF Saved, Holds, PastBut, Copying
  <2>3. CASE Scanned(t)
    <3>1. ~Restoring
      BY <2>3, ThreadsAre DEF Scanned, Restoring
    <3> QED BY <1>5, <2>3, <3>1 DEF Scanned
  <2>4. CASE Unchanged(t)
    BY <1>0, <1>5, <2>4 DEF Unchanged, Moves
  <2>5. CASE Labelled(t)
    BY <1>5, <2>5 DEF Labelled
  <2>6. ASSUME NEW f \in Files, Copies(t, f)
        PROVE  Current' = Current /\ sidecar'.last = sidecar.last /\ th[t].pc = "copy" /\ th'[t].scan = th[t].scan
    BY <2>6 DEF Copies
  <2>7. CASE Swaps(t)
    <3>1. ~past.partial /\ Holds(th[t].scan) /\ th[t].todo = {} /\ th[t].pc = "copy"
      BY <1>5, <2>7 DEF Swaps, Undisturbed
    <3>2. Within(th[t].scan, Newest.at)
      BY <3>1 DEF Copied, Copying, Within
    <3>3. Holds(Newest.at)
      BY <3>1, <3>2 DEF Holds, Within
    <3> QED BY <1>5, <2>7, <3>3 DEF Swaps, Moves
  <2>8. CASE Prunes(t)
    <3>1. live = Empty /\ sidecar.last = Empty => FALSE
      <4>1. th[t].scan # sidecar.last /\ Within(th[t].scan, live) /\ th[t].scan \in Trees(given)
        BY <1>0, <2>8 DEF Prunes, Copied, Copying, Typed, Serving
      <4> QED BY <4>1 DEF Within, Empty, Trees
    <3> QED BY <1>0, <1>5, <2>8, <3>1 DEF Prunes, Moves
  <2>9. CASE Fails(t)
    BY <1>0, <1>5, <2>9 DEF Fails
  <2> QED BY <1>5, <2>3, <2>4, <2>5, <2>6, <2>7, <2>8, <2>9, CheckpointIs
<1>7. CASE th'[t].pc = "forward"
  <2>1. Unchanged(t) \/ Prunes(t) \/ Fails(t)
    BY <1>7, CheckpointIs DEF Scanned, Labelled, Copies, Swaps, Moves
  <2>2. Current' = Current
    BY <2>1 DEF Unchanged, Prunes, Fails
  <2>3. CASE t \in Reports /\ ~th'[t].failed /\ ~Accounted(th[t].run)
    <3> DEFINE r == th[t].run
    <3>0. th'[t].run = r
      BY CheckpointIs
    <3>1. Under(t) /\ ~past.late /\ Due' \subseteq Due \cup {r}
      <4>1. Under(t)
        BY <2>1 DEF Unchanged, Prunes, Fails, Under, Copying
      <4>2. Told' \subseteq Told \cup {r}
        BY <1>1, <3>0, ThreadsAre DEF Told
      <4> QED BY <1>1, <1>3, <4>1, <4>2 DEF Undisturbed, Due, PastBut
    <3>2. \A f \in Files : r \in live[f] /\ Follows(r, f) /\ (Copying(t) => r \in th[t].scan[f])
      BY <2>3, <3>1 DEF Theirs
    <3> HIDE DEF r
    <3>3. \A f \in Files : r \in Current[f]
      <4>1. CASE Unchanged(t)
        BY <3>2, <4>1 DEF Unchanged, Follows
      <4>2. CASE th[t].pc = "prune"
        BY <3>2, <4>2 DEF Copied, Copying, Within
      <4>3. Unchanged(t) \/ th[t].pc = "prune"
        BY <2>1, <2>3 DEF Prunes, Fails
      <4> QED BY <4>1, <4>2, <4>3
    <3>4. past.partial \/ Restoring \/ Holds(live)
      <4>1. CASE live = Empty
        BY <3>2, <4>1 DEF Empty, Holds
      <4> QED BY <1>5, <4>1
    <3> QED BY <1>1, <1>4, <1>5, <1>7, <2>2, <3>1, <3>2, <3>3, <3>4, ThreadsAre DEF Saved, Holds, PastBut, Copying
  <2>4. CASE ~(t \in Reports /\ ~th'[t].failed /\ ~Accounted(th[t].run))
    <3>1. Due' \subseteq Due
      <4>1. Told' \subseteq Told \cup recorded \cup past.unsaved
        BY <1>1, <2>4, CheckpointIs, ThreadsAre DEF Told, Accounted
      <4> QED BY <1>1, <4>1 DEF Due, PastBut
    <3>2. past.partial \/ Restoring \/ (NotReady /\ live = Empty /\ sidecar'.last = Empty) \/ Holds(live)
      <4>1. CASE Prunes(t)
        <5>1. th[t].scan # sidecar.last /\ Within(th[t].scan, live) /\ th[t].scan \in Trees(given)
          BY <1>0, <4>1 DEF Prunes, Copied, Copying, Typed, Serving
        <5>2. ~(live = Empty /\ sidecar.last = Empty)
          BY <5>1 DEF Within, Empty, Trees
        <5> QED BY <1>5, <5>2
      <4> QED BY <1>5, <2>1, <4>1 DEF Unchanged, Fails
    <3> QED BY <1>1, <1>4, <1>5, <1>7, <2>2, <3>1, <3>2, ThreadsAre DEF Saved, Holds, PastBut, Copying
  <2> QED BY <2>3, <2>4
<1> QED BY <1>6, <1>7

LEMMA SavedNext == ASSUME Steady, Saved, [Next]_vars PROVE Saved'
<1>0. Sound /\ Typed /\ Copied /\ Restored /\ Ready /\ Theirs
  BY DEF Steady, Held, Sound
<1>1. CASE Aside /\ Idly
  <2>1. live' = live /\ sidecar'.last = sidecar.last /\ Current' = Current
        /\ \A t \in Checkpointers : Copying(t)' => th'[t] = th[t]
    BY <1>1, SameCurrent, ThreadsAre DEF Aside
  <2> QED BY <1>1, <2>1 DEF Idly, Saved, Undisturbed, Holds, Copying
<1>2. CASE PodEnds
  <2>1. /\ agent' = NoAgent /\ UNCHANGED <<live, gens, sidecar, recorded, past>> /\ Moves("term", "scan")
    BY <1>0, <1>2, PodEndsIs
  <2>2. Due' \subseteq Due /\ (NotReady => NotReady') /\ (Restoring => Restoring') /\ Current' = Current
    BY <2>1, Idlers, SameCurrent, ThreadsAre DEF Due, Told, NotReady, Works, Restoring, Moves, Others
  <2>3. \A t \in Checkpointers : Copying(t)' => th'[t] = th[t]
    BY <2>1, ThreadsAre DEF Copying, Moves, Others
  <2> QED BY <2>1, <2>2, <2>3 DEF Saved, Undisturbed, Holds, Copying
<1>3. CASE Sweeps
  <2>1. /\ agent'.on = NoOne /\ gens' = gens /\ recorded' = recorded /\ PastBut({"partial", "calm"}) /\ sidecar' = Fresh
        /\ \A t \in Threads : th'[t] = AtRest
    BY <1>0, <1>3, GoneIs, SidecarRestartsIs, Idlers DEF Sweeps, AgentOn, PastBut
  <2>2. Due' \subseteq Due /\ Current' = Current /\ \A t \in Checkpointers : ~Copying(t)'
    BY <2>1, Idlers, SameCurrent, ThreadsAre DEF Due, Told, Copying, PastBut
  <2>3. CASE PodGone \/ PodLost
    <3>1. live' = Empty /\ agent' = NoAgent
      BY <1>0, <2>3, GoneIs
    <3>2. NotReady' /\ sidecar'.last = Empty
      BY <2>1, <3>1, Idlers, ThreadsAre DEF NotReady, Works
    <3> QED BY <2>1, <2>2, <3>1, <3>2 DEF Saved, Undisturbed, Holds, Copying, PastBut
  <2>4. CASE SidecarRestarts
    <3>1. /\ live' = live /\ AgentOn(IF agent.st = "polling" THEN "idle" ELSE agent.st, NoOne)
          /\ (past'.partial <=> past.partial \/ Restoring)
      BY <1>0, <2>4, SidecarRestartsIs DEF Restoring
    <3>2. NotReady => NotReady'
      BY <2>1, <3>1, Idlers, ThreadsAre DEF NotReady, Works, AgentOn
    <3> QED BY <2>1, <2>2, <3>1, <3>2, Idlers DEF Saved, Undisturbed, Holds, Copying, PastBut
  <2> QED BY <1>3, <2>3, <2>4 DEF Sweeps
<1>4. ASSUME NEW f \in Files, RunWrites(f) PROVE Saved'
  <2>1. /\ agent.st = "running" /\ agent.on \notin Reports /\ agent'.on = agent.on /\ (\A g \in Files : live[g] \subseteq live'[g])
        /\ PastBut({"calm"}) /\ UNCHANGED <<gens, sidecar, th, recorded>>
    BY <1>0, <1>4, RunWritesIs DEF Sound, Placed
  <2>2. Due' \subseteq Due /\ Current' = Current /\ ~NotReady
    BY <2>1, SameCurrent DEF Due, Told, NotReady, Works, PastBut
  <2> QED BY <2>1, <2>2 DEF Saved, Undisturbed, Holds, Restoring, PastBut
<1>5. ASSUME NEW p \in Polls, Refills(p) PROVE Saved'
  BY <1>0, <1>5, RefillSaved
<1>6. ASSUME NEW t \in Checkpointers, Checkpoint(t) PROVE Saved'
  BY <1>0, <1>6, CheckpointSaved
<1> QED BY <1>0, <1>1, <1>2, <1>3, <1>4, <1>5, <1>6, Kinds, IdleKinds DEF Refills

LEMMA AlwaysSaved == Spec => []Saved
<1>1. Init => Saved
  <2> SUFFICES ASSUME Init PROVE Saved
    OBVIOUS
  <2>1. /\ agent = NoAgent /\ sidecar = Fresh /\ live = Empty /\ recorded = {} /\ \A t \in Threads : th[t].pc = "idle"
    BY Idlers DEF Init
  <2> QED BY <2>1, Idlers, ThreadsAre DEF Saved, Holds, Due, Told, NotReady, Works
<1> QED BY <1>1, SavedNext, AlwaysSteady, PTL DEF Spec

\* What the manager has the handle of is on the volume, through every later checkpoint,
\* restart and restore, also when the report was heard after the agent had given up waiting
\* for it; unless the copy for the report failed, a restore came before that copy, a tree
\* that was restored in part was copied, or nobody waited for a restore (proxy.go: a
\* recorded handle whose context was never persisted would fail the next run).
THEOREM RecordedStays == Spec => []RecordedIsKept
<1>1. Saved => RecordedIsKept
  BY DEF Saved, Holds, Due, RecordedIsKept
<1> QED BY <1>1, AlwaysSaved, PTL

\* The handle a run was given stands for runs that are recorded.
Handed == ~past.late /\ agent.st = "running" => agent.needs \subseteq recorded

LEMMA HandedNext == ASSUME Sound, Ready, Handed, [Next]_vars PROVE Handed'
<1>0. Typed
  BY DEF Sound
<1> SUFFICES ASSUME ~past'.late, agent'.st = "running" PROVE Handed'
  BY DEF Handed
<1>1. CASE Idly
  BY <1>1 DEF Idly, Handed, Works, Begins, Keeps
<1>2. CASE PodEnds
  BY <1>0, <1>2, PodEndsIs, Idlers
<1>3. CASE Sweeps
  BY <1>0, <1>3, GoneIs, SidecarRestartsIs, Idlers DEF Sweeps, Handed, AgentOn, PastBut
<1>4. ASSUME NEW f \in Files, RunWrites(f) PROVE Handed'
  BY <1>0, <1>4, RunWritesIs DEF Handed, PastBut
<1>5. ASSUME NEW p \in Polls, Refills(p) PROVE Handed'
  BY <1>5, NoRefill DEF Works
<1>6. ASSUME NEW t \in Checkpointers, Checkpoint(t) PROVE Handed'
  BY <1>6, CopiesAlone DEF Handed, PastBut
<1> QED BY <1>1, <1>2, <1>3, <1>4, <1>5, <1>6, IdleKinds

\* A run starts, and goes on, on a tree that holds what its handle stands for: whatever was
\* restarted or restored before, no unit is handed out while the tree is not whole
\* (proxy.go: restoring after handing out work would let the agent start against an empty
\* context tree).
THEOREM RunsHaveTheirContext == Spec => []RunsContinue
<1>1. Steady /\ Saved /\ Handed => RunsContinue
  <2> SUFFICES ASSUME Steady, Saved, Handed, Undisturbed, agent.st = "running" PROVE \A f \in Files : Due \subseteq live[f]
    BY DEF RunsContinue, Handed, Undisturbed, Due
  <2>1. ~past.late /\ Works
    BY DEF Undisturbed, Works
  <2>2. ~past.partial /\ ~Restoring /\ ~NotReady
    BY <2>1 DEF Steady, Ready, NotReady
  <2> QED BY <2>2 DEF Saved, Holds
<1>2. Init => Handed
  BY Idlers DEF Init, Handed
<1>3. Steady /\ Handed /\ [Next]_vars => Handed'
  BY HandedNext DEF Steady, Held
<1> QED BY <1>1, <1>2, <1>3, AlwaysSteady, AlwaysSaved, PTL DEF Spec

=============================================================================
