-------------------------------- MODULE Turns --------------------------------
(***************************************************************************)
(* The turns of one Coordinator root: its agent is given the root's inputs, *)
(* makes moves through the verbs, and reports; the report is judged, and a  *)
(* turn without a move is handed back, then escalated.  One member of it    *)
(* answers: each of its runs becomes an input of the root, appended by the  *)
(* report that recorded it and, where that failed, by the member's          *)
(* reconciler.  What a verb does to the tree is Coordination's, and what a  *)
(* run does to its pod is Conversation's.                                   *)
(*                                                                         *)
(* Each access to the store is a step of its own.  The handlers of a root's *)
(* report may overlap: the runtime sends it again when no answer came.      *)
(***************************************************************************)
EXTENDS Naturals, Sequences, FiniteSets, SequencesExt

CONSTANTS
  Handlers,    \* POST /work/done requests of the root that may be served at once, numbered
  MaxTurns,    \* limits.maxTurns
  ProcessedKept, \* ids of worked inputs the record keeps: 50
  MaxMessages, \* bound: what a person types
  MaxResults,  \* bound: runs of the member
  MaxRuns,     \* bound: runs of the root
  MaxFaults    \* bound: crashes, failed calls, lost answers, verbs given up

ASSUME TurnBounds ==
  /\ MaxTurns \in Nat \ {0} /\ ProcessedKept \in Nat
  /\ Handlers \subseteq Nat
  /\ {MaxMessages, MaxResults, MaxRuns, MaxFaults} \subseteq Nat

VARIABLES
  root,     \* the root's record
  agent,    \* its runtime
  verb,     \* a verb the manager has carried out and not yet recorded as a move
  hs,       \* the handlers of its report
  member,   \* the member's record
  fast,     \* the handler of the member's report
  back,     \* a pass of the member's reconciler
  sent, faults,
  past      \* what happened, for the properties

vars == <<root, agent, verb, hs, member, fast, back, sent, faults, past>>

NoUnit == [run |-> 0, ids |-> {}, moved |-> FALSE]
NoReport == [pc |-> "idle", run |-> 0, verdict |-> "ended"]
NoRouting == [pc |-> "idle", todo |-> {}]

Init ==
  /\ root = [open |-> TRUE, inputs |-> <<<<"signal", 1>>>>, done |-> <<>>, inflight |-> NoUnit,
             runs |-> {}, turns |-> 0, escalated |-> FALSE]
  /\ agent = [st |-> "idle", run |-> 0, ok |-> TRUE]
  /\ verb = 0
  /\ hs = [h \in Handlers |-> NoReport]
  /\ member = [st |-> "none", runs |-> 0, routed |-> {}]
  /\ fast = NoRouting /\ back = NoRouting
  /\ sent = [message |-> 0, run |-> 0] /\ faults = 0
  /\ past = [made |-> FALSE, excused |-> FALSE, misjudged |-> FALSE, undecided |-> FALSE, lost |-> FALSE,
             abandoned |-> FALSE, reached |-> {}]

Free(a) == [a EXCEPT !.st = "idle", !.ok = TRUE]
Fault == faults < MaxFaults /\ faults' = faults + 1

\* The queue without some of its inputs, in order.
Without(inputs, done) ==
  LET kept[n \in 0..Len(inputs)] ==
        IF n = 0 THEN <<>>
        ELSE IF inputs[n] \in done THEN kept[n - 1] ELSE Append(kept[n - 1], inputs[n])
  IN kept[Len(inputs)]

\* processedInputIds: of all that turns were reported on, oldest first (done), the
\* record keeps the latest.
Processed(c) == {c.done[k] : k \in {j \in DOMAIN c.done : j + ProcessedKept > Len(c.done)}}

PendingInputs(c) == Without(c.inputs, Processed(c) \cup c.inflight.ids)

\* The inputs of a unit, in the order of the queue.
InOrder(c, ids) == Without(c.inputs, Range(c.inputs) \ ids)

\* appendInputIdempotent: nothing on a closed conversation, nothing twice while it
\* is in the queue.
Appended(c, i) == IF c.open /\ i \notin Range(c.inputs) THEN [c EXCEPT !.inputs = Append(@, i)] ELSE c

-----------------------------------------------------------------------------
(* What a person does, and the work loop.  The root was opened by a signal. *)

PersonTypes ==
  /\ root.open /\ sent.message < MaxMessages
  /\ sent' = [sent EXCEPT !.message = @ + 1]
  /\ root' = Appended(root, <<"message", sent'.message>>)
  /\ UNCHANGED <<agent, verb, hs, member, fast, back, faults, past>>

\* Next: the oldest input alone, or the replies at the head of the queue together.
\* What a person types and what the manager hands back are replies.
Reply(i) == i[1] \in {"message", "manager"}
Unit(pending) ==
  LET run == {k \in 1..Len(pending) : \A j \in 1..k : Reply(pending[j])} IN
    IF run = {} THEN {pending[1]} ELSE {pending[k] : k \in run}

Dispatch ==
  /\ agent.st = "idle" /\ root.open /\ root.inflight = NoUnit
  /\ PendingInputs(root) # <<>> /\ sent.run < MaxRuns
  /\ LET n == sent.run + 1 IN
       /\ sent' = [sent EXCEPT !.run = n]
       /\ root' = [root EXCEPT !.inflight = [run |-> n, ids |-> Unit(PendingInputs(root)), moved |-> FALSE]]
       /\ agent' = [st |-> "busy", run |-> n, ok |-> TRUE]
  /\ past' = [past EXCEPT !.made = FALSE, !.excused = FALSE, !.undecided = FALSE]
  /\ UNCHANGED <<verb, hs, member, fast, back, faults>>

\* pruneProcessed, in a pass of the root's reconciler.
Prune ==
  /\ root.open /\ Range(root.inputs) \cap Processed(root) # {}
  /\ root' = [root EXCEPT !.inputs = Without(@, Processed(root))]
  /\ UNCHANGED <<agent, verb, hs, member, fast, back, sent, faults, past>>

\* The pod goes, and the reconciler that finds it gone forgets the run.
AgentDies ==
  /\ agent.st # "idle" /\ Fault
  /\ agent' = Free(agent)
  /\ root' = IF root.inflight.run = agent.run THEN [root EXCEPT !.inflight = NoUnit] ELSE root
  /\ past' = [past EXCEPT !.abandoned = @ \/ agent.st = "report"]
  /\ UNCHANGED <<verb, hs, member, fast, back, sent>>

Closed(m) == IF m.st = "open" THEN [m EXCEPT !.st = "closed"] ELSE m

PersonCloses ==
  /\ root.open
  /\ root' = [root EXCEPT !.open = FALSE]
  /\ member' = Closed(member)
  /\ UNCHANGED <<agent, verb, hs, fast, back, sent, faults, past>>

-----------------------------------------------------------------------------
(* The verbs: handleCoordinateInvoke, handleCoordinateClose (of the member) and *)
(* handleCoordinateEscalate.  What was asked is done, and then recorded as a    *)
(* move of the run that is in flight by then.  Bound: one verb a run.           *)

\* A member that was closed is not followed further, nor the one that replaces it.
Invokes == member' = (IF member.st = "none" THEN [member EXCEPT !.st = "open"] ELSE member) /\ UNCHANGED root
Closes == member.st = "open" /\ member' = Closed(member) /\ UNCHANGED root
Escalates == root' = [root EXCEPT !.escalated = TRUE] /\ UNCHANGED member

VerbCarriedOut ==
  /\ agent.st = "busy" /\ verb = 0 /\ root.open /\ ~past.made
  /\ Invokes \/ Closes \/ Escalates
  /\ verb' = agent.run
  /\ past' = [past EXCEPT !.made = TRUE]
  /\ UNCHANGED <<agent, hs, fast, back, sent, faults>>

Excused(b) == past' = [past EXCEPT !.excused = @ \/ b]

\* tryStampMove
VerbStamps ==
  /\ verb # 0 /\ verb' = 0
  /\ root' = IF root.inflight = NoUnit THEN root ELSE [root EXCEPT !.inflight.moved = TRUE]
  /\ Excused(verb # agent.run)
  /\ UNCHANGED <<agent, hs, member, fast, back, sent, faults>>

\* The stamp fails, or the request was given up by then and goes no further.
VerbFails ==
  /\ verb # 0 /\ Fault
  /\ verb' = 0 /\ Excused(verb = agent.run)
  /\ UNCHANGED <<root, agent, hs, member, fast, back, sent>>

\* The agent waits for its verbs, unless a call timed out.
AgentFinishes ==
  /\ agent.st = "busy"
  /\ \/ verb # agent.run /\ UNCHANGED <<faults, past>>
     \/ verb = agent.run /\ Fault /\ Excused(TRUE)
  /\ \E ok \in BOOLEAN : agent' = [agent EXCEPT !.st = "report", !.ok = ok]
  /\ UNCHANGED <<root, verb, hs, member, fast, back, sent>>

-----------------------------------------------------------------------------
(* POST /work/done of the root. *)

At(h, pc) == hs[h].pc = pc
Goes(h, pc) == hs' = [hs EXCEPT ![h].pc = pc]

\* Which request is which does not matter: the first that is free takes the report.
Takes(h) == At(h, "idle") /\ \A g \in Handlers : g < h => ~At(g, "idle")
Serving(run) == \E h \in Handlers : ~At(h, "idle") /\ hs[h].run = run

\* No answer came in time, and the runtime sends the report again.
ReportRepeated(h) ==
  /\ agent.st = "report" /\ Takes(h) /\ Serving(agent.run) /\ Fault
  /\ hs' = [hs EXCEPT ![h] = [NoReport EXCEPT !.pc = "get", !.run = agent.run]]
  /\ UNCHANGED <<root, agent, verb, member, fast, back, sent, past>>

\* judgeRootTurn, on the record as it was read, and actOnMiss before the run is
\* recorded.
\* Mutant: whatever is in flight is judged.
JudgesAnyRun(run) == root.inflight # NoUnit
Dispatched(run) == root.inflight.run = run
AnsweredAPerson(ids) == \E i \in ids : i[1] = "message"
OnlyTheCorrective(ids) == \E n \in 1..MaxRuns : ids = {<<"manager", n>>}
Verdict(run) ==
  IF \/ ~Dispatched(run) \/ root.inflight.moved \/ ~agent.ok \/ ~root.open
     \/ AnsweredAPerson(root.inflight.ids) \/ root.escalated \/ root.turns + 1 >= MaxTurns
  THEN "ended"
  ELSE IF OnlyTheCorrective(root.inflight.ids) THEN "second" ELSE "first"

\* Mutant: the turn is judged once it has been recorded and cleared.
JudgesLast == [get |-> "record", record |-> "mark", mark |-> "act", act |-> "answer", close |-> "act"]
Order == [get |-> "act", act |-> "record", record |-> "mark", mark |-> "answer", close |-> "answer"]

Misjudges(run, verdict) ==
  \/ verdict # "ended" /\ (run # agent.run \/ past.made)
  \/ Dispatched(run) /\ root.inflight.moved /\ ~past.made
Judges(h, run) ==
  LET verdict == Verdict(run) IN
    /\ hs' = [hs EXCEPT ![h] = [NoReport EXCEPT !.pc = Order["get"], !.run = run, !.verdict = verdict]]
    /\ past' = [past EXCEPT !.misjudged = @ \/ (Misjudges(run, verdict) /\ ~past.excused)]

ReportGet(h) ==
  /\ \/ At(h, "get") /\ Judges(h, hs[h].run)
     \/ Takes(h) /\ agent.st = "report" /\ ~Serving(agent.run) /\ Judges(h, agent.run)
  /\ UNCHANGED <<root, agent, verb, member, fast, back, sent, faults>>

\* appendCorrectiveInput and escalateSecondMiss.  One that fails is logged, and the
\* report goes on.
ReportActs(h) ==
  /\ At(h, "act") /\ hs' = [hs EXCEPT ![h].pc = Order["act"], ![h].verdict = "ended"]
  /\ \/ /\ root' = CASE hs[h].verdict = "first" -> Appended(root, <<"manager", hs[h].run>>)
                     [] hs[h].verdict = "second" -> [root EXCEPT !.escalated = TRUE]
                     [] OTHER -> root
        /\ UNCHANGED <<faults, past>>
     \/ /\ hs[h].verdict # "ended" /\ Fault
        /\ past' = [past EXCEPT !.lost = TRUE] /\ UNCHANGED root
  /\ UNCHANGED <<agent, verb, member, fast, back, sent>>

\* recordRun
ReportRecords(h) ==
  /\ At(h, "record") /\ Goes(h, Order["record"])
  /\ root' = [root EXCEPT !.runs = @ \cup {hs[h].run}]
  /\ UNCHANGED <<agent, verb, member, fast, back, sent, faults, past>>

\* The entry is cleared if it is this run's, and the turn is counted.
\* Mutant: the budget ends on the turn after the last.
EndsPastMax == root.turns >= MaxTurns
EndsBudget == root.turns + 1 >= MaxTurns
ReportMarks(h) ==
  /\ At(h, "mark") /\ Goes(h, IF EndsBudget THEN "close" ELSE Order["mark"])
  /\ LET mine == root.inflight.run = hs[h].run
         ids == IF mine THEN root.inflight.ids ELSE {} IN
       /\ root' = [root EXCEPT !.done = @ \o InOrder(root, ids), !.turns = @ + 1,
                              !.inflight = IF mine THEN NoUnit ELSE @]
       /\ past' = [past EXCEPT !.abandoned = FALSE,
                     !.undecided = IF mine THEN agent.ok /\ ~past.made /\ ~past.excused /\ ~AnsweredAPerson(ids) ELSE @]
  /\ UNCHANGED <<agent, verb, member, fast, back, sent, faults>>

\* CloseBudgetExceeded, on a turn that ends the budget: the members, then the root's
\* escalation.  A failure is logged, and the answer is the same.
ReportCloses(h) ==
  /\ At(h, "close") /\ Goes(h, Order["close"])
  /\ member' \in {member, Closed(member)}
  /\ \/ /\ member' = Closed(member) /\ root' = [root EXCEPT !.escalated = TRUE]
        /\ UNCHANGED <<faults, past>>
     \/ /\ Fault /\ past' = [past EXCEPT !.lost = TRUE]
        /\ UNCHANGED root
  /\ UNCHANGED <<agent, verb, fast, back, sent>>

\* The answer, which may be lost.
ReportAnswers(h) ==
  /\ At(h, "answer")
  /\ hs' = [hs EXCEPT ![h] = NoReport]
  /\ \/ agent' = (IF agent.st = "report" /\ agent.run = hs[h].run THEN Free(agent) ELSE agent)
        /\ UNCHANGED faults
     \/ Fault /\ UNCHANGED agent
  /\ UNCHANGED <<root, verb, member, fast, back, sent, past>>

\* The runtime waits for this report's answer, and no other request has it.
ComesAgain(h) ==
  agent.st = "report" /\ agent.run = hs[h].run /\ \A g \in Handlers \ {h} : At(g, "idle") \/ hs[g].run # hs[h].run

\* A store call fails, the client gives up, or the manager stops.
ReportCut(h) ==
  /\ ~At(h, "idle") /\ Fault
  /\ hs' = [hs EXCEPT ![h] = NoReport]
  /\ past' = [past EXCEPT !.abandoned = @ \/ (At(h, "close") /\ ~ComesAgain(h))]
  /\ UNCHANGED <<root, agent, verb, member, fast, back, sent>>

-----------------------------------------------------------------------------
(* The member's results. *)

\* A run of the member is recorded: from here the answer is owed to the root.
MemberReports ==
  /\ member.st = "open" /\ member.runs < MaxResults /\ fast = NoRouting
  /\ member' = [member EXCEPT !.runs = @ + 1]
  /\ fast' = [pc |-> "append", todo |-> {member'.runs}]
  /\ UNCHANGED <<root, agent, verb, hs, back, sent, faults, past>>

\* deliverMemberResults: what the list of runs, read once, shows not to be routed.
\* A closed member is not looked at again.
\* Mutant: a run is taken for routed because the report was there to route it.
OwesNothing == {}
Owed == (1..member.runs) \ member.routed
BackstopReads ==
  /\ back = NoRouting /\ member.st = "open" /\ Owed # {}
  /\ back' = [pc |-> "append", todo |-> Owed]
  /\ UNCHANGED <<root, agent, verb, hs, member, fast, sent, faults, past>>

Least(S) == CHOOSE n \in S : \A k \in S : n <= k

\* AppendMemberResult
Routed(n) ==
  /\ root' = Appended(root, <<"result", n>>)
  /\ past' = [past EXCEPT !.reached = @ \cup {n}]

FastAppends ==
  /\ fast.pc = "append" /\ Routed(Least(fast.todo))
  /\ fast' = [fast EXCEPT !.pc = "mark"]
  /\ UNCHANGED <<agent, verb, hs, member, back, sent, faults>>
FastMarks ==
  /\ fast.pc = "mark" /\ member' = [member EXCEPT !.routed = @ \cup fast.todo]
  /\ fast' = NoRouting
  /\ UNCHANGED <<root, agent, verb, hs, back, sent, faults, past>>
BackstopAppends ==
  /\ back.pc = "append" /\ Routed(Least(back.todo))
  /\ back' = [back EXCEPT !.pc = "mark"]
  /\ UNCHANGED <<agent, verb, hs, member, fast, sent, faults>>

\* The pass goes on to its next run, whatever became of this one.
NextOwed(b) ==
  LET rest == b.todo \ {Least(b.todo)} IN
    IF rest = {} THEN NoRouting ELSE [pc |-> "append", todo |-> rest]
BackstopMarks ==
  /\ back.pc = "mark"
  /\ member' = [member EXCEPT !.routed = @ \cup {Least(back.todo)}]
  /\ back' = NextOwed(back)
  /\ UNCHANGED <<root, agent, verb, hs, fast, sent, faults, past>>

\* A run whose append failed is not marked.
\* Mutant: it is marked like the others.
MarkedAnyway(b) == IF b.pc = "append" THEN [b EXCEPT !.pc = "mark"] ELSE NextOwed(b)
AfterFailure(b) == NextOwed(b)
BackstopFails ==
  /\ back.pc # "idle" /\ Fault
  /\ back' = AfterFailure(back)
  /\ UNCHANGED <<root, agent, verb, hs, member, fast, sent, past>>

\* The report gives up on its result, or the manager stops.
RoutingCut ==
  /\ Fault
  /\ \/ fast # NoRouting /\ fast' = NoRouting /\ UNCHANGED back
     \/ back # NoRouting /\ back' = NoRouting /\ UNCHANGED fast
  /\ UNCHANGED <<root, agent, verb, hs, member, sent, past>>

ReportGoesOn(h) == ReportGet(h) \/ ReportActs(h) \/ ReportRecords(h) \/ ReportMarks(h)
                   \/ ReportCloses(h) \/ ReportAnswers(h)
Routing == FastAppends \/ FastMarks \/ BackstopReads \/ BackstopAppends \/ BackstopMarks

Next ==
  \/ PersonTypes \/ PersonCloses
  \/ Dispatch \/ Prune \/ AgentDies \/ AgentFinishes
  \/ VerbCarriedOut \/ VerbStamps \/ VerbFails
  \/ \E h \in Handlers : ReportRepeated(h) \/ ReportGoesOn(h) \/ ReportCut(h)
  \/ MemberReports \/ Routing \/ BackstopFails \/ RoutingCut

Spec == Init /\ [][Next]_vars

\* A request and a pass run to their end; the reconciler comes back while a member
\* owes a result.
FairSpec == Spec /\ WF_vars(Routing)

-----------------------------------------------------------------------------
(* Properties. *)

Quiet == agent.st = "idle" /\ verb = 0 /\ \A h \in Handlers : At(h, "idle")

\* Every variable stays inside its shape.
TypeOK ==
  /\ Processed(root) \cap root.inflight.ids = {} /\ root.turns \in Nat
  /\ agent.run \in 0..MaxRuns /\ verb \in 0..MaxRuns
  /\ \A h \in Handlers : hs[h].pc \in {"idle", "get", "act", "record", "mark", "close", "answer"}
  /\ member.routed \subseteq 1..member.runs

\* What a member answered reaches the root, whatever was cut off between the record
\* of its run and the append, unless one of the two closes first.
ResultsReach ==
  \A n \in 1..MaxResults : []<>(member.runs < n \/ n \in past.reached \/ ~root.open \/ member.st = "closed")

\* A result that is marked as routed is with the open root: it waits in the queue, is
\* in hand, or was worked on.  The mark is the last chance of a result, and it is on
\* another record than the queue, set by two paths of which each may fail in between.
MarkedIsTakenIn ==
  root.open => \A n \in member.routed : <<"result", n>> \in Range(root.inputs) \cup Range(root.done)

\* An input that is worked on again has left the list of the processed: as many others
\* were worked on since as the record keeps.  A member's result is appended again when
\* it was pruned before it was marked, and a corrective input by a report sent twice.
WorkedAgainLate ==
  \A a, b \in 1..Len(root.done) : a < b /\ root.done[a] = root.done[b] => b > a + ProcessedKept

\* Both: no result is lost between the two records, and none counts twice while the
\* list can tell.
TakenInOnce == MarkedIsTakenIn /\ WorkedAgainLate

\* When nothing is left to do on an open root, and its last turn was undecided, then
\* it is escalated or its budget is spent: the report of the turn may be cut off at
\* any call, and sent again at any time.  Not so when handing back failed, which is
\* only logged.
UndecidedIsTakenUp ==
  Quiet /\ root.open /\ Len(PendingInputs(root)) = 0 /\ past.undecided =>
    root.escalated \/ root.turns >= MaxTurns \/ past.lost

\* A turn is judged by the moves of its own run: one that made a move is not handed
\* back, and one that made none is not spared, unless a verb outlived its turn or
\* its mark was lost.
JudgedByItsOwnMoves == ~past.misjudged

\* Both: each turn is judged, and judged right.
TurnsAreJudged == UndecidedIsTakenUp /\ JudgedByItsOwnMoves

\* The root is escalated when its budget of turns is spent, by the report of that
\* turn or by the same report sent again, unless it was cut off and nobody sends it
\* again.  A turn is counted for each run, once more at most for each fault, and once
\* less at most where a report was cut off between its run and its turn.
BudgetEnds ==
  /\ Quiet /\ root.turns >= MaxTurns => root.escalated \/ past.lost \/ past.abandoned
  /\ root.turns <= Cardinality(root.runs) + faults
  /\ Quiet => Cardinality(root.runs) <= root.turns + faults
=============================================================================
