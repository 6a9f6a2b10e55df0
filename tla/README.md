# Verification of agent-ops-operator

agent-ops-operator runs conversations between people, signals and agents on a
Kubernetes cluster.  A *manager* keeps one record per conversation, queues the
inputs people and signals send it, starts a *runtime pod* for a conversation
that has work, hands the work out over HTTP, takes the reports back, and posts
the replies to chat through *channel adapters*.  *Signal sources* turn what
happens elsewhere into signals, which the manager stores, deduplicates and
routes to conversations; a *coordinator* conversation may invite others as
members of a tree; a *sidecar* in each pod keeps the agent's context on a
volume.  This directory holds TLA+ models of the parts of that program where
interleavings, crashes and retries decide whether it is correct, the TLC runs
that check them, and proofs.

Paths below are under `src/`; `mgr/` is `src/platform/manager/internal/`.

## 1. Inventory

| part | state | operations | talks to | properties that make it correct |
|---|---|---|---|---|
| dispatch and reports (`mgr/dispatch`, `mgr/httpapi/server.go`) | `status.inflight`, `processedMessages`, phase, run history | `GET /work` (`tryDispatch`, `Next`), `POST /work/done` (`handleWorkDone`: five store accesses) | store, breaker, chat | nothing said is lost; nothing answered runs again; order of arrival; one run record per run; Closed is sticky |
| conversation reconciler (`mgr/controller`) | the copy read at the start of a pass, pods | reap, drain, prune, admit, create pod, bind, topics, replies, phase, auto-close, closed release | store, apiserver and its informer cache, op queue, breaker | a dead run is dispatched again; a closed conversation lets go; the phase settles |
| chat router (`mgr/chat/router.go`) | none of its own | message, close, reopen, exit, eviction, fan-out | store, apiserver, op queue | a closed conversation takes no input; an idle release kills no run |
| chat delivery (`mgr/chat/ops.go`) | in-memory queue, claimed set, window of completed ids; delivery marks, claims and notes in the record | enqueue, claim, complete, marks | adapters over HTTP, store, reconciler | every reply arrives; none is repeated without a fault; nothing owed is suppressed |
| admission (`mgr/controller/conversation_controller.go`) | derived from the pod list and the records; the start backoff in memory | admit, recheck, evict, create, reap an unstarted pod | pod cache, router | the cap; first come first served; nobody waits for ever |
| storage breaker (`mgr/storagebreaker`) | open flag, reports in a window, last probe | `Report`, `Continued`, `ProbeDue`, `IsOpen` | dispatch, reconciler, reports | held work is tried again; whoever waits is answered or held |
| state store, kube backend (`mgr/state/kube`, `mgr/state/helpers.go`) | one object per record, two endpoints, resourceVersion | `Mutate`, `Update`, `AppendRun`, create, delete, list, watch, signals | apiserver | no lost update, no lost run |
| signal store (`mgr/state/kube/signals.go`, `expiry.go`, `watch.go`; `mgr/controller/feed.go`) | one object per signal, an expiry stamp, the armed flag, the feed's position | publish, update, settle the expiry, sweep, release a source, watch | apiserver, cache, signal reconciler | an unconsumed signal goes only with its source; it is consumed; a finished one goes |
| signal routing (`mgr/controller/signal_controller.go`, `mgr/signalroute`, `mgr/ingest`) | phase and claims of a signal, the cooldown window in memory and in the source's status | admit, snapshot the claimants, route to each, settle | signal store, conversation store, router | one input per message and claimant; one open conversation per id; arrival order; the cooldown |
| coordination: the tree (`mgr/chat/coordinate.go`, `mgr/httpapi/coordinate.go`) | parent links, `agentsInvoked`, Closed | invoke, close and its cascade, escalate, reopen, delete | store, cache | nothing open below what is closed; the agents budget |
| coordination: turns (`mgr/httpapi/moveperturn.go`, `mgr/chat/coordinate.go`, `mgr/controller`) | moves of the unit in flight, `turnsUsed`, escalated, what of a member's results was routed | judge a turn, hand back, escalate, route a member's result | dispatch, reconciler | every turn is judged, by its own moves; the turn budget ends it; results arrive |
| runtime work loop (`runtimes/ollama`) | the unit at work | poll, run, report with retries, idle exit | `GET /work`, `POST /work/done` | a report is retried until it is heard |
| context sync (`platform/context-sync`) | the live tree, generations on the volume, its memory of what it restored and saved | restore before the first unit, checkpoint before a report, on a timer and at the end | agent, manager, volume | a recorded run's context is on the volume; the next run starts on it |
| Home Assistant signal source (`signals/ha`) | what was seen, the cursor in memory and at the manager, the dwell queue | session, event, sweep, post, advance, persist | Home Assistant, manager | each occurrence is considered once; none is missed |
| Telegram channel's operation loop (`channels/telegram/main.go`) | ids acted on | claim, act, complete | `GET` and `POST /channel/ops` | an operation is acknowledged only if it was acted on |
| other signal sources (cron, Kubernetes events, webhooks) | dwell queues, mutes, pod cache | post | `POST /signals` | |
| housekeeping, egress proxy, console, MCP servers, other runtimes, channel transport, gateways, chart | | | | see section 7 and `PROJECT.json`: each with the reason it is not modelled |

What is hard here:

- *interleaving*: HTTP handlers, the reconcilers, the eviction path and the
  adapters all move the same record.  Each store access is atomic
  (compare-and-swap on resourceVersion with a retry) but a handler is several
  of them, and a pass of a reconciler decides on a copy.
- *stale reads*: lists of pods, conversations and signals come from an informer
  cache; a pass keeps the record it read at its start until one of its own
  writes refreshes it.
- *reused names*: a signal's record is named after its source and id, so a
  re-send, an expired record and a successor of a deleted source meet there.
- *crash and retry*: a manager restart empties the in-memory queue and ends
  every handler between two store calls; the runtime retries its report; the
  adapter's claim is handed out again; a publisher sends again.
- *partial failure*: one logical write is two endpoint calls; a mark may fail
  after the operation succeeded; a cascade stops in the middle of a tree; a
  copy of a tree stops between two files.
- *bounds*: 50 processed ids, 10 runs in the history, 512 completed operations,
  a run id with the resolution of one second, caps on pods, on unfinished
  signals, on agents and on turns.

The full list, with lines and the properties that cover each item, is
`PROJECT.json` "hazards".

## 2. Modules

`X.tla` is the specification, `MCX.tla` the module TLC starts from,
`X_proofs.tla` the theorems.  `PROJECT.json` "map" gives the source lines of
every definition.  A definition whose comment begins with "Mutant:" is no part
of the specification: it is a plausible bug, put in the place of its neighbour
to show that a property notices.  A variable `past` is history: no action of the
program reads it, only properties do.

### Conversation

One conversation as four concurrent parties see it.  `conv` is the record
(phase, closedAt, inputs, processed ids, inflight, runtimePod), `runs` the run
history, `pod` the Pod object and `podSeen` the informer's copy, `rt` the
process in each pod incarnation, `hs` the `/work/done` requests being served,
`rec` the reconcile pass with the facts its copy showed.

- One action is one store access with what the code does before the next one:
  `handleWorkDone` is `ReportGet`, `ReportListRuns`, `ReportAppendRun`,
  `ReportMark`, `ReportPhase`; a pass is the `Rec...` actions in the code's
  order, from `RecBegin` to `RecSetPhase` or an early return.
- `TryDispatch` is one step: `dispatch.Next` and the write it makes are inside
  one `Mutate`.  `NextUnit` gives the units it may return; a payload that does
  not resolve ends a batch early, so every prefix of the batch is possible.
- Inputs are numbered in arrival order; their type (task, reply, recurrence)
  decides about batching.  A run id is the second it was made in and whether
  the unit resumes: that is all `Next` makes unique.
- `RecReadPod(FALSE)` reads the pod from the cache and goes on as the code
  does for each state; `RecReadPod(TRUE)` is the start deadline.
- Faults (a runtime that dies, a lost response, a report given up, a manager
  restart, a pod that does not start) cost `MaxFaults`; closes, releases and
  dispatched units have bounds of their own.

### Delivery

How a run's reply reaches the conversation's threads.  The record holds what
is owed (`recorded`, `delivered`, topic bindings and claims, archived threads,
the note that names an undelivered reply); the queue (`queued`, `claimed`,
`recent`) is in memory.  The reply of a run is derived twice, by the report
handler (`FanOutRunReply`) and by every pass (`PassDelivers`).  The card of
an input (`inputs`) is derived by the `router` that appended it and by every
pass that finds it queued, and has no mark: `PassReads` prunes what was
answered, and a run answers any batch of what is queued.  `Complete`
takes the operation from the queue and puts its id into the completed window
whatever became of it, as the code does; one that failed leaves the window in a
step of its own (`ReleaseRefused`), and the record is touched in the steps after
it, one for each access.  In between, a pass that derives what failed finds it
suppressed.  A pass that needs a worker and may not start one (backoff, breaker,
no slot) prunes and ends, `PassIsHeld`: it asks for no topic and delivers
nothing.  `surface` and `posted` are what people see.
The adapter is the Telegram channel's operation loop: one operation at a time,
acknowledged without acting if `completed` still holds its id (`Act`), acted on
otherwise (`Execute`).  That memory holds 1024 ids and ends with the process,
so `Act` may also find it gone, at no cost: what keeps a reply from being said
twice without a fault is the manager.  A refused call may have acted.

### Admission

Several conversations and fewer slots.  `AheadOf` is `waitingFIFO`, `Free` and
`Admits` are `admit`, and a pass is the calls that follow: the second check of
the cap, the eviction of the longest idle worker, the creation.  A deleted pod
lives on (`dying`) and is listed until it is gone; `seen` is the lagging cache.
The pods of the conversations in `Stuck` need not start: `ReapUnstartedPod`
takes them down at the deadline and puts the conversation into `backoff`, where
it is not admitted until `BackoffEnds`.  A closed conversation gives its pod
back (`ReleaseWorkload`) and waits no more.  `crowd` is history: the slots, or
the most pods that were listed when somebody was admitted.  Pods that are going
are listed and counted among those that could be evicted, so that many are the
conversations that one can be admitted past.

### StorageBreaker

The breaker and its whole loop: dispatch that holds continuations, the
reconciler that probes, reaps and counts failed starts, reports that say a
context could not be continued.  Time passes by `WindowPasses` (a report leaves
the window) and `IntervalPasses` (the next probe is due).  A start may fail for
the volume or for another cause (`MaxTrouble`), `why` is the reason the
conversation shows, and with `StaleCache` a pod that was reaped is seen again
(`ghost`) and counted again.

### RecordStore and AtomicRecord

`AtomicRecord` is what `state.Store` promises: compare-and-swap of a whole
record, and a run history that is appended to without conflicts.
`RecordStore` is the Kubernetes backend: `Mutate`'s read, the check of the
version, the main endpoint, the status endpoint, the re-read after a refused
status write, each an action, with AppendRun's own loop around them.  A caller
may stop between any two.  A side of the record is the sequence of changes it
carries.  `ImplementsAtomicRecord` is the refinement, for the writers of the
status side.

### SignalStore

One message with a signalId and the one object its name allows.  Publish
handlers create it, or replace it when what they find has expired
(`CreateSignal`'s loop); a pass reads it, decides, and writes it finished, which
is two writes, the second of which stamps the expiry (`settleExpiry`); the sweep
lists what has expired and deletes it, with the `armed` flag between it and the
feed; `ReleaseSource` lists what a departed source has left and deletes it, once
from a pass and once from the source's own reconciler; the feed lists, watches,
resumes and starts over.  `obj` has a uid and a revision, so that whoever
decides on what it read before is told apart from whoever decides on what is
there.  `cache` is what lists are answered from.

### Signals

What a pass decides, for several messages of one id.  `Admit` is the check of
order, of the cap and of the cooldown, whose window is spent in memory (`book`)
and in the source's status (`window`); `Snapshot` records who claims the
message; `Route` goes through the claimants that are left: a conversation of the
same id and claimant that is open is reused (`RouteReuses`, `AppendInput`),
otherwise one is made (`RouteCreates`), and `PassSaves` records how far the pass
came.  Passes over different messages interleave at each of these.

A message is a machine's, a person's, or addressed to a pipeline (`Kinds`); only
the last asks no cooldown.  A person's may find that its source keeps no window,
and then the book holds that for the rest of the process (`Book`).  A crash
empties the book, which is read back from the windows.  Every write of a window
is best effort, and keeps the newest ids only: `Record` leaves it as it was or
writes any part of what is in memory, at the cost of a fault where that is not
all of it (`Toll`).  That goes for giving an id back as well (`Unspend`).
`OthersSpend` is a signal of another id, which reads or records the same window.
`past.missing` are the ids that a write left out, `past.stray` those that a write
or a dead process left in.  A conversation knows the messages of its last runs
(`known`, 10 in the code); `RunForgotten` costs a fault.

### Coordination

The tree.  An invoke is check, create, count; a close walks down: for a
Coordinator root first the members, then itself, then a second sweep for what
was invoked meanwhile, and what is left of the walk is a stack of frames; a
delete, of a closed root, removes what is below from the leaves up.  Callers are
an agent's parallel tool calls, a person, the idle timer and the deadline.

### Turns

The turns of one root.  A verb that was carried out (`verb`) is stamped on the
unit in flight in a later step; a report is judged from what is stamped
(`ReportGet`), acted on with a hand-back or an escalation (`ReportActs`),
recorded, its inputs marked, and answered, each an access of its own, with two
handlers for one report that was sent twice.  On the turn that spends the budget
there is one step more between the mark and the answer (`ReportCloses`): the
members are closed, then the root is escalated.  A failure there is only logged
(`past.lost`); a report that is cut off there, by a pod or a manager that dies,
and that nobody sends again, is `past.abandoned`.  The member's runs become
inputs of the root by two paths, the member's report (`fast`) and its reconciler
(`back`), each of which appends to the root and then marks the run on the member.
The reconciler reads the runs once and goes on to the next where one fails
(`BackstopFails`).  `done` is all that turns were reported on, in order; the
record keeps its last `ProcessedKept` ids (50 in the code), and `Processed` is
what it knows by.  An input that was pruned and forgotten is appended again by
whoever has it still to mark, or by a report sent twice.

### HomeAssistant

One source.  A record comes by an event and by a listing, `th` is where each
path stands in `consider`: seen, post, advance, persist.  A record of a key in
`Deferred` is matched by a rule with a dwell window and waits in the dwell queue
(`dwell`) with the others of its integration, until the flusher (`flush`) takes
the entry out, judges it without the lock and posts it; after a report the
integration is quiet for a while.  How long a window is is not counted: it ends
at some time.  Instants are half seconds, because the cursor is
saved in whole ones.

### ContextSync

The context of one conversation over its pods.  `live` is the tree, `gens` the
generations on the volume, `sidecar` what it remembers (restored, in flight, the
manifest of the last copy, the mutex) and `th` its threads: each poll and each
report it proxies, the timer, and the shutdown.  A checkpoint is scan, label,
copy file by file, make current, prune; a restore is file by file.  A request
whose agent has stopped waiting goes on; the manager hears a report all the same
(`Heard`) or does not, since a client that left shows only once the body was
read.

### How they fit

Each store access of the other modules is one atomic step; RecordStore is where
that is looked at more closely.  What it shows is what the others need: a
confirmed write is kept, and a status write lands whole on the record it was
computed from.  Two limits are worth knowing: a write that changes *both* sides
may land in part (see `ConflictWritesNothing` in section 5), and the other
models do not show that.

SignalStore promises that every stored signal gets its passes, and Signals
takes that as given: an unfinished signal may be taken up at any time.  Signals
ends with an input appended to a conversation, which is where Conversation
begins; Turns does the same for what members answer.  Turns takes from
Conversation that a unit is dispatched, reported and marked, and leaves out what
happens to its pod; Coordination is the tree those verbs change.  ContextSync
lies between the runtime of Conversation and its manager: what StorageBreaker
calls a context is the volume there.  HomeAssistant ends with a post, where
SignalStore begins.

Conversation and Delivery share the record's phase and runs but are not
composed: delivery reads whether the conversation is closed and which runs
are recorded, and writes nothing that dispatch reads.  What else it depends on
is that a pass gets as far as delivering: whether a needed worker may start is
Admission's and StorageBreaker's, and any pass of Delivery may be held for it.

## 3. Runs

All numbers are from TLC with two workers.

| run | instance | shows |
|---|---|---|
| `conversation_work` | 2 inputs, 2 pods, a stale pod cache, 2 units, 1 fault, 1 release; 3.3 M states, 1 min | record before prune, no rerun, order, one record per run, a working pod's run is the one in flight |
| `conversation_live` | auto-close, 2 inputs, 1 pod, 5 units, 1 close, 1 fault, run history 1; 0.5 M states, 1 min | every input settles, the phase settles, a closed conversation lets go, no report reopens it |
| `breaker_outage` | 2 conversations, threshold 2, degrade after 3, stale pod cache, 1 start that fails for another cause, 3 messages, 1 outage that may never end, 1 context lost; 0.5 M states, 1 min | whoever waits is answered or held, whoever is held is tried again |
| `record_writes` | 3 writers (1 spec, 2 status), 2 appenders; 3.4 M states, 1 min | no lost update, no lost run, refinement |
| `delivery` | 1 channel, 2 runs, or a run and an input with a card, passes that may be held, 2 faults, or a fault and a close; 1.1 M states, 3 min | marks are true, no repetition without a fault, every reply and the card of every unanswered input arrive, notes settle |
| `admission` | 3 conversations, 1 slot, lagging cache, one conversation whose pods may never start, 3 messages, 1 close; 0.8 M states, 3 min | order of the first start, and service for everybody else |
| `signals` | 2 messages of one id, 1 source with at most 2 unfinished, 2 claimants, 2 conversations, 1 younger signal, 1 window, 1 fault; 0.9 M states, 3 min | one input and one open conversation, arrival order, the cooldown, every signal settles |
| `signal_store` | 2 requests for one message, 2 identities of its source, 1 fault; 0.3 M states, 1 min | a live record goes only with its source, is consumed, a finished one goes |
| `coordination` | a tree of up to 3 conversations, 2 coordinators, 2 requests at once, 1 agent each, 2 closes, 1 reopen, 1 delete, 1 fault; 3.4 M states, 2 min | nothing open below what is closed, the agents budget |
| `turns` | 3 turns, 2 handlers, 1 message, 1 member result, 3 runs, a list of 2 processed inputs, 1 fault; 3.7 M states, 3 min | turns judged by their own moves and taken up, the budget, results arrive, and none is marked before it has |
| `home_assistant` | 2 records, one of them deferred, 2 instants after the start, 1 fault; 0.9 M states, 1 min | each occurrence considered once, an integration reported once, every record handed on |
| `context_sync` | 2 files, 2 polls and 2 reports at once, 2 generations, 2 runs, 2 pods, 1 fault; 1.8 M states, 1 min | what is recorded is on the volume, the next run starts on it, copies at a boundary are whole, the end keeps work |

Why the bounds are enough for what they are used for:

- Two inputs, a task and a reply, are the least with a unit that another could
  overtake.  That three change nothing for `AnsweredInOrder` is proved
  (section 6).
- Two pod incarnations are the least for a successor to meet the work of the
  pod before it; the pods are interchangeable, hence the symmetry set (in
  safety runs only, as in every run with one).
- Two units give an input one re-dispatch, which the one fault can cause.
  `conversation_live` is bounded by dispatched units (5): one fault and one
  close cannot use them up, so no behaviour ends for want of units.
- One close is enough for what comes before it to meet what comes after it; a
  second one after a reopen is the `ClosedThreadsArchived` instance of section 5.
- Three messages for two conversations let one conversation reach the threshold
  of the breaker alone, or both together, and leave one message that waits.
- Three conversations for one slot let one be started, one stand back and one
  wait behind it.  `admission` also passes with two slots and two stuck
  conversations (1.8 M states), with four messages and no close, and with four
  conversations (11.2 M).
- In `delivery`, two faults are the least that leave a note about a reply that
  arrived: one refuses it, the other loses the write that clears the note.
  `MaxTrouble` bounds faults and closes together, `MaxSaid` runs and inputs.
- Three writers are the least with a conflict on the status side while the spec
  side moves too, and two appenders the least that can overwrite each other;
  two attempts let every loop both go round and give up.
- Two messages of one id are the least that can share a conversation, be
  reordered or fall into one cooldown window; two conversations the least that
  could both be open.  In `signals` whatever stands for the world outside these
  two costs the fault: a window that overflows, a write of it that fails, a use of
  it by another id, a run that is forgotten.
- Two publish requests and two identities of the source are the least for
  someone to decide about an object that has been replaced since.
- Three conversations are a root, a member and a member's member, or a root
  with two members; two requests are the least that can race.  `coordination`
  also passes with three requests at once (9.9 M states with two closes and no
  fault, 9.7 M with a fault).  Three are what it takes for a delete to reach a
  conversation that is open, reopened or invoked on, which `NoOrphans` exempts.
- Three turns with three runs reach the budget, and two handlers are one report
  and its repetition.  A list of two processed inputs is short enough to be
  full; for a *result* to be worked on twice it takes four runs, which
  `TakenInOnceAlways` covers and the run does not.  What the run shows is that
  no result is marked before it is there, and none that is appended again while
  the list has it is worked on.
- In `context_sync` one fault gives a report whose agent has stopped waiting, also
  one the manager hears; that such a report meets a later restore takes three.
  It was checked with 3 faults, 1 run and 1 pod (8.2 M states), and
  `RecordedStays` covers it.
- `home_assistant` also passes with two faults (2.0 M states).
- Two generations with two runs over two pods let a generation be pruned that
  an earlier run recorded; two files are the least for a tree copied in part.

Deadlock is not checked: every model may come to rest, when everything is
answered and the bounds are spent.

What the passing runs assume, because TLC refutes it otherwise (section 5): a
second between two units (`SubSecondRuns = FALSE`), fewer answered inputs than
the processed list holds (`ProcessedBound = 5`, 50 in the code), one request at
a time that reports a run (`Handlers = {h1}`), no storage outage in
Conversation (`Outage = FALSE`).  What a property exempts beyond that is in its
definition: a `past` flag set at the step named there, such as a list answered
by a cache that had fallen behind (`misled`).  Each exemption stands for a case
of section 5.  That "P leads to Q" is written `[]<>(~P \/ Q)` where P lasts until
Q, which is the same and cheaper to check.

## 4. Fairness

Only what the program or Kubernetes schedules by itself is fair.  Nothing people
do, no fault and no outage is; that a store recovers is assumed only in
`RecoveringSpec`, which no run uses.

- Conversation, Admission, StorageBreaker: the reconciler (its work queue
  resyncs), the kubelet, the informer, the polling runtime, handlers that were
  begun, probe intervals and backoffs.  Strong are `SF(RecCreatePod)`,
  `SF(Admit)` and `SF(Provision)`: the reconciler comes back to *every*
  conversation that waits, although it is refused in between; the code requeues
  each of them on its own timer.  In Admission no pod of `Stuck` is assumed to
  start, only to be reaped at the deadline.  That a refused admission comes
  again only after the cache has caught up is the requeue interval, seconds
  against the cache's milliseconds.
- Delivery: the reconciler, the adapter's loop, claims that grow old; not the
  report handler's fan-out, for the next pass does what it leaves.  Fair is a
  pass that goes on to deliver (`PassReads`): a conversation is held for want of
  a worker now and then (`PassIsHeld`), but not for ever.  That a waiting one is
  started, through backoffs and a full cap, is `Admission!EveryoneIsServed`; while
  a storage outage lasts it is held, and then neither `WhatIsOwedArrives` nor
  `NoteSettles` is promised of what the report handler did not deliver.  Weak
  fairness of a poll is enough for the adapter and the runtime, because nobody
  else takes their operation or their unit.
- Signals: the cache catches up, a pass that was begun goes on (the work queue
  retries it), and `SF(PassEnds)`: a deadline that has passed stays passed, so
  some later pass finds it so.
- SignalStore: handlers, passes, sweeps, the feed, the releases and the cache
  go on, an expiry passes, and `SF(Finishes)`: some pass decides what it reads,
  which is `Signals!EverySignalSettles`.
- Turns: only the routing of a member's results, by its report or its
  reconciler.  That a turn is judged is stated without fairness, of states in
  which nobody has anything left to do.
- HomeAssistant: the adapter reconnects, polls, lets each path and the flusher
  run, and windows end.
- ContextSync: nothing, for what the run checks.  `FairSpec`, for
  `KeptInTheEnd`, has the timer, whoever waits for the mutex (strong: others
  may take it in between), copies that were begun, and the end of a pod.

A report that is retried is fair only as a handler: that the runtime gives up
costs a fault.

## 5. What the code does otherwise

The modules state more than the runs check.  These properties are what a
document, a comment or a test of the repository says; TLC refutes each with the
constants named here on top of those of the run, and the shortest
counterexample is in words.

| property | refuted by | because |
|---|---|---|
| `Conversation!ClosedIsSticky` | `conversation_work`, `MaxCloses = 1` | a pass that read the record before the close, or a pod that still polls, moves it back to Queued or Working (`openspec/specs/conversation-close/spec.md:34`, `server.go:739-748`) |
| `Conversation!ClosedAcceptsNoInput` | `conversation_work`, `MaxCloses = 1` | a close between the check and the append |
| `Conversation!ReleaseSparesRuns` | `conversation_work` as it is | a unit dispatched between the check and the delete |
| `Conversation!RunIdIsFresh` | `conversation_work`, `SubSecondRuns = TRUE` | the id is a second and a mode |
| `Conversation!RecordedBeforePruned` | `conversation_work`, `Outage = TRUE` | a held report records its run without inputs; its retry after the outage skips the record and marks the inputs |
| `Conversation!AnsweredNeverRerun` | `conversation_work`, `MaxInputs = 3`, `MaxRuns = 3`, `ProcessedBound = 1`, `StaleCache = FALSE`, `MaxReleases = 0` | more inputs answered between two prunes than the processed list holds |
| `Conversation!RunRecordedOnce` | `conversation_work`, `Handlers = {h1, h2}` | a timed-out report and its retry both find the run missing |
| `StorageBreaker!IsolatedLossIsNoOutage` | `breaker_outage` as it is | reports of one conversation reach the threshold |
| `StorageBreaker!HeldWorkResumes` | `breaker_outage` under `RecoveringSpec` | while the breaker is open no continuation is dispatched, and only a continuation closes it |
| `StorageBreaker!MemoryIsGivenUpLate` | `breaker_outage` as it is, with `StaleCache = FALSE`, or with `MaxTrouble = 0`; it holds with both | failures of any cause are counted, and one failure is counted twice while the cache shows the reaped pod |
| `Delivery!ClosedThreadsArchived` | `delivery`, `MaxCloses = 2`, or `MaxTrouble = 3` | the close-topic of a second close has the id of the first and is dropped; so is one when an ensure-topic whose answer was lost is handed out after the archiving |
| `Admission!CapHolds` | `admission` as it is | one dying pod is counted as evictable more than once |
| `Admission!NoneIsPassedOver` | `admission`, `MaxConvs = 4`, `MaxMessages = 4` | a dying pod is counted as evictable next to an idle one, so one more is admitted past an older conversation than there are slots (`docs/concepts.md:1743-1744`, `openspec/specs/conversation-capacity/spec.md:77-80`) |
| `Delivery!NoCardIsLost` | `delivery` as it is | an input that is answered and pruned before its channel's topic is bound never gets its card (`openspec/specs/conversation-opens-with-its-input/spec.md:133`) |
| `Delivery!CardsAreSaidOnce` | `delivery` as it is | a card has no mark, so a restart of the manager posts those of unpruned inputs again (line 138 there, `docs/concepts.md:1934`) |
| `HomeAssistant!QuietIsEarned` | `home_assistant` as it is | the quiet time starts before the post, so a post that fails silences the integration as well |
| `RecordStore!ConflictWritesNothing` | `record_writes` as it is | a refused status write leaves the spec side written, and Mutate applies its change again |
| `SignalStore!DuplicateIsSeen` | `signal_store` as it is | a read that fails, or finds the record just swept, is answered as a duplicate |
| `Coordination!DeletedWasClosed` | `coordination` as it is | a plain close closes the root before its members (`server.go:1302-1306`) |
| `ContextSync!QuiescedIsWhole` | `context_sync`, `MaxFaults = 0`, `MaxRuns = 1` | a unit is handed out between the label and the copy (`docs/concepts.md:2214`) |
| `ContextSync!TornHasFallback` | `context_sync`, `Files = {f1, f2, f3}`, `MaxFaults = 0`, `MaxRuns = 2`, `MaxPods = 1`, no symmetry | a long run is copied more often than generations are kept (`docs/concepts.md:2217-2219`) |

Stated, holding, and without a run of their own: the type invariants,
`Coordination!OneMemberPerEntry`, `SignalStore!LiveNeverExpires` (proved, section
6), `ContextSync!KeptInTheEnd` (1 poll, 1 report, 1 fault under `FairSpec`: 1.2 M
states, 4 min).

What the models say besides, found while writing them:

- *Delivery.*  A reply of an earlier run whose fast path was lost (a restart, a
  refused post) is not delivered by the reconciler while the next input waits for
  a worker: the pass ends at `conversation_controller.go:313-356`, before
  topics and replies.  With the breaker open that lasts as long as the outage.
  Between `ops.go:519` and `565-569` the completed window holds what has just
  failed, contrary to the comment at `547`, so that what derives it in that moment
  is told that it is done; the next pass derives it again.
- *Runtime start.*  `conversation_controller.go:1600-1610` speaks of consecutive
  storage-attributable failures, and `1616-1618` of a context that must never be
  stripped when a pod cannot be scheduled.  Failed starts of every cause are
  counted: several unschedulable pods and one volume that does not mount strip
  it.  `enterPendingFor` overwrites VolumeUnavailable with StorageUnavailable,
  so a held conversation past the threshold gets a canary *with* its volume.
- *Coordination.*  `closeMemberIfCallerClosed` (`coordinate.go:163-178`) closes
  the member alone, and `cascadeCloseMembers` skips members that are closed, so
  what that member has invoked by then stays open, contrary to the comment at
  `786-791`.  When the second sweep fails, a member stays open below a closed
  root.  `handleConversationDelete` checks Closed once, so a reopen or an
  invoke that races it leaves orphans or deletes what is open.  Concurrent
  invokes overshoot `maxAgents` and make two members for one entry; a failure
  between `createMember` and `bumpAgentsInvoked` leaves a member uncounted.
  Lists come from the informer cache.  `NoOrphans` and `WithinBudget` exempt
  exactly these (`cut`, `took`, `bare`, `misled`, `overlapped`).
- *Turns.*  A verb that was carried out and whose stamp is lost reads as a turn
  without a move, although `httpapi/coordinate.go:279-282` rules that out; a
  stamp that lands between the report's read and its clearing write is lost; a
  verb whose caller gave up may stamp the next run.  A hand-back that fails is
  only logged.  `server.go` says that the root closes on that edge, but
  `Escalate` on a root nobody caused only escalates.  A report that is sent
  again counts its turn again.  The members are closed and the root is escalated
  *after* the turn is counted, so when the report is cut off between the two and
  the pod dies before it sends it again, the budget is spent and nobody is told:
  with two faults TLC refutes `BudgetEnds` without `past.abandoned`.  The list of
  processed inputs keeps 50, so a result whose mark is late by more than that is
  appended, and worked on, once more: `TakenInOnce` says no sooner.  What a
  member answered and was not routed before it was closed never is.  A nested
  `Escalate` closes and then appends, so a crash loses the digest.
  `docs/guides/coordinate-agents.md:206` calls `maxTurns` a number of inputs;
  it is one of runs.
- *Cooldown.*  `signalsource_types.go:62-64` and `cooldown.go:66-73` say that
  what people say is not suppressed.  The CRD's default of 6 hours is on the
  source by then, so the branch for chat is reached only where `cooldownHours` is
  0: a chat source left at its default drops a repeated id of a person.  A
  machine's source, on the other hand, cannot be switched off, for 0 becomes the
  default.  Whether a window is kept is decided by the first signal of the process
  and holds for every kind after it.  The write of a window is best effort, at the
  giving back too: when it fails and the leader changes, a signal is suppressed by
  its own id, or a twin is admitted; `past.missing` and `past.stray` name exactly
  those ids.
- *Signals.*  The retry of `settleExpiry` by name stamps an expiry on a
  successor's live record after a release and a re-send, and the sweep deletes
  it.  `SignalSourceReconciler` (`signalsource_controller.go:44`) releases by
  name, without an identity and on a cached read, and so takes a successor's
  live signals.  The armed flag is lost when the sweep lists between Update's
  two writes and the feed starts over.  A list that stands in for lost events
  may be answered by a cache that misses a record.  A crash between
  `PutCooldown` and the snapshot makes a pass suppress its own signal
  (`signal_controller.go:347-351`, `68-71`); a status write that landed and
  was not answered gives the cooldown back.  Lists from the cache contradict
  `signal_controller.go:331-333`.  Conversations are reused by id alone but
  locked by source and id, so two sources may open two.  An input may be
  appended to a conversation that was closed between lookup and write.
- *Home Assistant.*  An event of a fresh subscription, before the sweep has read
  the cursor, moves it past whatever was logged while there was no session, and
  the sweep skips that (`main.go:815`: losing a record would be the worse
  failure).  A sweep that finds a record seen, whose event path has not posted
  it yet, moves the cursor past it, and a crash loses it.  A post that fails
  loses its record though the cursor stays, since the record has been seen.  A
  cursor that cannot be read at the start is the present (`343-347`).
- *Context sync.*  A report that its agent gave up while it waited for its copy
  goes on.  If the sidecar was restarted at the end of that run, the next poll
  restores over the tree; the late report then copies what was restored, and the
  manager records a run that is nowhere.  `past.unsaved` has it; it takes three
  faults.  A checkpoint that fails does not stop the report, so a handle
  may be recorded whose context is not kept, contrary to `proxy.go:44-48`.  A
  restore that fails midway leaves a tree in part, which the timer copies and
  makes current.  "Exactly once per pod" (`proxy.go:129`) fails for a poll the
  agent stopped waiting for, which may restore over what a run wrote.  After a
  restart of the sidecar alone its manifest comes from the live tree, so files
  that are not on the volume pass for saved, at the final checkpoint too.
  `proxy.go:43-46` lets a failure of the sidecar fail the pod; it is a native
  sidecar that restarts.  Every poll marks a unit in flight, also one that
  returns none, so copies of an idle agent are labelled best effort.
- *Dwell queues.*  `Flush` takes the entry, decides without the lock, and only
  then starts the refractory window, so a record that arrives in between opens
  an entry that reports again inside the window; `ReportedOnce` exempts exactly
  that entry.  What waits in an open window is lost on a restart when the saved
  cursor is past it, as `signals/ha/main.go` says.  `signals/k8s-events/pending.go`
  is the same code, from reading.
- *Kubernetes events source*, from reading `signals/k8s-events/main.go`.  The
  scopes share one cursor, so at a start or a relist one scope's clean list moves
  it past events another scope has not listed yet.  Two scopes whose lists are
  clipped keep each other from advancing it, and every relist posts the same
  first events again.  A post that failed is not retried once a later event has
  moved the cursor.  A clean list of which nothing is admitted commits nothing,
  so a hold is not released.

## 6. Proofs

Every theorem is about `Spec` of its module and holds for every value of the
constants that meets the module's assumptions.  These say what is a number, a set
or a flag; what they say beyond that is named below.  Where a theorem has a
hypothesis, TLC refutes it without (section 5).

The longer proofs are laid out alike: one lemma per action says all that it does,
and nothing after it opens the action again; steps that an invariant has no part
in are put aside together.

### RecordStore_proofs

`RecordTyped`, `NoLostUpdate` and `NoLostRun` hold for every set of writers and
appenders, every split of the writers into sides and every number of attempts.
The assumptions are the two of the module: `SpecWritersAreWriters` and
`AttemptsArePositive`.

`WrittenIsKept` is not inductive: that a call at the current version does not
destroy anything depends on what that call carries.  The strengthening `IInv`
says, for each writer,

- `Running`: it has attempts left and knows no version of the future;
- `Carries`: while the version it read is the current one, what it carries is
  what the object holds with its own change added; in the status phase it
  carries the status its main write left with its own change added, and a
  status call at the current version finds that status;
- `Landed`: what it wrote to its side is on that side;

and the like for each appender.  The object `Grows` in every step: the version
never falls, at the same version it is the same object, and no change or run
leaves it.  So whoever does not move keeps its invariant (`WriterStays`,
`AppenderStays`), and each action needs an argument about its own actor only.

`ImplementsPromise` is the refinement: every step of the two-endpoint protocol
is a step of `AtomicRecord` or a stutter under the mapping of
`ImplementsAtomicRecord`.  Two facts about status writers make it go through
(`Pending`): while one is in its status phase it has not written and its side
lacks its change, and the version it read last is the one its read step noted.
Then a status call that is accepted is the atomic write, and all that comes
before it is nothing.

### Conversation_proofs

`TypeCorrect`, `AnswersInOrder` and `ReportsKeepClosed` hold for any inputs and
types, pods, handlers and bounds, with a stale cache or not, with outages or
not.  The assumptions are those of the module: bounds are numbers, the types of
the inputs are given, switches are Boolean, and no pod has the name that stands
for none.

Types need one fact more than `TypeOK` (`Typed`): the handler about to append
has found room for the input.  The proof has one lemma per party (`ChatTyped`,
`RuntimeTyped`, `WorkDoneTyped`, and the pass in two halves) over lemmas about
what each helper returns (`RecordUpdates`, `PassUpdates`, `DeletePodTyped`).

`AnsweredInOrder` is not inductive: it says nothing of the unit in flight, which
is what is answered next.  `OrderInv` adds that an input older than one in
flight is in flight too or answered; that comes from `NextUnit` when the unit
is dispatched, provided an input that is not pending has been answered: an
input that has arrived is queued or answered, the processed list holds only
answered ones, and so does what a pass is about to prune.  Only five actions
touch these facts; every other is `Quiet` and keeps them
(`QuietKeepsOrder`).  In particular neither the length of the processed list
nor the number of concurrent reports matters for the order, while both matter
for what follows.

- `RunsAreRecordedOnce`, while no two reports of a run are served at once
  (`OneReportEach`): whoever is about to append a run has found none of that id
  and nobody else is about to (`Looked`).
- `RunsStayInflight`, unless two units are dispatched within one second: run
  ids are of the past (`Clocked`), a run is held by one process and one report
  (`Alone`), and a pass that is about to forget the run in flight has seen its
  pod gone, or deletes it first (`Gone`).
- `NothingSaidIsLost`, without outages besides: whoever is about to mark the run in
  flight has its inputs in the copy it read, or they are on record
  (`Captured`), and by `RunsStayInflight` the run it reports is the one in flight.
- `AnswersAreFinal`, while the queue is no longer than the list of processed
  ids (`QueueFits`; the code's list holds 50): what was answered is an interval
  1..m, what is queued is b+1..next-1, and the list is the end of 1..m, which
  reaches back to b (`Lined`).  So an answered input is pruned before its id is
  forgotten.

### Admission_proofs

`FirstComeIsFirstServed`: `FirstComeFirstServed` speaks of who has had a pod, but
a pass decides on a list that lags.  The invariant is about those that never had
one (`NeverHad`): no cache shows a pod of theirs, they are not in backoff, and what
they were told is unanswered, because a run is in flight only where there is work
(`BusyWorks`).  So each of them that is older and open is ahead of whoever is
admitted, whatever the cache hides; fewer than `crowd` are (`InOrder`), and that
lasts through the steps of the pass between the decision and the creation.

### Coordination_proofs

Assumed besides the bounds: 0, which stands for nobody, is no conversation.

`StaysWithinBudget`: at most one invoke is on a caller (`OneInvoke`, what
`past.overlapped` is about), and what a caller has made is what it has counted,
plus one while the invoke is between the creation and the count, plus the calls
that failed there (`Room`).

`NobodyIsOrphaned` is about what is *left of a walk*, since `NoOrphans` speaks
only of the end.  `Planned` says that the steps still to come in each frame are
in the order of its verb's plan.  `Deletes` says of a walk that deletes that
where it has listed nobody is open, that whoever is there is on its stack or
still to come (`Emptied`), and that nobody invokes a member there (`Cleared`).
`Awaited` says that for every member that is open below a closed conversation,
or there below a deleted one (`Adrift`), somebody comes back: the invoke that
made it, at its recheck, or a frame that has it, or one above it, still to close
or to list (`Awaits`).  At rest there is nobody to come back, so there is no such
member.

### Delivery_proofs

`TypeCorrect` has two facts besides `TypeOK`: what an adapter holds is of its own
channel, and a conversation is reopened once for each time it was closed.

`NeitherMarkLies`: `Seen` adds that what an adapter remembers, or is about to
mark, is on the thread; the marks are made from nothing else.  What is in the
completed window is marked, or the completion that put it there is still to mark
it or to take it out.

`RepetitionsAreFaults` is a count.  The completed window and the operations
that can still be handed out are apart (`Apart`).  An operation may be posted
once more by the adapter that holds it, and once more if it is neither queued
nor remembered when that is over (`Chance`); posts and chances together are at
most one more than the faults (`Earned`).  Each action takes from the chance what
it adds to the count, or costs a fault.  So no restart, lost answer or refused
call makes two repeats out of one fault.

### ContextSync_proofs

Assumed besides the bounds: requests, the timer and the shutdown are distinct
(`ThreadsAreDistinct`).

`Sound` comes first: the types, where a thread can be for what the agent is
doing (`Placed`), that whoever restores or copies holds the mutex (`Guarded`),
and that one generation at most is current and one that is being built is the
last (`Built`).  On it:

- `Copied` and `Restored`: what was scanned is in the copy, and what was current
  in the tree, for every file that is done.
- `EndIsSafe`: what the sidecar remembers to have saved is on the volume
  (`Remembers`), and the final checkpoint is of a tree that stands still
  (`Ended`).
- `BoundariesAreWhole`: while the tree is not whole no unit is in hand
  (`Ready`), and while a report is waited for the tree stands still and the
  copy is of all of it (`Mine`, `Still`).
- `RecordedStays`: what the manager has the handle of, or may yet be told of,
  is in the current generation, in the copy that is to replace it, and in
  the tree wherever a unit can be had (`Saved`).  A report nobody waits for may
  still be heard, so what it stands for is kept as that of any other: it is
  recorded, or known to be unsaved, or in what its own copy takes (`Theirs`).
  `RunsHaveTheirContext` follows, with what a run was handed (`Handed`).

### Signals_proofs

Assumed besides the bounds: messages are finitely many and numbered in order,
there is a source, and 0, which stands for nobody, is no conversation.

`TypeCorrect` includes that what a pass has in hand agrees with the record it
was read from (`Passing`).  The four others rest on lemmas on what a step does to
one message (`SigStep`), one pass (`PassStep`), the conversations (`ConvsStep`:
each goes on, is told one new message, or is new) and the windows (`CoolStep`).

- `RoutedOnceHolds`: an append of a message that is there adds nothing, since the
  input's id is derived from the message; it is found where it is queued or where a
  run that is kept cites it, and a message whose run was forgotten before its
  signal was done is exempt (`Recalled`); whoever makes a
  conversation was shown those of its claimant and id by a list that was not
  stale, and none was open (`OneOpenConversation`).
- `ArrivalIsKept`: when a pass has a key, none of that key that still waits
  arrived before its message (`First`); it appends to a conversation that was
  made for its message's id (`Made`, `Heading`), a conversation was told only what
  is of its id (`Mine`), and of those of one key that still wait none arrived
  before what it was told (`Earlier`).
- `CooldownIsKept`: one pass at a time has a key (`Alone`), and while it has
  spent the id the source's book is in use and holds it (`InUse`).  Unless a write
  left the id out, the stored window holds the id of whoever was admitted, so
  does the book where it is in use, and nobody was admitted where a pass has spent
  the id and not yet recorded it (`Tight`), through crashes that lose the book
  and times in which the source is found off.
- `NeverByItself`: each id in a book or a window is held by somebody admitted under
  it, or by a pass that has spent it, or it is astray: left there by a process that
  died, or by a write that failed (`Accounted`); whoever was admitted is stored,
  and decided (`Entered`).

A message is stored in a second no earlier than that of any stored before:
`LatestIs` shows that the maximum of the stored seconds is a number and none is
above it, by well-founded induction over the sets of messages.

The last two parts of the module are about `HomeAssistant` and `SignalStore`,
which come before `Signals`: a source's post, and the record it becomes.  Each is
taken as a named instance, `Home!` and `Store!`, with constants and variables
declared for it there, whatever they are (`MaxFaults` is shared, a number).
Nothing that is proved of `Signals` is used, and no assumption is added.

`ReportedOnceAlways`, for any number of records, instants and faults.  Events of
one key come in order (`OccurInOrder`), what is in hand is of the log
(`FromLog`), and what a listing lacks had not occurred when it was read
(`NotListed`).  `Remembered` is the heart: an occurrence that this process has
considered is still among what was seen, or it was forgotten behind the cursor
(`Behind`), and then whatever is on the wire of its key is later, and the sweep
takes nothing of it up again.  `KeepsQuiet` is about the dwell queue: while an
integration is quiet, or a verdict on it is being formed, no entry waits but one
that came in during an earlier verdict, and a verdict that is formed in a quiet
time is of an entry taken out before; these are the two that the property
exempts.

`OnlyReleaseTakesLiveAlways`: a decision is made on an object read earlier, so
`Readings` says what a reading is good for: with the uid and the revision it had,
the object is as it was read but for the time that passed (`Reads`), and every
step of the object keeps that true (`Becomes`).  `Written` says that a pass
writes no finished record back to unfinished, and settles what it wrote;
`Expiring` that what somebody is about to remove as expired had expired when it
was read, and so it is no live record now (`StillExpired`); `Owned` that a
record has a source, and so has a pass that releases one.  Then whoever takes a
live object away is one of the two releases (`WhoTakesLive`).
`LiveNeverExpiresAlways` is a part of that invariant.

### Turns_proofs

`TurnsAreJudgedAlways`, `BudgetEndsAlways` and `TakenInOnceAlways` hold for any
number of messages, turns, runs, results, faults, handlers and processed ids.
The assumptions are the module's: the bounds are numbers, `MaxTurns` at least
one, and handlers are numbered.

The queue without what was done is `Without`, and `WithoutKeeps` says that the
rest stays.  It is a recursive function, of which the provers know no more than
that it satisfies its equation if any function does; that one does follows by a
first position for which none did (`KeptUpTo`).

The three follow from one invariant, `IInv`.

- `Turned`: there is one turn at a time.  What is in flight is the run the agent
  was last given (`OneTurn`); a report is of that run or of one before, and one
  that has marked its turn has nothing in flight any more (`Reports`).
- `TurnsAreJudgedAlways`: a run that made a move has it marked on what is in
  flight, or the verb has still to mark it while the agent works, or the turn is
  excused (`Moves`); so a report judges by the moves of its own run
  (`JudgedByItsOwnMoves`).  A corrective input bears the number of the run it is
  for, and none for the last run is in hand or done (`Numbered`); so it cannot
  pass for one that was handed back before.  `Undecided` follows a missed turn
  from the report that acted on it: the corrective input waits in the queue,
  unless the root has ended or was escalated, the failure was logged, or the
  budget is spent (`TakenUp`).  At rest the queue is empty.
- `BudgetEndsAlways`: while the budget is spent and the root not escalated, a
  report is about to close, or will be sent again and mark its turn once more
  (`Awaited`), or it was cut off for good (`Spent`).  The count is `Counted`: the
  turns counted, the reports that have still to count theirs, and the one the
  agent has still to send, are no more than the runs that are due a turn and the
  faults; and the runs recorded are no more than the turns, the reports about to
  count, and the faults.  At rest nothing is about to, and what is left are the two
  bounds of the property.
- `TakenInOnceAlways` has two halves.  A result that is marked, or is about to be
  marked by either path, is in the queue or done, as long as the root is open
  (`TakenIn`): an append that was reached put it there, and whatever leaves the
  queue is processed (`QueueMoves`).  What is in hand is not among the processed
  (`Apart`), and what a report adds to them is in the order of the queue and without
  repetition (`Completes`, `Distinct`), so that a second place of the same input is
  further on than the list reaches.

### What is only model-checked

Every safety property that a run checks is proved.  What stays with TLC:

- Liveness, everywhere: it needs ENABLED, which the prover does not have.  So
  StorageBreaker, whose properties are all of this kind, has no proofs.
- That the counterexamples of section 5 exist.

Induction over data is out of the provers' reach in its usual form.  Where a
proof needs it, it is done by a least counterexample (`Turns_proofs!KeptUpTo`) or
on well-founded sets (`Signals_proofs!LatestIs`).

## 7. Not modelled

`PROJECT.json` "components" lists every part with its reason.  Most of the
repository's lines hold no state that several actors share: generated
declarations, the API types, the console's views, the construction of pods,
rendering, charts, clients of external APIs.  Modelling them would restate
them.

Within the modelled parts, these are left out: profile resolution and payloads,
agent loops, the read verbs of a coordination and its projections, notices and
farewells, attribute filters and pipeline resolution of
signals, which ids an overflowing window gives up, that memory forgets an id after
seven days whatever the window, that a released source's window is cleared
(`kube/signals.go:497`), the reasons of a dwell queue's verdicts, the declined
backfill and the stale-cursor reset of the Home Assistant source, what the
include globs of a context match, several processes of the manager except as a
leader that is replaced, and time other than the order of events.

Parts with behaviour that no module has:

- *Kubernetes events source*: its read position over several scopes, and a dwell
  queue like Home Assistant's: see section 5.
- *Housekeeping* (`platform/housekeeping`): it lists the context directories,
  then the conversations that still exist, and removes the rest.  A name that
  is made again between the list and the removal loses its directory, and one
  directory that cannot be removed stops every later one in the sorted order.
- *Egress proxy*: the policy it learns from the work units that pass through
  it.  *Gateways*, *MCP servers*, *console*: stateless, or clients of the
  manager.  *Other runtimes*: the work protocol of the modelled loop around
  other agents.

Simplifications to keep in mind: ids pushed out of the completed window by other
conversations cost a fault in Delivery (`RecentForgets`); a thread that a lost
close completion left archived on the surface, but not in the record, is not
followed through a later reopen; generations of a context are numbered by their
order, the scan of a tree is one step, and two contents are the same where size
and time of change are; a Home Assistant sweep that an ended session left
behind is over before the next session's begins.

## 8. Plan

1. *Delivery* when the run history is shorter than what is owed.
2. *Kubernetes events source*: its read position over several scopes.
3. *Housekeeping*, with the conversation's lifecycle: deletion, expiry of
   conversation records, a name made again.
4. *Composition*: Signals over SignalStore, and Turns over Conversation, where
   each now assumes what the other shows.
