------------------------------ MODULE Delivery ------------------------------
(*****************************************************************************)
(* How what is said in a conversation, to the agent and by it, reaches the   *)
(* conversation's chat threads.  What is owed is in the record; the queue    *)
(* of operations is in memory and derived from it, twice for a run's reply:  *)
(* by the report handler as soon as the run is recorded, and by every        *)
(* reconcile pass until the run is marked delivered.  The card of an input   *)
(* is derived by the router that appended it and by every pass that finds    *)
(* it queued, and has no mark: an input is queued until a pass prunes what   *)
(* was answered.  Adapters claim operations, act on their surface and        *)
(* complete them; the queue keeps what it handed out until it is completed   *)
(* and remembers for a while what succeeded, so as not to say it twice.      *)
(*                                                                           *)
(* Every store access is one step, but that a pass reads and prunes at       *)
(* once. Notices and farewells take the same way and are left out.           *)
(*****************************************************************************)
EXTENDS Naturals, Sequences, FiniteSets

CONSTANTS
  Channels,   \* the channels the conversation is bound to, an adapter each
  MaxRuns,    \* bound: runs recorded
  MaxInputs,  \* bound: inputs with a card; of others each surface has shown its own
  MaxSaid,    \* bound: runs and inputs together
  MaxCloses,  \* bound: times the conversation is closed
  MaxFaults,  \* bound: restarts, lost requests, failed calls, forgotten ids
  MaxTrouble  \* bound: closes and faults together

ASSUME DeliveryBounds == {MaxRuns, MaxInputs, MaxSaid, MaxCloses, MaxFaults, MaxTrouble} \subseteq Nat

VARIABLES
  conv,       \* the conversation record, as far as delivery reads it
  recorded,   \* its recorded runs are 1..recorded
  inputs,     \* its inputs with a card: those still queued, those of them answered
  delivered,  \* the runs' delivery marks: <<run, channel>>
  queued,     \* OpQueue.order: what each adapter may claim, oldest first
  claimed,    \* operations handed out and not completed
  recent,     \* OpQueue.recent: operations that were completed, but for those that failed
  router,     \* the router is about to deliver what it appended
  fast,       \* the report handler about to fan its run's reply out
  pass,       \* the reconcile pass and the copy it works on
  ad,         \* each adapter, and the handler serving its completion
  completed,  \* the operation ids each adapter remembers having acted on
  surface,    \* each channel's thread, as people see it
  posted,     \* how often each reply and each card was posted
  closes, faults

queue == <<queued, claimed, recent>>
record == <<conv, recorded, inputs, delivered>>
world == <<completed, surface, posted>>
handlers == <<router, fast>>
vars == <<record, queue, handlers, pass, ad, world, closes, faults>>

Runs == 1..MaxRuns
Inputs == 1..MaxInputs

\* An operation's id: a reply names its run, a card its input, a topic how often the
\* conversation was reopened, a close nothing.
Said == [kind: {"reply"}, ch: Channels, n: Runs] \cup [kind: {"card"}, ch: Channels, n: Inputs]
Ids == Said
         \cup [kind: {"topic"}, ch: Channels, n: 0..MaxCloses]
         \cup [kind: {"close"}, ch: Channels, n: {0}]
RunReply(ch, r) == [kind |-> "reply", ch |-> ch, n |-> r]
InputCard(ch, i) == [kind |-> "card", ch |-> ch, n |-> i]
EnsureTopic(ch, reopens) == [kind |-> "topic", ch |-> ch, n |-> reopens]
CloseTopic(ch) == [kind |-> "close", ch |-> ch, n |-> 0]

\* bound: a binding exists; threads: it has a thread; claims: its ensure-topic
\* claim is live; note: the undelivered reply it names.
Record == [closed: BOOLEAN, reopens: 0..MaxCloses, bound: SUBSET Channels,
           threads: SUBSET Channels, claims: SUBSET Channels,
           archived: SUBSET Channels, note: [Channels -> 0..MaxRuns]]
Elems(s) == {s[k] : k \in DOMAIN s}
Outstanding == claimed \cup UNION {Elems(queued[ch]) : ch \in Channels}
Fresh == [closed |-> FALSE, reopens |-> 0, bound |-> {}, threads |-> {}, claims |-> {},
          archived |-> {}, note |-> [ch \in Channels |-> 0]]
NoPass == [pc |-> "idle", conv |-> Fresh, queued |-> {}, runs |-> 0, delivered |-> {}, todo |-> {}]
Idle == [pc |-> "idle", id |-> CloseTopic(CHOOSE ch \in Channels : TRUE)]

Init ==
  /\ conv = Fresh
  /\ recorded = 0 /\ inputs = [arrived |-> 0, queued |-> {}, answered |-> {}] /\ delivered = {}
  /\ queued = [ch \in Channels |-> <<>>] /\ claimed = {} /\ recent = {}
  /\ router = FALSE /\ fast = [run |-> 0, threads |-> {}]
  /\ pass = NoPass
  /\ ad = [ch \in Channels |-> Idle]
  /\ completed = [ch \in Channels |-> {}]
  /\ surface = [ch \in Channels |-> "none"]
  /\ posted = [id \in Said |-> 0]
  /\ closes = 0 /\ faults = 0

Fault == faults < MaxFaults /\ closes + faults < MaxTrouble /\ faults' = faults + 1

-----------------------------------------------------------------------------
(* The queue. *)

\* What of s is not in S, in the same order.
Without(s, S) ==
  LET kept == {k \in DOMAIN s : s[k] \notin S}
      Nth(n) == CHOOSE k \in kept : Cardinality(kept \cap 1..k) = n
  IN IF kept = DOMAIN s THEN s ELSE [n \in 1..Cardinality(kept) |-> s[Nth(n)]]

\* Mutant: what succeeded is queued again.
KnownWhileThere == Outstanding
Known == Outstanding \cup recent

\* enqueue, for the operations ids[ch] of each channel in turn.
Enqueue(ids) ==
  /\ queued' = [ch \in Channels |-> queued[ch] \o Without(ids[ch], Known)]
  /\ UNCHANGED <<claimed, recent>>
EnqueueOne(id) == Enqueue([ch \in Channels |-> IF ch = id.ch THEN <<id>> ELSE <<>>])

\* Ids of other conversations push ours out of the completed window.
RecentForgets ==
  /\ Fault
  /\ \E id \in recent : recent' = recent \ {id}
  /\ UNCHANGED <<record, queued, claimed, handlers, pass, ad, world, closes>>

-----------------------------------------------------------------------------
(* Inputs, runs, closing and reopening. *)

\* Somebody's message or a signal is queued; the router that appended a message goes
\* on to deliver it, if it is not stopped.
InputArrives ==
  /\ inputs.arrived < MaxInputs /\ recorded + inputs.arrived < MaxSaid /\ ~conv.closed /\ ~router
  /\ inputs' = [inputs EXCEPT !.arrived = @ + 1, !.queued = @ \cup {inputs.arrived + 1}]
  /\ router' \in BOOLEAN
  /\ UNCHANGED <<conv, recorded, delivered, queue, fast, pass, ad, world, closes, faults>>

\* DeliverInputs: a card for each queued input and each channel with a thread.
Cards(ch, threads, pending) ==
  IF ch \in threads THEN Without([i \in Inputs |-> InputCard(ch, i)], {InputCard(ch, i) : i \in Inputs \ pending})
                    ELSE <<>>
RouterDelivers ==
  /\ router /\ router' = FALSE
  /\ Enqueue([ch \in Channels |-> Cards(ch, conv.threads, inputs.queued)])
  /\ UNCHANGED <<record, fast, pass, ad, world, closes, faults>>

\* A unit is dispatched once some topic has been asked for, and its run is
\* recorded when it is reported, closed or not, with the inputs it answers.  The
\* handler goes on with the record it has just written.
RunRecorded ==
  /\ recorded < MaxRuns /\ recorded + inputs.arrived < MaxSaid /\ fast.run = 0
  /\ conv.bound # {}
  /\ recorded' = recorded + 1
  /\ fast' = [run |-> recorded', threads |-> conv.threads]
  /\ \E batch \in SUBSET (inputs.queued \ inputs.answered) :
       inputs' = [inputs EXCEPT !.answered = @ \cup batch]
  /\ UNCHANGED <<conv, delivered, router, queue, pass, ad, world, closes, faults>>

Owed(r, threads, marks) ==
  [ch \in Channels |-> IF ch \in threads /\ <<r, ch>> \notin marks THEN <<RunReply(ch, r)>> ELSE <<>>]

FanOutRunReply ==
  /\ fast.run > 0
  /\ Enqueue(Owed(fast.run, fast.threads, delivered))
  /\ fast' = [run |-> 0, threads |-> {}]
  /\ UNCHANGED <<record, router, pass, ad, world, closes, faults>>

CloseConversation ==
  /\ ~conv.closed /\ closes < MaxCloses /\ closes + faults < MaxTrouble
  /\ conv' = [conv EXCEPT !.closed = TRUE]
  /\ closes' = closes + 1
  /\ UNCHANGED <<recorded, inputs, delivered, queue, handlers, pass, ad, world, faults>>

ReopenConversation ==
  /\ conv.closed
  /\ conv' = [conv EXCEPT !.closed = FALSE, !.reopens = @ + 1]
  /\ UNCHANGED <<recorded, inputs, delivered, queue, handlers, pass, ad, world, closes, faults>>

-----------------------------------------------------------------------------
(* Reconcile: one pass over the copy read at its start. *)

\* pruneProcessed comes first, unless the conversation is closed.
Unanswered == inputs.queued \ inputs.answered
Prune == inputs' = [inputs EXCEPT !.queued = Unanswered, !.answered = {}]

\* The pass goes on with what it left.  It looks at bindings and claims on a fresh read only.
Copy == [conv EXCEPT !.bound = {}, !.claims = {}]
PassReads ==
  /\ pass.pc = "idle"
  /\ LET missing == (Channels \ conv.threads) \cup conv.archived IN
       \/ /\ conv.closed /\ UNCHANGED inputs
          /\ pass' = [NoPass EXCEPT !.pc = "archive", !.conv = Copy]
       \/ /\ ~conv.closed /\ Prune
          /\ pass' = [pc |-> IF missing = {} THEN "replies" ELSE "topics",
                      conv |-> Copy, queued |-> Unanswered,
                      runs |-> recorded, delivered |-> delivered, todo |-> missing]
  /\ UNCHANGED <<conv, recorded, delivered, queue, handlers, ad, world, closes, faults>>

\* A pass that needs a worker and may not start one, for its backoff, for the breaker or
\* for want of a slot, ends before it asks for topics and delivers.
PassIsHeld ==
  /\ pass.pc = "idle" /\ ~conv.closed
  /\ Prune
  /\ UNCHANGED <<conv, recorded, delivered, queue, handlers, pass, ad, world, closes, faults>>

\* A claim is taken on a fresh read, and the operation named by the pass's copy.
PassEnsuresTopic(ch) ==
  /\ pass.pc = "topics" /\ ch \in pass.todo
  /\ IF ch \in conv.claims THEN UNCHANGED <<conv, queue>>
     ELSE /\ conv' = [conv EXCEPT !.bound = @ \cup {ch}, !.claims = @ \cup {ch}]
          /\ EnqueueOne(EnsureTopic(ch, pass.conv.reopens))
  /\ pass' = [pass EXCEPT !.todo = @ \ {ch}, !.pc = IF pass.todo = {ch} THEN "replies" ELSE @]
  /\ UNCHANGED <<recorded, inputs, delivered, handlers, ad, world, closes, faults>>

\* Nobody completed the claimed operation within the staleness bound.
ClaimExpires(ch) ==
  /\ ch \in conv.claims
  /\ conv' = [conv EXCEPT !.claims = @ \ {ch}]
  /\ UNCHANGED <<recorded, inputs, delivered, queue, handlers, pass, ad, world, closes, faults>>

\* DeliverInputs, then deliverRunReplies: what a thread is owed is queued, oldest run
\* first, and a note naming a delivered run is cleared.
OwedReplies(ch) ==
  LET marked == {r \in Runs : <<r, ch>> \in pass.delivered} IN
    IF ch \in pass.conv.threads
    THEN Without([r \in 1..pass.runs |-> RunReply(ch, r)], {RunReply(ch, r) : r \in marked}) ELSE <<>>
\* Mutant: the backstop leaves the notes alone.
SettledNever(note) == note
Settled(note) ==
  [ch \in Channels |-> IF <<note[ch], ch>> \in pass.delivered /\ pass.conv.note[ch] = note[ch]
                       THEN 0 ELSE note[ch]]
PassDelivers ==
  /\ pass.pc = "replies"
  /\ Enqueue([ch \in Channels |-> Cards(ch, pass.conv.threads, pass.queued) \o OwedReplies(ch)])
  /\ conv' = [conv EXCEPT !.note = Settled(@)]
  /\ pass' = NoPass
  /\ UNCHANGED <<recorded, inputs, delivered, handlers, ad, world, closes, faults>>

PassArchives ==
  /\ pass.pc = "archive"
  /\ Enqueue([ch \in Channels |->
       IF ch \in pass.conv.threads \ pass.conv.archived THEN <<CloseTopic(ch)>> ELSE <<>>])
  /\ pass' = NoPass
  /\ UNCHANGED <<record, handlers, ad, world, closes, faults>>

-----------------------------------------------------------------------------
(* The adapter of a channel works on one operation at a time. *)

\* The poll is answered, or its response is lost.
HandsOut(ch, id) == \/ ad' = [ad EXCEPT ![ch] = [pc |-> "got", id |-> id]] /\ UNCHANGED faults
                    \/ Fault /\ UNCHANGED ad

\* Claim: first what was handed out and never completed, then the oldest.
Claim(ch) ==
  /\ ad[ch].pc = "idle"
  /\ \E id \in Ids :
       /\ \/ id \in claimed /\ id.ch = ch /\ UNCHANGED queued
          \/ /\ queued[ch] # <<>> /\ id = Head(queued[ch])
             /\ queued' = [queued EXCEPT ![ch] = Tail(@)]
       /\ claimed' = claimed \cup {id}
       /\ HandsOut(ch, id)
  /\ UNCHANGED <<record, recent, handlers, pass, world, closes>>

\* execute: the surface shows the operation's effect, all of its chunks.
Execute(ch, id) ==
  /\ surface' = [surface EXCEPT ![ch] = CASE id.kind = "topic" -> "open"
                                          [] id.kind = "close" -> "archived"
                                          [] OTHER -> @]
  /\ posted' = IF id \in Said THEN [posted EXCEPT ![id] = @ + 1] ELSE posted

\* completedOps, which is bounded and ends with the process: what it no longer
\* holds is acted on again.
Remembers(ch, id) == completed' = [completed EXCEPT ![ch] = @ \cup {id}]

\* A redelivered id is answered as it was before and not acted on again, if the
\* adapter still remembers it.  A transport that refused may have acted all the same.
Act(ch) ==
  /\ ad[ch].pc = "got"
  /\ LET id == ad[ch].id IN
       \/ /\ id \in completed[ch]
          /\ ad' = [ad EXCEPT ![ch].pc = "did"]
          /\ UNCHANGED <<world, faults>>
       \/ /\ Execute(ch, id)
          /\ ad' = [ad EXCEPT ![ch].pc = "did"]
          /\ Remembers(ch, id)
          /\ UNCHANGED faults
       \/ /\ Fault
          /\ Execute(ch, id) \/ UNCHANGED <<surface, posted>>
          /\ ad' = [ad EXCEPT ![ch].pc = "refused"]
          /\ UNCHANGED completed
  /\ UNCHANGED <<record, queue, handlers, pass, closes>>

\* The adapter dies, or cannot reach the manager to complete.
AdapterGivesUp(ch) ==
  /\ ad[ch].pc \in {"got", "did", "refused"} /\ Fault
  /\ ad' = [ad EXCEPT ![ch] = Idle]
  /\ UNCHANGED <<record, queue, handlers, pass, world, closes>>

\* What a success writes to the record: for a card, nothing.  As a mutant of Marks: what was
\* attempted counts as done.
Writes(ch) ==
  CASE ad[ch].id.kind = "reply" -> "deliver"
    [] ad[ch].id.kind = "topic" -> "bind"
    [] ad[ch].id.kind = "card" -> "idle"
    [] OTHER -> "archive"
\* What Complete goes on to do for an operation the queue knew: what failed it takes out of
\* the window.
Marks(ch) == IF ad[ch].pc = "refused" THEN "release" ELSE Writes(ch)

\* The window takes what was completed, at first whatever became of it.
Complete(ch) ==
  /\ ad[ch].pc \in {"did", "refused"}
  /\ LET id == ad[ch].id
         known == id \in Outstanding
     IN /\ claimed' = claimed \ {id}
        /\ queued' = [queued EXCEPT ![ch] = Without(@, {id})]
        /\ recent' = IF known THEN recent \cup {id} ELSE recent
        /\ ad' = [ad EXCEPT ![ch] = IF known /\ Marks(ch) # "idle" THEN [@ EXCEPT !.pc = Marks(ch)] ELSE Idle]
  /\ UNCHANGED <<record, handlers, pass, world, closes, faults>>

-----------------------------------------------------------------------------
(* The rest of Complete, one store access at a time. *)

NextMark(ch, pc) == ad' = [ad EXCEPT ![ch] = IF pc = "idle" THEN Idle ELSE [@ EXCEPT !.pc = pc]]

\* Mutant: what failed stays in the window.
KeepsRefused(ch) == recent
Releases(ch) == recent \ {ad[ch].id}
ReleaseRefused(ch) ==
  /\ ad[ch].pc = "release"
  /\ recent' = Releases(ch)
  /\ NextMark(ch, CASE ad[ch].id.kind = "reply" -> "undelivered"
                    [] ad[ch].id.kind = "topic" -> "unclaim"
                    [] OTHER -> "idle")
  /\ UNCHANGED <<record, queued, claimed, handlers, pass, world, closes, faults>>

MarkDelivered(ch) ==
  /\ ad[ch].pc = "deliver"
  /\ LET mark == <<ad[ch].id.n, ch>> IN
       /\ delivered' = delivered \cup {mark}
       /\ NextMark(ch, IF mark \in delivered THEN "idle" ELSE "settle")
  /\ UNCHANGED <<conv, recorded, inputs, queue, handlers, pass, world, closes, faults>>

ClearUndeliveredNote(ch) ==
  /\ ad[ch].pc = "settle"
  /\ conv' = IF conv.note[ch] = ad[ch].id.n THEN [conv EXCEPT !.note[ch] = 0] ELSE conv
  /\ NextMark(ch, "idle")
  /\ UNCHANGED <<recorded, inputs, delivered, queue, handlers, pass, world, closes, faults>>

MarkUndelivered(ch) ==
  /\ ad[ch].pc = "undelivered"
  /\ conv' = [conv EXCEPT !.note[ch] = ad[ch].id.n]
  /\ NextMark(ch, "idle")
  /\ UNCHANGED <<recorded, inputs, delivered, queue, handlers, pass, world, closes, faults>>

FinishEnsureTopic(ch) ==
  /\ \/ /\ ad[ch].pc = "bind"
        /\ conv' = [conv EXCEPT !.bound = @ \cup {ch}, !.threads = @ \cup {ch},
                                !.claims = @ \ {ch}, !.archived = @ \ {ch}]
     \/ /\ ad[ch].pc = "unclaim"
        /\ conv' = [conv EXCEPT !.claims = @ \ {ch}]
  /\ NextMark(ch, "idle")
  /\ UNCHANGED <<recorded, inputs, delivered, queue, handlers, pass, world, closes, faults>>

MarkThreadArchived(ch) ==
  /\ ad[ch].pc = "archive"
  /\ conv' = [conv EXCEPT !.archived = @ \cup {ch}]
  /\ NextMark(ch, "idle")
  /\ UNCHANGED <<recorded, inputs, delivered, queue, handlers, pass, world, closes, faults>>

Writing == {"deliver", "settle", "undelivered", "bind", "unclaim", "archive"}
Completing == Writing \cup {"release"}

\* The write failed: the operation may be derived again.
MarkFails(ch) ==
  /\ ad[ch].pc \in Writing /\ Fault
  /\ recent' = recent \ {ad[ch].id}
  /\ NextMark(ch, "idle")
  /\ UNCHANGED <<record, queued, claimed, handlers, pass, world, closes>>

\* The queue, the handlers and the pass are gone; adapters go on.
ManagerRestarts ==
  /\ Fault
  /\ queued' = [ch \in Channels |-> <<>>] /\ claimed' = {} /\ recent' = {}
  /\ router' = FALSE /\ fast' = [run |-> 0, threads |-> {}]
  /\ pass' = NoPass
  /\ ad' = [ch \in Channels |-> IF ad[ch].pc \in Completing THEN Idle ELSE ad[ch]]
  /\ UNCHANGED <<record, world, closes>>

-----------------------------------------------------------------------------

Reconcile == PassReads \/ PassDelivers \/ PassArchives \/ \E ch \in Channels : PassEnsuresTopic(ch)
Marking(ch) == \/ ReleaseRefused(ch) \/ MarkDelivered(ch) \/ ClearUndeliveredNote(ch) \/ MarkUndelivered(ch)
               \/ FinishEnsureTopic(ch) \/ MarkThreadArchived(ch)
Adapter(ch) == Claim(ch) \/ Act(ch) \/ Complete(ch) \/ Marking(ch)

Next == \/ InputArrives \/ RouterDelivers \/ RunRecorded \/ FanOutRunReply \/ CloseConversation \/ ReopenConversation
        \/ Reconcile \/ PassIsHeld \/ RecentForgets \/ ManagerRestarts
        \/ \E ch \in Channels : Adapter(ch) \/ ClaimExpires(ch) \/ AdapterGivesUp(ch) \/ MarkFails(ch)

Spec == Init /\ [][Next]_vars

\* The work queue keeps reconciling and does not find the conversation held for ever, claims
\* grow old, adapters poll and work.
Fairness == /\ WF_vars(Reconcile)
            /\ \A ch \in Channels : WF_vars(Adapter(ch)) /\ WF_vars(ClaimExpires(ch))
FairSpec == Spec /\ Fairness

-----------------------------------------------------------------------------
(* Properties. *)

\* Every variable stays inside its shape.
TypeOK ==
  /\ conv \in Record /\ recorded \in 0..MaxRuns
  /\ inputs \in [arrived: 0..MaxInputs, queued: SUBSET Inputs, answered: SUBSET Inputs]
  /\ delivered \subseteq Runs \X Channels
  /\ queued \in [Channels -> Seq(Ids)] /\ claimed \subseteq Ids /\ recent \subseteq Ids
  /\ router \in BOOLEAN /\ fast \in [run: 0..MaxRuns, threads: SUBSET Channels]
  /\ pass \in [pc: {"idle", "topics", "replies", "archive"}, conv: Record,
               queued: SUBSET Inputs, runs: 0..MaxRuns,
               delivered: SUBSET (Runs \X Channels), todo: SUBSET Channels]
  /\ ad \in [Channels -> [pc: {"idle", "got", "did", "refused"} \cup Completing, id: Ids]]
  /\ completed \in [Channels -> SUBSET Ids]
  /\ surface \in [Channels -> {"none", "open", "archived"}]
  /\ posted \in [Said -> Nat]
  /\ closes \in 0..MaxCloses /\ faults \in 0..MaxFaults

\* A reply is marked delivered only when people can see it, however its attempts,
\* their completions and the restarts interleave (markDelivered).
DeliveredIsPosted == \A r \in Runs, ch \in Channels : <<r, ch>> \in delivered => posted[RunReply(ch, r)] > 0

\* The two paths of a reply, or of a card, never post it twice on their own: every
\* repetition costs a fault (enqueue's two dedup maps, Claim, Complete).
RepeatsNeedFaults == \A id \in Said : posted[id] <= 1 + faults

\* The completed window goes on suppressing nothing that is still owed: a reply in it is
\* marked delivered, or its completion is about to mark it or to take it out (Complete).
SuppressedIsDelivered ==
  \A r \in Runs, ch \in Channels :
    RunReply(ch, r) \in recent =>
      <<r, ch>> \in delivered \/ (ad[ch].pc \in {"deliver", "release"} /\ ad[ch].id = RunReply(ch, r))

\* Neither mark claims what was not done.
MarksAreTrue == DeliveredIsPosted /\ SuppressedIsDelivered

\* Every recorded run's reply reaches every bound channel, also one whose topic
\* came late, unless the conversation is closed (deliverRunReplies).
EveryReplyArrives ==
  \A r \in Runs, ch \in Channels : []<>(recorded < r \/ posted[RunReply(ch, r)] > 0 \/ conv.closed)

\* An agent that stays silent still leaves its threads with what it was asked
\* (DeliverInputs, by every pass).
EveryCardArrives ==
  \A i \in Inputs, ch \in Channels :
    []<>(i \notin (inputs.queued \ inputs.answered) \/ posted[InputCard(ch, i)] > 0 \/ conv.closed)

\* Both.
WhatIsOwedArrives == EveryReplyArrives /\ EveryCardArrives

\* A note does not go on naming a reply that has arrived (SettleDeliveredNote).
NoteSettles ==
  \A r \in Runs, ch \in Channels :
    []<>(~(conv.note[ch] = r /\ <<r, ch>> \in delivered) \/ conv.closed)

\* No card is lost because its channel had no thread yet.  TLC refutes it: an input may
\* be answered and pruned before the thread is bound.
NoCardIsLost ==
  \A i \in Inputs, ch \in Channels :
    []<>(inputs.arrived < i \/ posted[InputCard(ch, i)] > 0 \/ conv.closed)

\* A card is posted at most once.  TLC refutes it: the answer of an adapter is lost, or a
\* restart takes the completed window with it while the input is queued still.
CardsAreSaidOnce == \A i \in Inputs, ch \in Channels : posted[InputCard(ch, i)] <= 1

\* Of a conversation that stays closed every bound thread ends up archived
\* (reconcileClosed, EnqueueCloseTopic).
ClosedThreadsArchived ==
  <>[]conv.closed => <>[](\A ch \in conv.threads : surface[ch] = "archived")

=============================================================================
