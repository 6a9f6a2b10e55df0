------------------------------- MODULE Signals -------------------------------
(***************************************************************************)
(* How a stored message becomes an input of a conversation.  Publication   *)
(* stores one Signal per message and routes nothing.  A pass over a signal *)
(* decides who gets it (the source's claimants, its cooldown, the backlog),*)
(* records that decision, and only then routes it: to the open             *)
(* conversation of the same id and claimant, or to a new one.              *)
(*                                                                         *)
(* Passes over different signals interleave at every access whose order    *)
(* matters, a pass works on the copy it read, and the leader may be         *)
(* replaced between any two accesses.  Gets and writes go to the store;     *)
(* lists are answered by the informer cache.  That every stored signal gets*)
(* its passes is SignalStore's: here each unfinished one may be taken up at *)
(* any time.                                                               *)
(***************************************************************************)
EXTENDS Naturals, Sequences, FiniteSets, FiniteSetsExt

CONSTANTS
  Messages,     \* numbers: what is published; ties of arrival are broken by them
  InitiationOf, \* each message's initiationId
  Sources,      \* the signal sources they are published on
  Claimants,    \* pipelines and coordinators
  Convs,        \* conversation records that can be made
  MaxPerSource, \* the cap on one source's unfinished signals
  Crowd,        \* bound: younger signals of other ids that count against it
  MaxWindows,   \* bound: cooldown windows that end
  MaxFaults     \* bound: crashes, failed and unanswered calls, closes, vanished
                \* claimants, forgotten runs, windows that overflow or that
                \* other ids use, and times the informer cache falls behind

ASSUME SignalBounds ==
  /\ Messages \subseteq Nat /\ IsFiniteSet(Messages) /\ Convs \subseteq Nat \ {0} /\ Sources # {}
  /\ {MaxPerSource, Crowd, MaxWindows, MaxFaults} \subseteq Nat

VARIABLES
  sig,       \* the Signal records
  pass,      \* the pass over each signal, and the copy it works on
  book,      \* CooldownBook: each source's window in memory, or that it is off
  window,    \* SignalSource.status.cooldown
  conv,      \* the conversations
  gone,      \* claimants that have been deleted
  cache,     \* what lists are answered from while the informer cache is behind
  windows, faults,
  past       \* what happened, for the properties

cooldown == <<book, window>>
world == <<gone, cache, windows>>
vars == <<sig, pass, cooldown, conv, world, faults, past>>

Ids == {InitiationOf[m] : m \in Messages}

\* A signal dropped for its cooldown is told apart from other drops.
Terminal == {"routed", "failed", "dropped", "suppressed"}

\* A machine's signal, a person's message, and one that names its pipeline.
Kinds == {"machine", "chat", "addressed"}
Unbuilt == [built |-> FALSE, off |-> FALSE, seen |-> {}]

\* No claimant yet, or what became of each of the snapshot.
Unclaimed == [c \in Claimants |-> "none"]
Absent == [at |-> 0, src |-> CHOOSE s \in Sources : TRUE, kind |-> "machine",
           phase |-> "absent", tried |-> FALSE, claim |-> Unclaimed]
NoConv == [made |-> FALSE, open |-> FALSE, by |-> CHOOSE c \in Claimants : TRUE, id |-> CHOOSE i \in Ids : TRUE,
           from |-> CHOOSE s \in Sources : TRUE, queue |-> <<>>, ran |-> <<>>, known |-> {}]
NoPass == [pc |-> "idle", rec |-> Absent, todo |-> {}, spent |-> FALSE, to |-> 0]

Stored == {m \in Messages : sig[m].phase # "absent"}
Live == {m \in Stored : sig[m].phase \notin Terminal}
Open == {v \in Convs : conv[v].open}
View == [behind |-> TRUE, live |-> Live, open |-> Open]
Current == [behind |-> FALSE, live |-> {}, open |-> {}]
Listed == IF cache.behind THEN cache ELSE View

\* state.SignalRollupPhase
Rollup(claim) ==
  LET some(s) == \E c \in Claimants : claim[c] = s IN
    IF claim = Unclaimed THEN "pending"
    ELSE IF some("routing") THEN IF some("routed") THEN "partial" ELSE "pending"
    ELSE IF some("routed") THEN "routed" ELSE "failed"

\* state.SignalArrivesBefore: the second it was stored in, then the name.
Before(m, n) == sig[m].at < sig[n].at \/ (sig[m].at = sig[n].at /\ m < n)
SameKey(m, n) == InitiationOf[m] = InitiationOf[n] /\ sig[m].src = sig[n].src
Elems(s) == {s[k] : k \in DOMAIN s}

Init ==
  /\ sig = [m \in Messages |-> Absent]
  /\ pass = [m \in Messages |-> NoPass]
  /\ book = [s \in Sources |-> Unbuilt]
  /\ window = [s \in Sources |-> {}]
  /\ conv = [v \in Convs |-> NoConv]
  /\ gone = {} /\ cache = Current
  /\ windows = 0 /\ faults = 0
  /\ past = [misled |-> FALSE, forgotten |-> {}, missing |-> [s \in Sources |-> {}], stray |-> [s \in Sources |-> {}],
             admitted |-> [s \in Sources |-> [i \in Ids |-> {}]]]

Fault == faults < MaxFaults /\ faults' = faults + 1

\* publishOne: a person's message or a machine's, in the second of the last one
\* or a later one.
Seconds == LET latest == Max({0} \cup {sig[n].at : n \in Messages}) IN {latest, latest + 1} \ {0}
Publish(m) ==
  /\ m \notin Stored
  /\ \E at \in Seconds, src \in Sources, kind \in Kinds :
       sig' = [sig EXCEPT ![m] = [Absent EXCEPT !.at = at, !.src = src, !.kind = kind, !.phase = "pending"]]
  /\ UNCHANGED <<pass, cooldown, conv, world, faults, past>>

CacheFallsBehind ==
  /\ ~cache.behind /\ Fault
  /\ cache' = View
  /\ UNCHANGED <<sig, pass, cooldown, conv, gone, windows, past>>

CacheSyncs ==
  /\ cache.behind
  /\ cache' = Current
  /\ UNCHANGED <<sig, pass, cooldown, conv, gone, windows, faults, past>>

-----------------------------------------------------------------------------
(* Reconcile: one pass over one signal. *)

EndPass(m) == pass' = [pass EXCEPT ![m] = NoPass]
Write(m, rec) == sig' = [sig EXCEPT ![m] = rec]

\* exhaust and evict: over before anyone was chosen, or over for all who wait.
\* Mutant: whoever waits is left waiting.
EndedWaiting(rec) == IF rec.claim = Unclaimed THEN [rec EXCEPT !.phase = "dropped"] ELSE rec
Ended(rec) ==
  IF rec.claim = Unclaimed THEN [rec EXCEPT !.phase = "dropped"]
  ELSE LET claim == [c \in Claimants |-> IF rec.claim[c] = "routing" THEN "failed" ELSE rec.claim[c]] IN
         [rec EXCEPT !.claim = claim, !.phase = Rollup(claim)]

\* enforceSourceCap: the oldest over the cap end, each in its own pass.
SourceLive(m) == {n \in Listed.live : sig[n].src = sig[m].src} \cup {m}
Evicted(m, younger) ==
  Cardinality({k \in SourceLive(m) : Before(k, m)}) + MaxPerSource < Cardinality(SourceLive(m)) + younger

\* A pass that finds its signal over the cap, or past the deadline that its first
\* attempt set, ends it; when that write fails the signal is as it was.
PassEnds(m) ==
  /\ m \in Live /\ pass[m].pc = "idle"
  /\ sig[m].tried \/ \E younger \in 0..Crowd : Evicted(m, younger)
  /\ Write(m, Ended(sig[m]))
  /\ UNCHANGED <<pass, cooldown, conv, world, faults, past>>

\* isHead, asked while the key is held.
\* Mutant: whoever comes takes the turn.
AnyIsHead(m) == TRUE
IsHead(m) == \A n \in Listed.live \ {m} : SameKey(m, n) => ~Before(n, m)

\* acquire: a pass holds its key until it ends.
Held(m) == \E n \in Messages \ {m} : SameKey(m, n) /\ pass[n].pc # "idle"

PassReads(m) ==
  /\ m \in Live /\ pass[m].pc = "idle"
  /\ \E younger \in 0..Crowd : ~Evicted(m, younger)
  /\ ~Held(m) /\ IsHead(m)
  /\ pass' = [pass EXCEPT ![m] = [NoPass EXCEPT
                !.pc = IF sig[m].claim = Unclaimed THEN "admit" ELSE "route",
                !.rec = [sig[m] EXCEPT !.tried = TRUE],
                !.todo = {c \in Claimants : sig[m].claim[c] = "routing"}]]
  /\ past' = [past EXCEPT !.misled = @ \/ \E n \in Live \ Listed.live : SameKey(m, n) /\ Before(n, m)]
  /\ UNCHANGED <<sig, cooldown, conv, world, faults>>

-----------------------------------------------------------------------------
(* Admit. *)

Drop(m, phase) == pass' = [pass EXCEPT ![m].pc = "snap", ![m].rec.phase = phase]
Claim(m, ready, spent) ==
  pass' = [pass EXCEPT ![m].pc = "snap", ![m].spent = spent,
             ![m].rec.claim = [c \in Claimants |-> IF c \in ready THEN "routing" ELSE "none"]]

\* For: a source's window is read from the store on its first use in this process,
\* or it is off, for every later use in this process.
\* Mutant: it starts empty.
EmptyBook(s, off) == IF book[s].built THEN book[s] ELSE [Unbuilt EXCEPT !.built = TRUE, !.off = off]
Book(s, off) == IF book[s].built THEN book[s]
                ELSE [built |-> TRUE, off |-> off, seen |-> IF off THEN {} ELSE window[s]]

\* recordCooldown, best effort: these ids, the newest of them, or as it was.  In
\* the history, the ids that are missing from the record and those still in it.
Record(s, ids, was) ==
  \E now \in (SUBSET ids) \cup {window[s]} :
    /\ window' = [window EXCEPT ![s] = now]
    /\ past' = [was EXCEPT !.missing[s] = @ \cup (ids \ now), !.stray[s] = @ \cup (now \ ids)]
Toll(s) == IF window'[s] = book'[s].seen THEN UNCHANGED faults ELSE Fault

\* spendCooldown and its rollback, each under the source's lock.
Spend(s, i, b) ==
  /\ book' = [book EXCEPT ![s] = [b EXCEPT !.seen = @ \cup {i}]]
  /\ Record(s, b.seen \cup {i}, past) /\ Toll(s)
Unspend(s, i, was) ==
  /\ book' = [book EXCEPT ![s].seen = @ \ {i}]
  /\ Record(s, book[s].seen \ {i}, was)

\* A message that names its pipeline asks no cooldown; any other does, and a
\* person's may find that its source keeps none.  A person's goes to one claimant.
Consults(m, ready) ==
  LET s == sig[m].src  i == InitiationOf[m] IN
    \E off \in IF sig[m].kind = "chat" THEN BOOLEAN ELSE {FALSE} : LET b == Book(s, off) IN
      \/ /\ b.off
         /\ Claim(m, ready, FALSE)
         /\ book' = [book EXCEPT ![s] = b] /\ UNCHANGED <<window, faults, past>>
      \/ /\ ~b.off /\ i \in b.seen
         /\ Drop(m, "suppressed")
         /\ book' = [book EXCEPT ![s] = b] /\ UNCHANGED <<window, faults, past>>
      \/ /\ ~b.off /\ i \notin b.seen
         /\ Spend(s, i, b) /\ Claim(m, ready, TRUE)

Admit(m) ==
  /\ pass[m].pc = "admit"
  /\ \E ready \in SUBSET (Claimants \ gone) :
       \/ /\ ready = {} \/ sig[m].kind # "machine"
          /\ Drop(m, "dropped") /\ UNCHANGED <<cooldown, faults, past>>
       \/ /\ sig[m].kind = "addressed" /\ Cardinality(ready) = 1
          /\ Claim(m, ready, FALSE) /\ UNCHANGED <<cooldown, faults, past>>
       \/ /\ sig[m].kind # "addressed" /\ ready # {} /\ (sig[m].kind = "chat" => Cardinality(ready) = 1)
          /\ Consults(m, ready)
  /\ UNCHANGED <<sig, conv, world>>

\* A read that fails ends the pass; the attempt is recorded all the same, if the
\* store takes it, so that the deadline is reached.
AdmitFails(m) ==
  /\ pass[m].pc = "admit" /\ Fault
  /\ Write(m, pass[m].rec) \/ UNCHANGED sig
  /\ EndPass(m)
  /\ UNCHANGED <<cooldown, conv, world, past>>

\* What was spent is given back when the decision is not recorded.
\* Mutant: nothing is given back.
RollbackNothing(m, was) == UNCHANGED cooldown /\ past' = was
Rollback(m, was) ==
  IF pass[m].spent THEN Unspend(sig[m].src, InitiationOf[m], was) ELSE UNCHANGED cooldown /\ past' = was

\* A person is turned away when the backlog is full, which is asked before the
\* decision is recorded; a machine's signal waits.
Asks(m) == pass[m].pc = "snap" /\ sig[m].kind # "machine" /\ pass[m].rec.phase \notin Terminal
Unchosen(m) == [pass[m].rec EXCEPT !.claim = Unclaimed]
BacklogFull(m) ==
  /\ Asks(m)
  /\ Rollback(m, past) /\ IF pass[m].spent THEN Toll(sig[m].src) ELSE UNCHANGED faults
  /\ pass' = [pass EXCEPT ![m].spent = FALSE, ![m].rec = [Unchosen(m) EXCEPT !.phase = "dropped"]]
  /\ UNCHANGED <<sig, conv, world>>
BacklogFails(m) ==
  /\ Asks(m) /\ Fault
  /\ Rollback(m, past) /\ EndPass(m)
  /\ Write(m, Unchosen(m)) \/ UNCHANGED sig
  /\ UNCHANGED <<conv, world>>

\* The decision is recorded before anything is made of it.  The write may fail, or
\* be taken to have failed.
Admitted(m) == IF pass[m].spent THEN [past EXCEPT !.admitted[sig[m].src][InitiationOf[m]] = @ \cup {m}] ELSE past
Mistaken(m) == IF pass[m].spent THEN [Admitted(m) EXCEPT !.missing[sig[m].src] = @ \cup {InitiationOf[m]}] ELSE past

Snapshot(m) ==
  /\ pass[m].pc = "snap"
  /\ \/ /\ Write(m, pass[m].rec)
        /\ past' = Admitted(m)
        /\ IF pass[m].rec.phase \in Terminal THEN EndPass(m)
           ELSE pass' = [pass EXCEPT ![m].pc = "route", ![m].spent = FALSE,
                           ![m].todo = {c \in Claimants : pass[m].rec.claim[c] = "routing"}]
        /\ UNCHANGED <<cooldown, faults>>
     \/ /\ Fault /\ EndPass(m)
        /\ \/ Rollback(m, past) /\ UNCHANGED sig
           \/ Rollback(m, Mistaken(m)) /\ Write(m, pass[m].rec)
  /\ UNCHANGED <<conv, world>>

-----------------------------------------------------------------------------
(* Route: every claimant still routing. *)

\* findReusableConversation
Reusable(m, c) == {v \in Listed.open : conv[v].by = c /\ conv[v].id = InitiationOf[m]}
Goes(m, c, v) == pass' = [pass EXCEPT ![m].pc = "append", ![m].to = v, ![m].todo = @ \ {c}]

SkipGone(m, c) ==
  /\ pass[m].pc = "route" /\ c \in pass[m].todo \cap gone
  /\ pass' = [pass EXCEPT ![m].todo = @ \ {c}, ![m].rec.claim[c] = "skipped"]
  /\ UNCHANGED <<sig, cooldown, conv, world, faults, past>>

RouteReuses(m, c) ==
  /\ pass[m].pc = "route" /\ c \in pass[m].todo \ gone
  /\ \E v \in Reusable(m, c) : Goes(m, c, v)
  /\ UNCHANGED <<sig, cooldown, conv, world, faults, past>>

\* The backlog is full: this claimant waits.
RouteWaits(m, c) ==
  /\ pass[m].pc = "route" /\ c \in pass[m].todo \ gone /\ Reusable(m, c) = {}
  /\ pass' = [pass EXCEPT ![m].todo = @ \ {c}]
  /\ UNCHANGED <<sig, cooldown, conv, world, faults, past>>

RouteCreates(m, c) ==
  /\ pass[m].pc = "route" /\ c \in pass[m].todo \ gone /\ Reusable(m, c) = {}
  /\ \E v \in Convs :
       /\ ~conv[v].made /\ \A w \in Convs : w < v => conv[w].made
       /\ conv' = [conv EXCEPT ![v] = [NoConv EXCEPT !.made = TRUE, !.open = TRUE, !.by = c,
                                         !.id = InitiationOf[m], !.from = sig[m].src]]
       /\ Goes(m, c, v)
  /\ past' = [past EXCEPT !.misled = @ \/ \E v \in Open \ Listed.open : conv[v].by = c /\ conv[v].id = InitiationOf[m]
                                                     /\ conv[v].from = sig[m].src]
  /\ UNCHANGED <<sig, cooldown, world, faults>>

\* inputDelivered: queued on the conversation, or cited by a run that is kept.
\* Mutant: only the queue is looked at.
DeliveredInQueue(m, v) == m \in Elems(conv[v].queue)
Delivered(m, v) == m \in Elems(conv[v].queue) \cup conv[v].known
Appended(m, v) == IF Delivered(m, v) THEN conv ELSE [conv EXCEPT ![v].queue = Append(@, m)]

AppendInput(m) ==
  /\ pass[m].pc = "append"
  /\ conv' = Appended(m, pass[m].to)
  /\ pass' = [pass EXCEPT ![m].pc = "route", ![m].to = 0, ![m].rec.claim[conv[pass[m].to].by] = "routed"]
  /\ UNCHANGED <<sig, cooldown, world, faults, past>>

\* A call fails, or its answer is lost: what the pass got to is recorded.
RouteFails(m) ==
  /\ pass[m].pc \in {"route", "append"} /\ Fault
  /\ pass' = [pass EXCEPT ![m].pc = "route", ![m].to = 0, ![m].todo = {}]
  /\ \/ UNCHANGED conv
     \/ pass[m].pc = "append" /\ conv' = Appended(m, pass[m].to)
  /\ UNCHANGED <<sig, cooldown, world, past>>

PassSaves(m) ==
  /\ pass[m].pc = "route" /\ pass[m].todo = {}
  /\ LET rec == [pass[m].rec EXCEPT !.phase = Rollup(pass[m].rec.claim)] IN
       \/ Write(m, rec) /\ UNCHANGED faults
       \/ Fault /\ UNCHANGED sig
  /\ EndPass(m)
  /\ UNCHANGED <<cooldown, conv, world, past>>

-----------------------------------------------------------------------------
(* Everyone else. *)

\* The head of a conversation's queue is answered by a run that cites it.
ConversationRuns(v) ==
  /\ conv[v].queue # <<>>
  /\ conv' = [conv EXCEPT ![v].queue = Tail(@), ![v].ran = Append(@, Head(conv[v].queue)),
                            ![v].known = @ \cup {Head(conv[v].queue)}]
  /\ UNCHANGED <<sig, pass, cooldown, world, faults, past>>

\* A conversation keeps its last runs: a message of an older one is not known.
RunForgotten(v, m) ==
  /\ m \in conv[v].known /\ Fault
  /\ conv' = [conv EXCEPT ![v].known = @ \ {m}]
  /\ past' = IF m \in Live THEN [past EXCEPT !.forgotten = @ \cup {m}] ELSE past
  /\ UNCHANGED <<sig, pass, cooldown, world>>

ConversationCloses(v) ==
  /\ conv[v].open /\ Fault
  /\ conv' = [conv EXCEPT ![v].open = FALSE]
  /\ UNCHANGED <<sig, pass, cooldown, world, past>>

ClaimantGoes(c) ==
  /\ c \notin gone /\ Fault
  /\ gone' = gone \cup {c}
  /\ UNCHANGED <<sig, pass, cooldown, conv, cache, windows, past>>

\* Signals of other ids use the source's window, and record all of it.
OthersSpend(s) ==
  /\ Fault
  /\ \E off \in BOOLEAN : LET b == Book(s, off) IN
       /\ book' = [book EXCEPT ![s] = b]
       /\ IF b.off THEN UNCHANGED <<window, past>> ELSE Record(s, b.seen, past)
  /\ UNCHANGED <<sig, pass, conv, world>>

\* Time passes: an id's cooldown is over.
\* A window is hours and a pass is not: none ends under a pass that spent its id.
WindowEnds(s, i) ==
  /\ windows < MaxWindows /\ i \in book[s].seen \cup window[s]
  /\ \A m \in Messages : sig[m].src = s /\ InitiationOf[m] = i => ~pass[m].spent
  /\ windows' = windows + 1
  /\ book' = [book EXCEPT ![s].seen = @ \ {i}]
  /\ window' = [window EXCEPT ![s] = @ \ {i}]
  /\ past' = [past EXCEPT !.admitted[s][i] = {}, !.missing[s] = @ \ {i}, !.stray[s] = @ \ {i}]
  /\ UNCHANGED <<sig, pass, conv, gone, cache, faults>>

\* Another process leads: passes and book are gone, and an id spent by a pass
\* that had not recorded its signal's claimants belongs to no one.
LeaderChanges ==
  /\ Fault
  /\ pass' = [m \in Messages |-> NoPass]
  /\ book' = [s \in Sources |-> Unbuilt]
  /\ past' = [past EXCEPT !.stray = [s \in Sources |->
                @[s] \cup {InitiationOf[m] : m \in {n \in Messages : pass[n].spent /\ sig[n].src = s}}]]
  /\ UNCHANGED <<sig, window, conv, world>>

Route(m) == \E c \in Claimants : SkipGone(m, c) \/ RouteReuses(m, c) \/ RouteWaits(m, c) \/ RouteCreates(m, c)

Next ==
  \/ \E m \in Messages :
       \/ Publish(m) \/ PassEnds(m) \/ PassReads(m)
       \/ Admit(m) \/ AdmitFails(m) \/ Snapshot(m)
       \/ BacklogFull(m) \/ BacklogFails(m)
       \/ Route(m) \/ AppendInput(m) \/ RouteFails(m) \/ PassSaves(m)
  \/ CacheFallsBehind \/ CacheSyncs \/ LeaderChanges
  \/ \E v \in Convs : ConversationRuns(v) \/ ConversationCloses(v) \/ \E m \in Messages : RunForgotten(v, m)
  \/ \E c \in Claimants : ClaimantGoes(c)
  \/ \E s \in Sources : OthersSpend(s) \/ \E i \in Ids : WindowEnds(s, i)

Spec == Init /\ [][Next]_vars

\* The work queue goes on, a pass that was started is finished, the cache catches
\* up; and a deadline passes once, so that some later pass finds it passed.
PassGoesOn(m) ==
  \/ PassReads(m) \/ Admit(m) \/ BacklogFull(m) \/ Snapshot(m)
  \/ Route(m) \/ AppendInput(m) \/ PassSaves(m)
FairSpec ==
  /\ Spec /\ WF_vars(CacheSyncs)
  /\ \A m \in Messages : WF_vars(PassGoesOn(m)) /\ SF_vars(PassEnds(m))

-----------------------------------------------------------------------------
(* Properties. *)

\* Every variable stays inside its shape.
TypeOK ==
  /\ \A m \in Messages :
       /\ sig[m].phase \in Terminal \cup {"absent", "pending", "partial"} /\ sig[m].src \in Sources
       /\ pass[m].pc \in {"idle", "admit", "snap", "route", "append"}
       /\ pass[m].to \in Convs \cup {0} /\ pass[m].todo \subseteq Claimants
       /\ pass[m].pc = "append" <=> pass[m].to # 0
       /\ pass[m].pc # "idle" => m \in Live
  /\ \A s \in Sources : window[s] \cup book[s].seen \subseteq Ids

Said(v) == conv[v].ran \o conv[v].queue

\* A message is an input of a conversation once, however often its pass is
\* repeated after a crash or an unanswered write, and whatever the conversation
\* has made of its queue by then (the input name derived in conversation.go),
\* unless the run that cites it was forgotten while its signal was unfinished.
AppendedOnce ==
  \A v \in Convs : \A j, k \in DOMAIN Said(v) :
    Said(v)[j] = Said(v)[k] /\ Said(v)[j] \notin past.forgotten => j = k

\* While no list was answered from a cache that had fallen behind, one source's
\* signals of one id never hold two open conversations of one claimant, though
\* the create and the status write that names it are apart.
OneOpenConversation ==
  past.misled \/ \A v, w \in Open :
    conv[v].by = conv[w].by /\ conv[v].id = conv[w].id /\ conv[v].from = conv[w].from => v = w

\* Both: one conversation for a thing, one input for a message.
RoutedOnce == AppendedOnce /\ OneOpenConversation

\* And the messages of one conversation and source are appended in the order of
\* the seconds they arrived in, though passes run beside each other and fail.
ArrivalOrder ==
  past.misled \/ \A v \in Convs : \A j, k \in DOMAIN Said(v) :
    j < k /\ sig[Said(v)[j]].src = sig[Said(v)[k]].src => sig[Said(v)[j]].at <= sig[Said(v)[k]].at

\* Two signals do not spend one id in one cooldown window, across restarts, failed
\* writes and a source kept off for a while, as long as no write of the window left
\* the id out and no snapshot that landed was taken for one that had not.
CooldownHolds ==
  \A s \in Sources, i \in Ids : i \in past.missing[s] \/ Cardinality(past.admitted[s][i]) <= 1

\* A signal is suppressed only when another of its id was admitted: never by what
\* its own earlier pass spent, unless the process died before that was recorded or
\* given back, or giving it back was not recorded.
SuppressedByAnother ==
  [][\A m \in Messages :
       pass[m].pc = "admit" /\ pass'[m].rec.phase = "suppressed" =>
         LET s == sig[m].src  i == InitiationOf[m] IN
           past.admitted[s][i] \ {m} # {} \/ i \in past.stray[s]]_vars

\* A stored signal is decided in the end: routed, dropped or failed, through
\* restarts, failed writes and a backlog that never clears.
EverySignalSettles == \A m \in Messages : []<>(m \notin Live)

=============================================================================
