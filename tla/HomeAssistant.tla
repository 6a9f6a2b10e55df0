---------------------------- MODULE HomeAssistant ----------------------------
(***************************************************************************)
(* One SignalSource of the Home Assistant adapter: how the records of its   *)
(* log become signals.  A record reaches the adapter twice: in an event, on *)
(* the session's reader, and in the listing a sweep reads, on the poller.   *)
(* Both run it through consider.  The listing keeps one record for a key,   *)
(* with the time of its latest occurrence; the cursor is how far the log has*)
(* been read, kept by the manager over a restart; seen is what tells one    *)
(* occurrence from the next.                                               *)
(*                                                                         *)
(* A record a rule defers waits in the dwell queue, with the others of its  *)
(* integration, until the flusher judges them together; after a report the  *)
(* integration is quiet for a while.                                        *)
(*                                                                         *)
(* Instants are half seconds: what is saved of the cursor is the second.    *)
(* How long a window is is not counted: it ends at some time.               *)
(***************************************************************************)
EXTENDS Naturals, Sequences, FiniteSets, SequencesExt

CONSTANTS
  Keys,       \* record keys
  Deferred,   \* those a rule with a dwell window matches; one integration's
  MaxTime,    \* bound: instants
  MaxFaults   \* bound: lost sessions, restarts, posts that fail

ASSUME HomeAssistantBounds == Deferred \subseteq Keys /\ {MaxTime, MaxFaults} \subseteq Nat

VARIABLES
  log,      \* Home Assistant's listing: when each record last occurred
  now,
  session,  \* down, subscribed, live
  wire,     \* events on their way
  src,      \* the source: its cursor, and what has been seen
  saved,    \* the cursor as the manager has it
  th,       \* the two paths: event and sweep
  dwell,    \* the queue: the latest occurrence of each place that waits, and
            \* whether the integration is quiet
  flush,    \* the flusher, and what it has taken out of the queue
  faults,
  past      \* what happened, for the properties

queue == <<dwell, flush>>
vars == <<log, now, session, wire, src, saved, th, queue, faults, past>>

Paths == {"event", "sweep"}
Never == 0
Start == 2
NoRecord == [key |-> CHOOSE k \in Keys : TRUE, at |-> Never]
AtRest == [pc |-> "idle", rec |-> NoRecord, listed |-> {}, todo |-> <<>>, cursor |-> Never]

NoEntry == [k \in Deferred |-> Never]
Resting == [pc |-> "idle", at |-> NoEntry]

Init ==
  /\ log = [k \in Keys |-> Never] /\ now = Start
  /\ session = "down" /\ wire = <<>>
  /\ src = [cursor |-> Start, seen |-> [k \in Keys |-> Never]] /\ saved = Start
  /\ th = [p \in Paths |-> AtRest]
  /\ dwell = [at |-> NoEntry, quiet |-> FALSE] /\ flush = Resting
  /\ faults = 0
  /\ past = [settled |-> [k \in Keys |-> Never], life |-> [k \in Keys |-> Never], twice |-> FALSE,
             vain |-> FALSE, raced |-> {}, again |-> FALSE]

Fault == faults < MaxFaults /\ faults' = faults + 1
Later(a, b) == IF a > b THEN a ELSE b

-----------------------------------------------------------------------------
(* Home Assistant. *)

\* A record occurs, at this instant or the next; several may share one.  An event
\* is sent to whoever has subscribed.
Occurs(k) ==
  \E t \in {now, now + 1} :
    /\ t <= MaxTime /\ t > log[k] /\ t > Start
    /\ now' = t /\ log' = [log EXCEPT ![k] = t]
    /\ wire' = IF session = "down" THEN wire ELSE Append(wire, [key |-> k, at |-> t])
    /\ UNCHANGED <<session, src, saved, th, faults, past, queue>>

-----------------------------------------------------------------------------
(* The session: runSession, startSession, awaitSessionEnd. *)

Subscribes ==
  /\ session = "down" /\ session' = "subscribed"
  /\ UNCHANGED <<log, now, wire, src, saved, th, faults, past, queue>>

SessionEnds ==
  /\ session # "down" /\ Fault
  /\ session' = "down" /\ wire' = <<>>
  /\ UNCHANGED <<log, now, src, saved, th, past, queue>>

\* What has been considered and is neither posted nor judged.
InHand(k) == IF k \in Deferred THEN Later(dwell.at[k], flush.at[k]) ELSE Never

\* The process stops, and starts over from the cursor the manager has; when that
\* cannot be read, from the present.  A restart loses the windows that are open: what
\* waits in one is read again only if the saved cursor is not past it.
Restarts ==
  /\ Fault
  /\ session' = "down" /\ wire' = <<>>
  /\ \E failed \in BOOLEAN :
       /\ src' = [cursor |-> IF failed THEN now ELSE saved, seen |-> [k \in Keys |-> Never]]
       /\ past' = [past EXCEPT !.life = [k \in Keys |-> Never], !.vain = FALSE, !.raced = {},
                               !.settled = IF failed THEN log
                                        ELSE [k \in Keys |-> IF InHand(k) < saved THEN Later(@[k], InHand(k)) ELSE @[k]]]
  /\ th' = [p \in Paths |-> AtRest]
  /\ dwell' = [at |-> NoEntry, quiet |-> FALSE] /\ flush' = Resting
  /\ UNCHANGED <<log, now, saved>>

-----------------------------------------------------------------------------
(* consider. *)

Path(p, pc) == th[p].pc = pc
Goes(p, pc) == th' = [th EXCEPT ![p].pc = pc]

\* The record is dealt with: the reader is free for another event, the sweep goes on.
Done(p) == th' = [th EXCEPT ![p].pc = IF p = "sweep" THEN "next" ELSE "idle", ![p].rec = NoRecord]

\* The reader takes the next event; it takes no other before this one is through.
EventArrives ==
  /\ Path("event", "idle") /\ wire # <<>>
  /\ th' = [th EXCEPT !["event"].pc = "see", !["event"].rec = Head(wire)]
  /\ wire' = Tail(wire)
  /\ UNCHANGED <<log, now, session, src, saved, faults, past, queue>>

\* One occurrence, one consideration.
SeenBefore(r) == src.seen[r.key] >= r.at

Sees(p) ==
  /\ Path(p, "see")
  /\ LET r == th[p].rec IN
       IF SeenBefore(r) THEN Done(p) /\ UNCHANGED <<src, past>>
       ELSE /\ src' = [src EXCEPT !.seen[r.key] = r.at]
            /\ past' = [past EXCEPT !.twice = @ \/ past.life[r.key] >= r.at,
                                    !.life[r.key] = Later(@, r.at)]
            /\ Goes(p, IF r.key \in Deferred THEN "hold" ELSE "post")
  /\ UNCHANGED <<log, now, session, wire, saved, faults, queue>>

\* pendingQueue.Add: while the integration is quiet there is nothing to add to the
\* report that made it so; otherwise the record joins the entry or opens one.  An
\* entry may be opened while the last one has been taken and is still being judged.
\* Mutant: the quiet time is not looked at.
Heard == FALSE
Silenced == dwell.quiet
Holds(p) ==
  /\ Path(p, "hold") /\ Goes(p, "advance")
  /\ LET r == th[p].rec IN
       IF Silenced
       THEN /\ past' = [past EXCEPT !.settled[r.key] = Later(@, r.at)]
            /\ UNCHANGED dwell
       ELSE /\ dwell' = [dwell EXCEPT !.at[r.key] = Later(@, r.at)]
            /\ past' = [past EXCEPT !.raced = IF flush.pc = "decide" THEN @ \cup {"queued"} ELSE @]
  /\ UNCHANGED <<log, now, session, wire, src, saved, flush, faults>>

\* A signal that cannot be handed over, or is past the cap, is lost, which the
\* source's condition says; the cursor stays and the record has been seen.
Posts(p) ==
  /\ Path(p, "post")
  /\ LET r == th[p].rec IN
       /\ past' = [past EXCEPT !.settled[r.key] = Later(@, r.at)]
       /\ \/ Goes(p, "advance") /\ UNCHANGED faults
          \/ Done(p) /\ Fault
  /\ UNCHANGED <<log, now, session, wire, src, saved, queue>>

\* advance moves the cursor forward only, past what neither path has taken as well:
\* an event, past records logged while there was no session; a sweep, past the
\* record an event brought, which it finds seen and leaves, and which is not posted yet.
Overtaken(p, at) ==
  {k \in Keys : /\ log[k] < at /\ Later(past.settled[k], InHand(k)) < log[k]
                /\ p = "sweep" => th["event"].pc \in {"hold", "post"} /\ th["event"].rec.key = k}
Advances(p) ==
  /\ Path(p, "advance")
  /\ LET at == th[p].rec.at IN
       /\ src' = [src EXCEPT !.cursor = Later(@, at)]
       /\ (IF at > src.cursor THEN Goes(p, "persist") ELSE Done(p))
       /\ past' = [past EXCEPT !.settled = [k \in Keys |->
                     IF at > src.cursor /\ k \in Overtaken(p, at) THEN log[k] ELSE @[k]]]
  /\ UNCHANGED <<log, now, session, wire, saved, faults, queue>>

\* The manager may be out of reach, which is only logged.
Persists(p) ==
  /\ Path(p, "persist") /\ Done(p)
  /\ \/ saved' = th[p].rec.at - (th[p].rec.at % 2) /\ UNCHANGED faults
     \/ Fault /\ UNCHANGED saved
  /\ UNCHANGED <<log, now, session, wire, src, past, queue>>

-----------------------------------------------------------------------------
(* sweep, by startSession once it has subscribed, and then on every tick. *)

Logged == {k \in Keys : log[k] # Never}
Ordered(s) == \A i \in 1..Len(s) - 1 : s[i].at <= s[i + 1].at
Listing == {s \in [1..Cardinality(Logged) -> {[key |-> k, at |-> log[k]] : k \in Logged}] : IsInjective(s)}

SweepReads ==
  /\ session # "down" /\ Path("sweep", "idle") /\ Logged # {}
  /\ session' = "live"
  /\ \E s \in Listing :
       /\ Ordered(s)
       /\ th' = [th EXCEPT !["sweep"] = [AtRest EXCEPT !.pc = "cursor", !.listed = Logged, !.todo = s]]
  /\ UNCHANGED <<log, now, wire, src, saved, faults, past, queue>>

\* The cursor is read once, after the listing.
SweepStarts ==
  /\ Path("sweep", "cursor")
  /\ th' = [th EXCEPT !["sweep"].pc = "next", !["sweep"].cursor = src.cursor]
  /\ UNCHANGED <<log, now, session, wire, src, saved, faults, past, queue>>

\* Only what is strictly older than the cursor is skipped.
\* Mutant: what is at the cursor as well.
OldOrAt(r) == r.at <= th["sweep"].cursor
Old(r) == r.at < th["sweep"].cursor
SweepTakes ==
  /\ Path("sweep", "next") /\ th["sweep"].todo # <<>>
  /\ LET r == Head(th["sweep"].todo) IN
       th' = [th EXCEPT !["sweep"].todo = Tail(@), !["sweep"].rec = r,
                        !["sweep"].pc = IF Old(r) THEN "next" ELSE "see"]
  /\ UNCHANGED <<log, now, session, wire, src, saved, faults, past, queue>>

\* pruneSeen: what is no longer listed, unless it is at the cursor.
\* Mutant: whatever is not listed.
Unlisted(k) == k \notin th["sweep"].listed
Forgets(k) == Unlisted(k) /\ src.seen[k] < src.cursor
SweepEnds ==
  /\ Path("sweep", "next") /\ th["sweep"].todo = <<>>
  /\ src' = [src EXCEPT !.seen = [k \in Keys |-> IF Forgets(k) THEN Never ELSE @[k]]]
  /\ th' = [th EXCEPT !["sweep"] = AtRest]
  /\ UNCHANGED <<log, now, session, wire, saved, faults, past, queue>>

-----------------------------------------------------------------------------
(* The dwell queue and runDwellFlusher. *)

QuietEnds ==
  /\ dwell.quiet
  /\ dwell' = [dwell EXCEPT !.quiet = FALSE] /\ past' = [past EXCEPT !.vain = FALSE]
  /\ UNCHANGED <<log, now, session, wire, src, saved, th, flush, faults>>

\* due, dueAt: when its window is over, or was cut short for breadth, the entry leaves
\* the queue, and then it is judged.
FlushTakes ==
  /\ flush.pc = "idle" /\ dwell.at # NoEntry
  /\ flush' = [pc |-> "decide", at |-> dwell.at]
  /\ dwell' = [dwell EXCEPT !.at = NoEntry]
  /\ past' = [past EXCEPT !.raced = IF "queued" \in @ THEN {"taken"} ELSE {}]
  /\ UNCHANGED <<log, now, session, wire, src, saved, th, faults>>

Through(settled) == [k \in Keys |-> IF k \in Deferred THEN Later(settled[k], flush.at[k]) ELSE settled[k]]

\* decide, and what Flush does with the verdict: churn is dropped, and starts no
\* quiet time; what is reported starts one, before it is posted.  Without a session
\* that has read the log, the close was not observed, and that is reported.
FlushDecides ==
  /\ flush.pc = "decide"
  /\ \/ /\ session = "live"
        /\ flush' = Resting
        /\ past' = [past EXCEPT !.settled = Through(@), !.raced = @ \ {"taken"}]
        /\ UNCHANGED dwell
     \/ /\ flush' = [flush EXCEPT !.pc = "emit"]
        /\ dwell' = [dwell EXCEPT !.quiet = TRUE]
        /\ past' = [past EXCEPT !.again = @ \/ (dwell.quiet /\ "taken" \notin past.raced),
                               !.vain = FALSE, !.raced = @ \ {"taken"}]
  /\ UNCHANGED <<log, now, session, wire, src, saved, th, faults>>

FlushEmits ==
  /\ flush.pc = "emit" /\ flush' = Resting
  /\ \E failed \in BOOLEAN :
       /\ IF failed THEN Fault ELSE UNCHANGED faults
       /\ past' = [past EXCEPT !.settled = Through(@), !.vain = failed /\ dwell.quiet]
  /\ UNCHANGED <<log, now, session, wire, src, saved, th, dwell>>

-----------------------------------------------------------------------------

FlushGoesOn == FlushTakes \/ FlushDecides \/ FlushEmits
Considers(p) == Sees(p) \/ Holds(p) \/ Posts(p) \/ Advances(p) \/ Persists(p)
SweepGoesOn == SweepStarts \/ SweepTakes \/ Considers("sweep") \/ SweepEnds
EventGoesOn == EventArrives \/ Considers("event")

Next ==
  \/ \E k \in Keys : Occurs(k)
  \/ Subscribes \/ SessionEnds \/ Restarts
  \/ SweepReads \/ SweepGoesOn \/ EventGoesOn
  \/ QuietEnds \/ FlushGoesOn

Spec == Init /\ [][Next]_vars

\* The adapter reconnects, polls, and lets each path and the flusher run; windows
\* end.
FairSpec ==
  /\ Spec /\ WF_vars(Subscribes) /\ WF_vars(SweepReads \/ SweepGoesOn) /\ WF_vars(EventGoesOn)
  /\ WF_vars(FlushGoesOn)

-----------------------------------------------------------------------------
(* Properties. *)

\* Whatever Home Assistant logs is handed on, by one path or the other and over
\* lost sessions and restarts: the record or a later one of its key is posted, or its
\* wait ends with a verdict, or a report about its integration has just been made.
\* Not so what was posted in vain or silenced by such a post, what an event moved the
\* cursor past before a sweep had come to it, what waited when the process ended and
\* lies behind the saved cursor, and what was logged before a restart that could not
\* read the cursor.
EveryRecordIsTaken == \A k \in Keys : []<>(past.settled[k] >= log[k])

\* One process considers one occurrence once, whichever path brings it and however
\* the two interleave.
ConsideredOnce == ~past.twice

\* An integration is not reported a second time while it is to be quiet, unless the
\* record that began the second wait came between the taking of the first one out of
\* the queue and its verdict.
QuietIsKept == ~past.again

\* Both: an occurrence is considered once, an integration reported once.
ReportedOnce == ConsideredOnce /\ QuietIsKept

\* An integration is silenced only by a report that was handed over.  TLC refutes it:
\* the quiet time starts before the post.
QuietIsEarned ==
  [][\A p \in Paths : Path(p, "hold") /\ th'[p].pc = "advance" /\ dwell.quiet => ~past.vain]_vars
=============================================================================
