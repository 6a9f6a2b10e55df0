----------------------------- MODULE SignalStore -----------------------------
(***************************************************************************)
(* One message with a signalId, the record that stands for it, and all who *)
(* touch that record: the publish handlers (the adapter re-sends until it   *)
(* is answered), the consumer's pass, the expiry sweep, the release of a    *)
(* deleted source, and the feed that asks for passes.  The record's name is *)
(* derived from the source's name and the signalId, so a re-send, and a     *)
(* successor of the source, meet the same name.                             *)
(*                                                                         *)
(* One action is one call to the apiserver with what the code does before   *)
(* the next.  What a pass decides about the message is Signals's: here it   *)
(* either finishes it or leaves it for another pass.                        *)
(***************************************************************************)
EXTENDS Naturals, FiniteSets

CONSTANTS
  Handlers,     \* publish requests that may be served at once
  MaxSends,     \* bound: requests for the message
  MaxIdentities,\* bound: incarnations of the source
  Attempts,     \* statusUpdateMaxAttempts
  MaxFaults     \* bound: leader changes, broken or refused watches, failed reads,
                \* and times the informer cache falls behind

ASSUME SignalStoreBounds ==
  {MaxSends, MaxIdentities, MaxFaults} \subseteq Nat /\ Attempts \in Nat \ {0}

VARIABLES
  obj,      \* the Signal object
  uids,     \* objects created so far
  source,   \* the identity of the source by that name, 0: none
  last,     \* the latest identity there was
  handler,  \* the publish requests
  sends,
  pass,     \* the pass over the record
  queued,   \* the record is in the work queue
  release,  \* ReleaseSource, as run by a pass and by the source's reconciler
  dueByName,\* the reconciler is to look at the source
  sweep, armed,
  feed,     \* the loop around Watch
  cache,    \* what lists are answered from while the informer cache is behind
  faults,
  past      \* what happened, for the properties

world == <<source, last, dueByName>>
bounds == <<uids, sends, faults>>
vars == <<obj, bounds, world, handler, pass, queued, release, sweep, armed, feed, cache, past>>

None == [uid |-> 0, rev |-> 0, owner |-> 0, done |-> FALSE, expires |-> "never"]
Exists == obj.uid # 0
Expired == obj.expires = "passed"
Visible == Exists /\ ~Expired
Live == Exists /\ ~obj.done
Same(o) == obj.uid = o.uid /\ obj.rev = o.rev

NoPass == [pc |-> "idle", read |-> None, done |-> FALSE, left |-> 0]
NoRelease == [pc |-> "idle", departed |-> 0, listed |-> None]
NoSweep == [pc |-> "idle", listed |-> None]
Releasers == {"pass", "reconciler"}

Init ==
  /\ obj = None /\ uids = 0 /\ sends = 0 /\ faults = 0
  /\ source = 1 /\ last = 1 /\ dueByName = FALSE
  /\ handler = [h \in Handlers |-> [pc |-> "idle", src |-> 0, found |-> None]]
  /\ pass = NoPass /\ queued = FALSE
  /\ release = [r \in Releasers |-> NoRelease]
  /\ sweep = NoSweep /\ armed = TRUE
  /\ feed = [pc |-> "closed", resume |-> FALSE, behind |-> FALSE]
  /\ cache = [behind |-> FALSE, had |-> FALSE]
  /\ past = [misled |-> FALSE, skipped |-> FALSE, swapped |-> FALSE]

Fault == faults < MaxFaults /\ faults' = faults + 1

\* Every write of the object is an event the watch has yet to deliver.
Put(o) ==
  /\ obj' = [o EXCEPT !.rev = IF o.uid = 0 THEN 0 ELSE obj.rev + 1]
  /\ feed' = [feed EXCEPT !.behind = TRUE]

-----------------------------------------------------------------------------
(* publishOne and createOrReplaceExpired. *)

RequestArrives(h) ==
  /\ handler[h].pc = "idle" /\ sends < MaxSends /\ source # 0
  /\ sends' = sends + 1
  /\ handler' = [handler EXCEPT ![h] = [pc |-> "create", src |-> source, found |-> None]]
  /\ UNCHANGED <<obj, uids, faults, world, pass, queued, release, sweep, armed, feed, cache, past>>

Answered(h) == handler' = [handler EXCEPT ![h] = [pc |-> "idle", src |-> 0, found |-> None]]

Create(h) ==
  /\ handler[h].pc \in {"create", "recreate"}
  /\ IF ~Exists
     THEN /\ uids' = uids + 1
          /\ Put([None EXCEPT !.uid = uids + 1, !.owner = handler[h].src])
          /\ Answered(h)
     ELSE /\ UNCHANGED <<obj, uids, feed>>
          /\ IF handler[h].pc = "create" THEN handler' = [handler EXCEPT ![h].pc = "get"] ELSE Answered(h)
  /\ UNCHANGED <<sends, faults, world, pass, queued, release, sweep, armed, cache, past>>

\* Whatever is not seen to have expired is a duplicate.
GetExisting(h) ==
  /\ handler[h].pc = "get"
  /\ \/ /\ Exists /\ Expired
        /\ handler' = [handler EXCEPT ![h].pc = "delete", ![h].found = obj]
        /\ UNCHANGED faults
     \/ ~(Exists /\ Expired) /\ Answered(h) /\ UNCHANGED faults
     \/ Answered(h) /\ Fault
  /\ UNCHANGED <<obj, uids, sends, world, pass, queued, release, sweep, armed, feed, cache, past>>

\* Mutant: deleted by name.
ByNameOnly(o) == Exists
Precondition(o) == Exists /\ Same(o)

DeleteExpired(h) ==
  /\ handler[h].pc = "delete"
  /\ IF Precondition(handler[h].found)
     THEN Put(None) /\ handler' = [handler EXCEPT ![h].pc = "recreate"]
     ELSE /\ UNCHANGED <<obj, feed>>
          /\ IF Exists THEN Answered(h) ELSE handler' = [handler EXCEPT ![h].pc = "recreate"]
  /\ UNCHANGED <<bounds, world, pass, queued, release, sweep, armed, cache, past>>

-----------------------------------------------------------------------------
(* SignalReconciler: a pass over the record. *)

\* Get, and where the pass goes: a finished record without an expiry is stamped
\* Mutant: a finished record is left alone.
StampNothing == FALSE
NeedsStamp == obj.done /\ obj.expires = "never"

PassReads ==
  /\ queued /\ pass.pc = "idle" /\ release["pass"].pc = "idle"
  /\ queued' = FALSE
  /\ armed' = (armed \/ Expired)
  /\ IF ~Visible \/ (obj.done /\ ~NeedsStamp) THEN UNCHANGED <<pass, release>>
     ELSE IF obj.done
     THEN pass' = [NoPass EXCEPT !.pc = "write", !.read = obj, !.done = TRUE] /\ UNCHANGED release
     ELSE IF source = 0
     THEN /\ release' = [release EXCEPT !["pass"] = [NoRelease EXCEPT !.pc = "list", !.departed = obj.owner]]
          /\ UNCHANGED pass
     ELSE /\ \E done \in BOOLEAN : pass' = [NoPass EXCEPT !.pc = "write", !.read = obj, !.done = done]
          /\ UNCHANGED release
  /\ UNCHANGED <<obj, bounds, world, handler, sweep, feed, cache, past>>

\* A record that is finished is given an expiry by the write that finishes it.
ToExpire == pass.done

\* Update: the status, under the revision that was read.  A lost race is an error,
\* and the queue comes back to it.
PassWrites ==
  /\ pass.pc = "write"
  /\ armed' = (armed \/ ToExpire)
  /\ IF Visible /\ Same(pass.read)
     THEN /\ IF obj.done = pass.done THEN UNCHANGED <<obj, feed>> ELSE Put([obj EXCEPT !.done = pass.done])
          /\ pass' = [pass EXCEPT !.pc = "settle", !.read = obj', !.left = Attempts]
          /\ UNCHANGED queued
     ELSE pass' = NoPass /\ queued' = TRUE /\ UNCHANGED <<obj, feed>>
  /\ UNCHANGED <<bounds, world, handler, release, sweep, cache, past>>

\* settleExpiry: the annotation, under the revision of the write before it, or of
\* whatever bears the name after a conflict.
PassEnds(again) == pass' = NoPass /\ queued' = (queued \/ again)
PassSettles ==
  /\ pass.pc = "settle"
  /\ IF (pass.read.expires # "never") = ToExpire
     THEN PassEnds(~pass.done) /\ UNCHANGED <<obj, feed, past>>
     ELSE IF Exists /\ Same(pass.read)
     THEN Put([obj EXCEPT !.expires = IF ToExpire THEN "ahead" ELSE "never"]) /\ PassEnds(~pass.done) /\ UNCHANGED past
     ELSE /\ UNCHANGED <<obj, feed>>
          /\ IF ~Exists THEN PassEnds(FALSE) /\ UNCHANGED past
             ELSE IF pass.left = 1 THEN PassEnds(TRUE) /\ UNCHANGED past
             ELSE /\ pass' = [pass EXCEPT !.read = obj, !.left = @ - 1]
                  /\ past' = [past EXCEPT !.swapped = @ \/ obj.uid # pass.read.uid]
                  /\ UNCHANGED queued
  /\ UNCHANGED <<bounds, world, handler, release, sweep, armed, cache>>

\* A call between the two writes fails, or the answer to the first is lost.
SettleFails ==
  /\ pass.pc = "settle" /\ Fault
  /\ PassEnds(TRUE)
  /\ UNCHANGED <<obj, uids, sends, world, handler, release, sweep, armed, feed, cache, past>>

-----------------------------------------------------------------------------
(* ReleaseSource; that it clears the window of a source without a successor is
   left out. *)

\* The reconciler of sources finds the name gone, in its cache, and knows no identity.
ReconcilerReleases ==
  /\ dueByName /\ release["reconciler"].pc = "idle"
  /\ dueByName' = FALSE
  /\ release' = [release EXCEPT !["reconciler"] = [NoRelease EXCEPT !.pc = "list"]]
  /\ UNCHANGED <<obj, bounds, source, last, handler, pass, queued, sweep, armed, feed, cache, past>>

ReleaseLists(r) ==
  /\ release[r].pc = "list"
  /\ release' = [release EXCEPT ![r].pc = "delete", ![r].listed = obj]
  /\ UNCHANGED <<obj, bounds, world, handler, pass, queued, sweep, armed, feed, cache, past>>

\* isSuccessorsSignal
Successors(o, departed) == departed # 0 /\ o.owner # departed

ReleaseDeletes(r) ==
  /\ release[r].pc = "delete"
  /\ LET o == release[r].listed IN
       IF o.uid # 0 /\ o.uid = obj.uid /\ ~Successors(o, release[r].departed) THEN Put(None) ELSE UNCHANGED <<obj, feed>>
  /\ release' = [release EXCEPT ![r] = NoRelease]
  /\ UNCHANGED <<bounds, world, handler, pass, queued, sweep, armed, cache, past>>

-----------------------------------------------------------------------------
(* Run and sweepExpired. *)

SweepTicks ==
  /\ armed /\ sweep.pc = "idle"
  /\ armed' = FALSE
  /\ sweep' = [NoSweep EXCEPT !.pc = "list"]
  /\ UNCHANGED <<obj, bounds, world, handler, pass, queued, release, feed, cache, past>>

SweepLists ==
  /\ sweep.pc = "list"
  /\ armed' = (armed \/ obj.expires = "ahead")
  /\ sweep' = IF Exists /\ Expired THEN [pc |-> "delete", listed |-> obj] ELSE NoSweep
  /\ UNCHANGED <<obj, bounds, world, handler, pass, queued, release, feed, cache, past>>

SweepDeletes ==
  /\ sweep.pc = "delete"
  /\ IF Precondition(sweep.listed) THEN Put(None) /\ UNCHANGED armed
     ELSE UNCHANGED <<obj, feed>> /\ armed' = (armed \/ Exists)
  /\ sweep' = NoSweep
  /\ UNCHANGED <<bounds, world, handler, pass, queued, release, cache, past>>

-----------------------------------------------------------------------------
(* The feed: pump around Watch. *)

\* Without a resume point the watch begins now, and everything is listed after it.
\* A resume point may be refused.
FeedOpens ==
  /\ feed.pc = "closed"
  /\ \/ /\ feed.resume /\ UNCHANGED <<faults, past>>
        /\ feed' = [feed EXCEPT !.pc = "open"]
     \/ /\ feed.resume /\ Fault /\ UNCHANGED past
        /\ feed' = [feed EXCEPT !.resume = FALSE]
     \/ /\ ~feed.resume /\ UNCHANGED faults
        /\ feed' = [feed EXCEPT !.pc = "list", !.behind = FALSE]
        /\ past' = [past EXCEPT !.skipped = @ \/ (feed.behind /\ obj.expires # "never")]
  /\ UNCHANGED <<obj, uids, sends, world, handler, pass, queued, release, sweep, armed, cache>>

\* enqueueAll, answered by the informer cache.
\* Mutant: the watch alone is trusted.
ListsNothing == FALSE
Lists == IF cache.behind THEN cache.had ELSE Visible
FeedLists ==
  /\ feed.pc = "list"
  /\ feed' = [feed EXCEPT !.pc = "open"]
  /\ queued' = (queued \/ Lists)
  /\ armed' = (armed \/ (~cache.behind /\ Expired))
  /\ past' = [past EXCEPT !.misled = @ \/ (cache.behind /\ ~cache.had /\ Visible)]
  /\ UNCHANGED <<obj, bounds, world, handler, pass, release, sweep, cache>>

FeedDelivers ==
  /\ feed.pc = "open" /\ feed.behind
  /\ feed' = [feed EXCEPT !.resume = TRUE, !.behind = FALSE]
  /\ queued' = TRUE
  /\ armed' = (armed \/ obj.expires # "never")
  /\ UNCHANGED <<obj, bounds, world, handler, pass, release, sweep, cache, past>>

\* The watch ends; a bookmark may have moved the resume point past all it delivered.
FeedBreaks ==
  /\ feed.pc = "open" /\ Fault
  /\ \E bookmark \in BOOLEAN :
       feed' = [feed EXCEPT !.pc = "closed", !.resume = @ \/ (bookmark /\ ~feed.behind)]
  /\ UNCHANGED <<obj, uids, sends, world, handler, pass, queued, release, sweep, armed, cache, past>>

-----------------------------------------------------------------------------
(* The world. *)

SourceDeleted ==
  /\ source # 0 /\ last < MaxIdentities
  /\ source' = 0 /\ dueByName' = TRUE
  /\ UNCHANGED <<obj, bounds, last, handler, pass, queued, release, sweep, armed, feed, cache, past>>

SourceCreated ==
  /\ source = 0
  /\ source' = last + 1 /\ last' = last + 1
  /\ UNCHANGED <<obj, bounds, dueByName, handler, pass, queued, release, sweep, armed, feed, cache, past>>

ExpiryPasses ==
  /\ obj.expires = "ahead"
  /\ obj' = [obj EXCEPT !.expires = "passed"]
  /\ UNCHANGED <<bounds, world, handler, pass, queued, release, sweep, armed, feed, cache, past>>

CacheFallsBehind ==
  /\ ~cache.behind /\ Fault
  /\ cache' = [behind |-> TRUE, had |-> Visible]
  /\ UNCHANGED <<obj, uids, sends, world, handler, pass, queued, release, sweep, armed, feed, past>>

CacheSyncs ==
  /\ cache.behind
  /\ cache' = [behind |-> FALSE, had |-> FALSE]
  /\ UNCHANGED <<obj, bounds, world, handler, pass, queued, release, sweep, armed, feed, past>>

\* Another process leads: its feed, queue and sweep begin anew; the requests
\* another replica serves go on.
LeaderChanges ==
  /\ Fault
  /\ pass' = NoPass /\ queued' = FALSE
  /\ release' = [r \in Releasers |-> NoRelease] /\ dueByName' = FALSE
  /\ sweep' = NoSweep /\ armed' = TRUE
  /\ feed' = [pc |-> "closed", resume |-> FALSE, behind |-> FALSE]
  /\ past' = [past EXCEPT !.skipped = FALSE]
  /\ UNCHANGED <<obj, uids, sends, source, last, handler, cache>>

Publishes(h) == Create(h) \/ GetExisting(h) \/ DeleteExpired(h)
Passes == PassReads \/ PassWrites \/ PassSettles
Releases(r) == ReleaseLists(r) \/ ReleaseDeletes(r)
Sweeps == SweepTicks \/ SweepLists \/ SweepDeletes
Feeds == FeedOpens \/ FeedLists \/ FeedDelivers

Next ==
  \/ \E h \in Handlers : RequestArrives(h) \/ Publishes(h)
  \/ Passes \/ SettleFails \/ ReconcilerReleases \/ (\E r \in Releasers : Releases(r))
  \/ Sweeps \/ Feeds \/ FeedBreaks
  \/ SourceDeleted \/ SourceCreated \/ ExpiryPasses
  \/ CacheFallsBehind \/ CacheSyncs \/ LeaderChanges

Spec == Init /\ [][Next]_vars

\* The processes go on, time passes, and some pass finishes what it reads
\* (Signals!EverySignalSettles).
Finishes == PassReads /\ pass'.done
FairSpec ==
  /\ Spec /\ WF_vars(Passes) /\ SF_vars(Finishes)
  /\ WF_vars(Sweeps) /\ WF_vars(Feeds) /\ WF_vars(CacheSyncs) /\ WF_vars(ExpiryPasses)
  /\ \A h \in Handlers : WF_vars(Publishes(h))
  /\ \A r \in Releasers : WF_vars(Releases(r))

-----------------------------------------------------------------------------
(* Properties. *)

Releasing(r) == release[r].pc = "delete" /\ release'[r] = NoRelease

\* A message that was stored and not yet consumed is taken away only with its
\* source: no re-send, sweep or late delete, deciding on what it read before,
\* removes the record that has taken the name since; and a pass that releases a
\* source takes no record of its successor.  (Under LiveNeverExpires's condition.)
OnlyReleaseTakesLive ==
  [][Live /\ ~past.swapped /\ obj'.uid # obj.uid =>
       Releasing("reconciler") \/ (Releasing("pass") /\ release["pass"].departed = obj.owner)]_vars

\* A live record never carries an expiry (the order of Update's two writes), as
\* long as no release put another record under the name in between.
LiveNeverExpires == Live /\ ~past.swapped => obj.expires = "never"

\* A request is answered as a duplicate only of a record that can be seen.  This is
\* what createOrReplaceExpired says of itself, and not so: a read that fails, or
\* finds the record just swept, counts as a duplicate too.
DuplicateIsSeen ==
  [][\A h \in Handlers : handler[h].pc = "get" /\ handler'[h].pc = "idle" => Visible]_vars

\* A stored message is consumed, or goes with its source: after a restart, a watch
\* that broke and a resume point that was refused, unless the list that stands in
\* for the lost events was answered by a cache that had not heard of it.
StoredIsConsumed == []<>(~Live \/ past.misled)

\* A record that is finished goes, though the process died before it was stamped,
\* or the sweep lowered its flag and looked before the stamp landed: the event of
\* the stamp raises it again, unless a new watch began after that event.
FinishedIsRemoved == []<>(~obj.done \/ past.skipped)
=============================================================================
