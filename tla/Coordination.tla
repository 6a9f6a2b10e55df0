---------------------------- MODULE Coordination ----------------------------
(***************************************************************************)
(* A coordination: the tree of conversations that grows from one root as    *)
(* agents invoke members, and is closed and deleted as a whole.  An invoke, *)
(* a close and a delete are each several calls to the store, and any number *)
(* of them are under way at once: an agent's parallel tool calls, a person, *)
(* the idle timer, the deadline.  Gets and writes go to the store, lists are*)
(* answered by the informer cache.                                          *)
(*                                                                         *)
(* A close walks the tree.  What is left of a walk is a stack of frames, one*)
(* for each conversation on the way down, with the steps still to do there. *)
(* What members work on and answer is Turns's.                              *)
(***************************************************************************)
EXTENDS Naturals, Sequences, FiniteSets, SequencesExt

CONSTANTS
  Convs,        \* conversations there can be; the least is the root
  Coordinators, \* those made for a Coordinator: they carry a budget
  Entries,      \* agents[]
  Callers,      \* requests that may be under way at once
  MaxAgents,    \* limits.maxAgents of each of them
  MaxReopens, MaxDeletes, \* bounds: reopens and deletes by a person
  MaxCloses,    \* bound: closes by a verb, a person, a timer or a deadline
  MaxFaults     \* bound: failed calls, and times the informer cache falls behind

ASSUME CoordinationBounds ==
  /\ Convs \subseteq Nat \ {0} /\ Convs # {} /\ Coordinators \subseteq Convs
  /\ {MaxAgents, MaxReopens, MaxDeletes, MaxCloses, MaxFaults} \subseteq Nat

VARIABLES
  conv,     \* the conversations
  req,      \* the requests under way
  cache,    \* what lists are answered from while the informer cache is behind
  reopens, deletes, closes, faults,
  past      \* what happened, for the properties

spent == <<reopens, deletes, closes, faults>>
vars == <<conv, req, cache, spent, past>>

Root == CHOOSE c \in Convs : \A d \in Convs : c <= d
NoConv == [state |-> "none", parent |-> 0, entry |-> CHOOSE e \in Entries : TRUE, invoked |-> 0]
Idle == [verb |-> "none", on |-> 0, entry |-> CHOOSE e \in Entries : TRUE, pc |-> "idle", new |-> 0, stack |-> <<>>]

Present(c) == conv[c].state \in {"open", "closed"}
Opened == {c \in Convs : conv[c].state = "open"}
View == [behind |-> TRUE, open |-> Opened, known |-> {c \in Convs : Present(c)}]
Current == [behind |-> FALSE, open |-> {}, known |-> {}]
Listed == IF cache.behind THEN cache ELSE View
Members(c) == {d \in Listed.known : conv[d].parent = c}

Init ==
  /\ conv = [c \in Convs |-> IF c = Root THEN [NoConv EXCEPT !.state = "open"] ELSE NoConv]
  /\ req = [r \in Callers |-> Idle]
  /\ cache = Current
  /\ reopens = 0 /\ deletes = 0 /\ closes = 0 /\ faults = 0
  /\ past = [misled |-> FALSE, overlapped |-> FALSE, cut |-> FALSE, took |-> FALSE, bare |-> FALSE, made |-> [c \in Convs |-> 0]]

Fault == faults < MaxFaults /\ faults' = faults + 1
SetState(c, s) == conv' = [conv EXCEPT ![c].state = s]

-----------------------------------------------------------------------------
(* InvokeMember. *)

\* Mutant: one more is allowed.
SpentAtNext(c) == c \in Coordinators /\ conv[c].invoked > MaxAgents
BudgetSpent(c) == c \in Coordinators /\ conv[c].invoked >= MaxAgents

\* CloseBudgetExceeded: the members first, then Escalate, which closes a
\* conversation that was caused, and only says so on one that was not.
Walk(c, todo) == <<[on |-> c, todo |-> todo, kids |-> {}]>>
CloseTree == <<"list", "close", "list">>
Exceeded(c) == IF c = Root THEN <<"list">> ELSE <<"list">> \o CloseTree

\* The caller is read once, for the check that it is not closed and for its
\* budget; an invoke that finds it spent closes on it.
InvokeStarts(r, c, e) ==
  /\ req[r] = Idle /\ c \in Opened
  /\ \/ /\ ~BudgetSpent(c)
        /\ req' = [req EXCEPT ![r] = [Idle EXCEPT !.verb = "invoke", !.on = c, !.entry = e, !.pc = "look"]]
        /\ past' = [past EXCEPT !.overlapped = @ \/ \E q \in Callers : req[q].verb = "invoke" /\ req[q].on = c]
     \/ /\ BudgetSpent(c)
        /\ req' = [req EXCEPT ![r] = [Idle EXCEPT !.verb = "close", !.pc = "walk", !.stack = Walk(c, Exceeded(c))]]
        /\ UNCHANGED past
  /\ UNCHANGED <<conv, cache, spent>>

\* findReusableMember.  A member that was found is handed the task, unless it has
\* been closed since: then the task is dropped, and the answer is the same.
Reusable(c, e) == {d \in Members(c) \cap Listed.open : conv[d].entry = e}
InvokeLooks(r) ==
  /\ req[r].pc = "look"
  /\ LET c == req[r].on
         found == Reusable(c, req[r].entry) IN
       /\ req' = [req EXCEPT ![r] = IF found # {} THEN Idle ELSE [@ EXCEPT !.pc = "create"]]
       /\ past' = [past EXCEPT !.misled = @ \/ \E d \in Opened \ Listed.open : conv[d].parent = c]
  /\ UNCHANGED <<conv, cache, spent>>

InvokeCreates(r) ==
  /\ req[r].pc = "create"
  /\ \E d \in Convs :
       /\ conv[d].state = "none" /\ \A b \in Convs : b < d => conv[b].state # "none"
       /\ conv' = [conv EXCEPT ![d] = [NoConv EXCEPT !.state = "open", !.parent = req[r].on, !.entry = req[r].entry]]
       /\ req' = [req EXCEPT ![r].pc = "bump", ![r].new = d]
  /\ past' = [past EXCEPT !.made[req[r].on] = @ + 1]
  /\ UNCHANGED <<cache, spent>>

\* bumpAgentsInvoked: a caller that has been deleted makes it fail, and the invoke
\* ends before the next check.
InvokeCounts(r) ==
  /\ req[r].pc = "bump"
  /\ IF Present(req[r].on)
     THEN /\ conv' = [conv EXCEPT ![req[r].on].invoked = @ + 1]
          /\ req' = [req EXCEPT ![r].pc = "recheck"] /\ UNCHANGED past
     ELSE req' = [req EXCEPT ![r] = Idle] /\ past' = [past EXCEPT !.cut = TRUE] /\ UNCHANGED conv
  /\ UNCHANGED <<cache, spent>>

\* closeMemberIfCallerClosed: the member alone, whatever it has invoked by then.
\* Mutant: the check before was enough.
TrustsFirstCheck(c) == FALSE
ClosedSince(c) == conv[c].state = "closed"
InvokeRechecks(r) ==
  /\ req[r].pc = "recheck"
  /\ req' = [req EXCEPT ![r] = IF ClosedSince(req[r].on)
                               THEN [Idle EXCEPT !.verb = "recheck", !.pc = "walk", !.stack = Walk(req[r].new, <<"close">>)]
                               ELSE Idle]
  /\ past' = [past EXCEPT !.cut = @ \/ ~Present(req[r].on)]
  /\ UNCHANGED <<conv, cache, spent>>

\* A call fails; once the member is there, it stays there unchecked.
InvokeFails(r) ==
  /\ req[r].verb = "invoke" /\ Fault
  /\ req' = [req EXCEPT ![r] = Idle]
  /\ past' = [past EXCEPT !.cut = @ \/ req[r].pc \in {"bump", "recheck"}]
  /\ UNCHANGED <<conv, cache, reopens, deletes, closes>>

-----------------------------------------------------------------------------
(* The walks: closeWithCascade, closeConversation, CloseBudgetExceeded and *)
(* cascadeDeleteMembers. *)

Starts(r, verb, c, todo) ==
  /\ req[r] = Idle
  /\ req' = [req EXCEPT ![r] = [Idle EXCEPT !.verb = verb, !.pc = "walk", !.stack = Walk(c, todo)]]

\* CloseCoordinated: by the agent of the conversation itself or of its parent.  One
\* that was closed when it was read is not closed again, only what is below it.
CloseStarts(r, c) ==
  /\ closes < MaxCloses /\ closes' = closes + 1 /\ Present(c)
  /\ Starts(r, "close", c, IF c \in Opened THEN CloseTree ELSE <<"list", "list">>)
  /\ UNCHANGED <<conv, cache, reopens, deletes, faults, past>>

\* closeConversation: /close, and the idle timer.  Only a conversation that nobody
\* caused has a thread to type in.
PlainCloseStarts(r, c) ==
  /\ closes < MaxCloses /\ closes' = closes + 1 /\ Present(c)
  /\ Starts(r, "plain", c, IF c \in Opened THEN <<"close", "list">> ELSE <<"list">>)
  /\ UNCHANGED <<conv, cache, reopens, deletes, faults, past>>

DeadlinePasses(r, c) ==
  /\ closes < MaxCloses /\ closes' = closes + 1 /\ c \in Coordinators \cap Opened
  /\ Starts(r, "close", c, Exceeded(c))
  /\ UNCHANGED <<conv, cache, reopens, deletes, faults, past>>

\* handleConversationDelete: only what is closed, with everything below it.
DeleteStarts(r) ==
  /\ deletes < MaxDeletes /\ deletes' = deletes + 1 /\ conv[Root].state = "closed"
  /\ Starts(r, "delete", Root, <<"list", "delete">>)
  /\ UNCHANGED <<conv, cache, reopens, closes, faults, past>>

Top(r) == Head(req[r].stack)
Going(r, step) == req[r].pc = "walk" /\ Top(r).todo # <<>> /\ Head(Top(r).todo) = step
Rest(f) == [f EXCEPT !.todo = Tail(@)]
OnStack(r, s) == req' = [req EXCEPT ![r].stack = s]

\* cascadeCloseMembers closes those that are open; a delete takes all.
WalkLists(r) ==
  /\ Going(r, "list")
  /\ LET c == Top(r).on
         kids == IF req[r].verb = "delete" THEN Members(c) ELSE Members(c) \cap Listed.open IN
       /\ OnStack(r, <<[Top(r) EXCEPT !.todo = <<"kids">> \o Tail(@), !.kids = kids]>> \o Tail(req[r].stack))
       /\ past' = [past EXCEPT
            !.misled = @ \/ \E d \in Convs \ Members(c) : Present(d) /\ conv[d].parent = c,
            !.took = @ \/ (req[r].verb = "delete" /\ (c \in Opened \/ \E q \in Callers : req[q].verb = "invoke" /\ req[q].on = c))]
  /\ UNCHANGED <<conv, cache, spent>>

WalkDescends(r) ==
  /\ Going(r, "kids")
  /\ IF Top(r).kids = {} THEN OnStack(r, <<Rest(Top(r))>> \o Tail(req[r].stack))
     ELSE \E d \in Top(r).kids :
            OnStack(r, Walk(d, IF req[r].verb = "delete" THEN <<"list", "delete">> ELSE CloseTree)
                         \o <<[Top(r) EXCEPT !.kids = @ \ {d}]>> \o Tail(req[r].stack))
  /\ UNCHANGED <<conv, cache, spent, past>>

\* closeConversationReason, and the write of closeConversation.
WalkCloses(r) ==
  /\ Going(r, "close")
  /\ IF conv[Top(r).on].state = "open" THEN SetState(Top(r).on, "closed") ELSE UNCHANGED conv
  /\ OnStack(r, <<Rest(Top(r))>> \o Tail(req[r].stack))
  /\ past' = [past EXCEPT !.bare = @ \/ (req[r].verb = "recheck" /\ \E d \in Opened : conv[d].parent = Top(r).on)]
  /\ UNCHANGED <<cache, spent>>

WalkDeletes(r) ==
  /\ Going(r, "delete")
  /\ IF Present(Top(r).on) THEN SetState(Top(r).on, "deleted") ELSE UNCHANGED conv
  /\ OnStack(r, <<Rest(Top(r))>> \o Tail(req[r].stack))
  /\ UNCHANGED <<cache, spent, past>>

WalkAscends(r) ==
  /\ req[r].pc = "walk" /\ Top(r).todo = <<>>
  /\ IF Len(req[r].stack) = 1 THEN req' = [req EXCEPT ![r] = Idle] ELSE OnStack(r, Tail(req[r].stack))
  /\ UNCHANGED <<conv, cache, spent, past>>

\* A call fails and the walk with it.  What it leaves open below a conversation it
\* found or made closed, only another close or delete comes back for.
WalkFails(r) ==
  /\ req[r].pc = "walk" /\ Fault
  /\ req' = [req EXCEPT ![r] = Idle]
  /\ past' = [past EXCEPT !.cut = @ \/ \E f \in Range(req[r].stack) : ~({f.on, conv[f.on].parent} \ {0} \subseteq Opened)]
  /\ UNCHANGED <<conv, cache, reopens, deletes, closes>>

-----------------------------------------------------------------------------
(* Everyone else. *)

\* ReopenConversation
Reopen ==
  /\ conv[Root].state = "closed" /\ reopens < MaxReopens
  /\ reopens' = reopens + 1
  /\ SetState(Root, "open")
  /\ past' = [past EXCEPT !.took = @ \/ \E r \in Callers : req[r].verb = "delete"]
  /\ UNCHANGED <<req, cache, deletes, closes, faults>>

CacheFallsBehind ==
  /\ ~cache.behind /\ Fault
  /\ cache' = View
  /\ UNCHANGED <<conv, req, reopens, deletes, closes, past>>

CacheSyncs ==
  /\ cache.behind
  /\ cache' = Current
  /\ UNCHANGED <<conv, req, spent, past>>

Walks(r) == WalkLists(r) \/ WalkDescends(r) \/ WalkCloses(r) \/ WalkDeletes(r) \/ WalkAscends(r)
Invokes(r) == InvokeLooks(r) \/ InvokeCreates(r) \/ InvokeCounts(r) \/ InvokeRechecks(r)

Next ==
  \/ \E r \in Callers :
       \/ \E c \in Convs, e \in Entries : InvokeStarts(r, c, e)
       \/ Invokes(r) \/ InvokeFails(r)
       \/ \E c \in Convs : CloseStarts(r, c) \/ DeadlinePasses(r, c)
       \/ PlainCloseStarts(r, Root) \/ DeleteStarts(r)
       \/ Walks(r) \/ WalkFails(r)
  \/ Reopen \/ CacheFallsBehind \/ CacheSyncs

Spec == Init /\ [][Next]_vars

-----------------------------------------------------------------------------
(* Properties. *)

AtRest == \A r \in Callers : req[r] = Idle
Child(d) == Present(d) /\ conv[d].parent # 0

\* Every variable stays inside its shape.
TypeOK ==
  /\ \A c \in Convs :
       /\ conv[c].state \in {"none", "open", "closed", "deleted"} /\ conv[c].parent \in Convs \cup {0}
       /\ conv[c].invoked \in Nat
  /\ \A r \in Callers : req[r].pc = "walk" <=> req[r].stack # <<>>

\* When no request is under way, no member is open below a conversation that is
\* closed or deleted, or left below one that is deleted: although members are
\* invoked while the tree is walked, and a close may fail at any call.  Not so when
\* a list was answered by a cache that had fallen behind, when a request was cut off
\* where nothing comes back for the rest (an invoke that made its member, a plain
\* close that closed the root, a delete), when a delete reached a conversation that was
\* open still, was reopened or was invoking, or when an invoke took back a member that
\* had invoked others by then.
NoOrphans ==
  AtRest /\ ~past.misled /\ ~past.cut /\ ~past.took /\ ~past.bare =>
    \A d \in Convs : Child(d) => Present(conv[d].parent) /\ (d \in Opened => conv[d].parent \in Opened)

\* A conversation made for a Coordinator invites no more members than its budget
\* says, across closes and reopens, unless it invokes two at a time: each failed
\* call, at worst between a member's creation and its count, costs one more.
WithinBudget ==
  past.overlapped \/ \A c \in Coordinators : past.made[c] <= MaxAgents + faults

\* One agents[] entry has one open member of a caller at a time, when the caller does
\* not invoke two at a time and lists were not answered by a cache fallen behind.
OneMemberPerEntry ==
  past.overlapped \/ past.misled \/ \A c, d \in Opened \ {Root} :
    conv[c].parent = conv[d].parent /\ conv[c].entry = conv[d].entry => c = d

\* What a delete removes had been closed.  cascadeDeleteMembers says so, and it is
\* not: a plain close closes the root before its members.
DeletedWasClosed ==
  [][\A c \in Opened : conv'[c].state # "deleted"]_vars
=============================================================================
