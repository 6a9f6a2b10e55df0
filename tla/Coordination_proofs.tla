------------------------- MODULE Coordination_proofs -------------------------
(***************************************************************************)
(* A coordinator stays within its budget, and nothing stays open below what *)
(* was closed or deleted, proved for any number of conversations, requests, *)
(* budgets and faults.                                                      *)
(***************************************************************************)
EXTENDS Coordination, SequenceTheorems, NaturalsInduction, WellFoundedInduction, TLAPS

States == {"none", "open", "closed", "deleted"}
Verbs == {"none", "invoke", "close", "plain", "recheck", "delete"}
Pcs == {"idle", "look", "create", "bump", "recheck", "walk"}
Names == Entries \cup {CHOOSE e \in Entries : TRUE}
Steps == {"list", "kids", "close", "delete"}
Frame == [on : Convs, todo : Seq(Steps), kids : SUBSET Convs]

Conversations == [state : States, parent : Convs \cup {0}, entry : Names, invoked : Nat]
Requests == [verb : Verbs, on : Convs \cup {0}, entry : Names, pc : Pcs, new : Convs \cup {0}, stack : Seq(Frame)]

Caches == [behind : BOOLEAN, open : SUBSET Convs, known : SUBSET Convs]
Pasts == [misled : BOOLEAN, overlapped : BOOLEAN, cut : BOOLEAN, took : BOOLEAN, bare : BOOLEAN,
          made : [Convs -> Nat]]

Shapes ==
  /\ conv \in [Convs -> Conversations] /\ req \in [Callers -> Requests]
  /\ cache \in Caches /\ faults \in Nat /\ past \in Pasts

Invoking(q) == q.pc \in {"look", "create", "bump", "recheck"}

\* Where a request is, its verb says, and what it has made is its member.
Sound(cv, q) ==
  /\ q.verb = "none" => q.pc = "idle"
  /\ q.pc = "idle" => q = Idle
  /\ q.verb = "invoke" <=> Invoking(q)
  /\ q.pc = "walk" <=> q.stack # <<>>
  /\ Invoking(q) => q.on \in Convs /\ cv[q.on].state # "none"
  /\ q.pc \in {"bump", "recheck"} =>
       q.new \in Convs /\ cv[q.new].state # "none" /\ cv[q.new].parent = q.on

Typed == Shapes /\ \A r \in Callers : Sound(conv, req[r])

-----------------------------------------------------------------------------
(* The stack of a walk, and what is to be done in a frame. *)

LEMMA TopOf ==
  ASSUME NEW S, NEW s \in Seq(S), s # <<>>
  PROVE  /\ Head(s) = s[1] /\ s[1] \in S /\ 1 \in DOMAIN s
         /\ Len(s) \in Nat /\ Len(s) > 0 /\ DOMAIN s = 1..Len(s)
OBVIOUS

LEMMA TopReplaced ==
  ASSUME NEW S, NEW s \in Seq(S), s # <<>>, NEW g \in S
  PROVE  LET t == <<g>> \o Tail(s) IN
         /\ t \in Seq(S) /\ t # <<>>
         /\ DOMAIN t = DOMAIN s /\ t[1] = g /\ \A i \in DOMAIN s : i > 1 => t[i] = s[i]
OBVIOUS

LEMMA Pushed ==
  ASSUME NEW S, NEW s \in Seq(S), s # <<>>, NEW g \in S, NEW h \in S
  PROVE  LET t == <<h>> \o <<g>> \o Tail(s) IN
         /\ t \in Seq(S) /\ t # <<>>
         /\ DOMAIN t = 1..(Len(s) + 1) /\ t[1] = h /\ t[2] = g /\ \A i \in DOMAIN t : i > 2 => t[i] = s[i - 1]
<1> DEFINE u == <<h>> \o <<g>>
           v == Tail(s)
           t == u \o v
<1>1. u \in Seq(S) /\ Len(u) = 2 /\ u[1] = h /\ u[2] = g
  OBVIOUS
<1>2. v \in Seq(S) /\ Len(v) = Len(s) - 1 /\ \A i \in 1..Len(v) : v[i] = s[i + 1]
  OBVIOUS
<1> HIDE DEF u, v
<1>3. t \in Seq(S) /\ Len(t) = Len(u) + Len(v) /\ DOMAIN t = 1..Len(t)
  <2>1. u \in Seq(S) /\ v \in Seq(S)
    BY <1>1, <1>2
  <2>2. t \in Seq(S) /\ Len(t) = Len(u) + Len(v)
    BY <2>1, ConcatProperties
  <2> QED BY <2>2
<1>4. \A i \in 1..Len(t) : t[i] = IF i <= 2 THEN u[i] ELSE v[i - 2]
  BY <1>1, <1>2, <1>3, ConcatProperties
<1>5. Len(s) \in Nat /\ Len(s) > 0
  OBVIOUS
<1>6. DOMAIN t = 1..(Len(s) + 1) /\ t # <<>>
  BY <1>1, <1>2, <1>3, <1>5
<1>7. t[1] = h /\ t[2] = g
  BY <1>1, <1>3, <1>4, <1>5, <1>6
<1>8. \A i \in DOMAIN t : i > 2 => t[i] = s[i - 1]
  BY SMTT(30), <1>2, <1>3, <1>4, <1>5, <1>6
<1> QED BY <1>3, <1>6, <1>7, <1>8 DEF u, v

LEMMA Popped ==
  ASSUME NEW S, NEW s \in Seq(S), s # <<>>
  PROVE  LET t == Tail(s) IN
         /\ t \in Seq(S) /\ (Len(s) # 1 => t # <<>>)
         /\ DOMAIN t = 1..(Len(s) - 1) /\ \A i \in DOMAIN t : t[i] = s[i + 1]
<1> DEFINE t == Tail(s)
<1>1. t \in Seq(S) /\ Len(t) = Len(s) - 1 /\ Len(s) \in Nat /\ Len(s) > 0
  OBVIOUS
<1>2. \A i \in 1..Len(t) : t[i] = s[i + 1]
  BY <1>1
<1> HIDE DEF t
<1>3. DOMAIN t = 1..(Len(s) - 1) /\ (Len(s) # 1 => t # <<>>)
  BY <1>1
<1> QED BY <1>1, <1>2, <1>3 DEF t

-----------------------------------------------------------------------------
(* Every variable keeps its shape. *)

Kept(cv, cw) ==
  \A c \in Convs : cv[c].state # "none" => cw[c].state # "none" /\ cw[c].parent = cv[c].parent

LEMMA IdleIsSound == Idle \in Requests /\ \A cv : Sound(cv, Idle)
BY DEF Idle, Requests, Verbs, Pcs, Names, Sound, Invoking

LEMMA WalkIsSound ==
  ASSUME NEW c \in Convs, NEW todo \in Seq(Steps), NEW verb \in {"close", "plain", "recheck", "delete"}
  PROVE  LET q == [Idle EXCEPT !.verb = verb, !.pc = "walk", !.stack = Walk(c, todo)] IN
         q \in Requests /\ Walk(c, todo)[1] = [on |-> c, todo |-> todo, kids |-> {}]
         /\ DOMAIN Walk(c, todo) = {1} /\ \A cv : Sound(cv, q)
<1>1. /\ Walk(c, todo) \in Seq(Frame) /\ Walk(c, todo) # <<>> /\ DOMAIN Walk(c, todo) = {1}
      /\ Walk(c, todo)[1] = [on |-> c, todo |-> todo, kids |-> {}]
  BY DEF Walk, Frame
<1> QED BY <1>1, IdleIsSound DEF Idle, Requests, Verbs, Pcs, Sound, Invoking

LEMMA RequestMoves ==
  ASSUME Typed, NEW r \in Callers, NEW q \in Requests, Sound(conv', q), req' = [req EXCEPT ![r] = q],
         conv' \in [Convs -> Conversations], Kept(conv, conv'),
         cache' \in Caches, faults' \in Nat, past' \in Pasts
  PROVE  Typed'
<1>1. Shapes'
  BY DEF Typed, Shapes
<1>2. \A p \in Callers : Sound(conv', req'[p])
  <2> SUFFICES ASSUME NEW p \in Callers PROVE Sound(conv', req'[p])
    OBVIOUS
  <2>1. CASE p = r
    BY <2>1 DEF Typed, Shapes
  <2>2. CASE p # r
    <3>1. req'[p] = req[p] /\ Sound(conv, req[p]) /\ req[p] \in Requests
      BY <2>2 DEF Typed, Shapes
    <3> QED BY <3>1 DEF Sound, Kept, Invoking, Requests
  <2> QED BY <2>1, <2>2
<1> QED BY <1>1, <1>2 DEF Typed

LEMMA StateSet ==
  ASSUME Shapes, NEW c \in Convs, NEW st \in States \ {"none"}, SetState(c, st)
  PROVE  /\ conv' \in [Convs -> Conversations] /\ Kept(conv, conv')
         /\ \A d \in Convs : /\ conv'[d].state = (IF d = c THEN st ELSE conv[d].state)
                             /\ conv'[d].parent = conv[d].parent /\ conv'[d].invoked = conv[d].invoked
BY DEF Shapes, SetState, Conversations, Kept, States

\* Only the stack of a walk moves.
LEMMA StackMoves ==
  ASSUME Typed, NEW r \in Callers, req[r].pc = "walk", NEW t \in Seq(Frame), t # <<>>, OnStack(r, t),
         conv' \in [Convs -> Conversations], Kept(conv, conv'), UNCHANGED <<cache, faults>>, past' \in Pasts
  PROVE  Typed' /\ req'[r] = [req[r] EXCEPT !.stack = t]
<1> DEFINE q == [req[r] EXCEPT !.stack = t]
<1>1. req[r] \in Requests /\ Sound(conv, req[r])
  BY DEF Typed, Shapes
<1>2. q \in Requests /\ q.pc = "walk" /\ q.verb \notin {"invoke", "none"} /\ q.stack = t
  BY <1>1 DEF Requests, Sound, Invoking
<1>3. Sound(conv', q)
  BY <1>1, <1>2 DEF Sound, Invoking, Requests
<1>4. req' = [req EXCEPT ![r] = q] /\ req'[r] = q
  BY DEF OnStack, Typed, Shapes
<1> QED BY <1>2, <1>3, <1>4, RequestMoves DEF Typed, Shapes

\* A request ends.
LEMMA RequestEnds ==
  ASSUME Typed, NEW r \in Callers, req' = [req EXCEPT ![r] = Idle],
         UNCHANGED <<conv, cache>>, faults' \in Nat, past' \in Pasts
  PROVE  Typed'
BY IdleIsSound, RequestMoves DEF Typed, Shapes, Kept

\* What is planned for a walk, step by step.
LEMMA Plans ==
  /\ CloseTree \in Seq(Steps) /\ <<"list", "list">> \in Seq(Steps) /\ <<"close", "list">> \in Seq(Steps)
  /\ <<"list">> \in Seq(Steps) /\ <<"list", "delete">> \in Seq(Steps) /\ <<"close">> \in Seq(Steps)
  /\ \A c : Exceeded(c) \in Seq(Steps)
<1>1. /\ CloseTree \in Seq(Steps) /\ <<"list", "list">> \in Seq(Steps) /\ <<"close", "list">> \in Seq(Steps)
      /\ <<"list">> \in Seq(Steps) /\ <<"list", "delete">> \in Seq(Steps) /\ <<"close">> \in Seq(Steps)
  BY DEF CloseTree, Steps
<1>2. <<"list">> \o CloseTree \in Seq(Steps)
  BY <1>1, ConcatProperties
<1> QED BY <1>1, <1>2 DEF Exceeded

LEMMA ListedAreConvs == ASSUME Typed PROVE Listed.open \subseteq Convs /\ Listed.known \subseteq Convs
BY DEF Typed, Shapes, Caches, Listed, View, Opened

LEMMA InvokeStartsTyped ==
  ASSUME Typed, NEW r \in Callers, NEW c \in Convs, NEW e \in Entries, InvokeStarts(r, c, e)
  PROVE  Typed'
<1> DEFINE q == [Idle EXCEPT !.verb = "invoke", !.on = c, !.entry = e, !.pc = "look"]
           w == [Idle EXCEPT !.verb = "close", !.pc = "walk", !.stack = Walk(c, Exceeded(c))]
<1>1. q \in Requests /\ Sound(conv, q)
  <2>1. q \in Requests /\ q.pc = "look" /\ q.verb = "invoke" /\ q.on = c /\ q.stack = <<>>
    BY IdleIsSound DEF Requests, Verbs, Pcs, Names, Idle
  <2> QED BY <2>1 DEF Sound, Invoking, InvokeStarts, Opened
<1>2. w \in Requests /\ Sound(conv, w)
  BY WalkIsSound, Plans
<1>3. Kept(conv, conv') /\ conv' = conv
  BY DEF InvokeStarts, Kept
<1>4. past' \in Pasts
  BY DEF InvokeStarts, Typed, Shapes, Pasts
<1> QED BY <1>1, <1>2, <1>3, <1>4, RequestMoves DEF InvokeStarts, Typed, Shapes, spent

LEMMA WalkStartsTyped ==
  ASSUME Typed, NEW r \in Callers, NEW c \in Convs, NEW todo \in Seq(Steps),
         NEW verb \in {"close", "plain", "delete"}, Starts(r, verb, c, todo), UNCHANGED <<conv, cache, faults, past>>
  PROVE  Typed'
<1> DEFINE w == [Idle EXCEPT !.verb = verb, !.pc = "walk", !.stack = Walk(c, todo)]
<1>1. w \in Requests /\ Sound(conv, w)
  BY WalkIsSound
<1> QED BY <1>1, RequestMoves DEF Starts, Typed, Shapes, Kept

LEMMA InvokeLooksTyped == ASSUME Typed, NEW r \in Callers, InvokeLooks(r) PROVE Typed'
<1> DEFINE q == [req[r] EXCEPT !.pc = "create"]
<1>1. past' \in Pasts
  BY DEF InvokeLooks, Typed, Shapes, Pasts
<1>2. q \in Requests /\ Sound(conv, q)
  BY DEF InvokeLooks, Typed, Shapes, Requests, Pcs, Sound, Invoking
<1> QED BY <1>1, <1>2, RequestMoves, RequestEnds DEF InvokeLooks, Typed, Shapes, Kept, spent

LEMMA InvokeCreatesTyped == ASSUME Typed, NEW r \in Callers, InvokeCreates(r) PROVE Typed'
<1>1. PICK d \in Convs :
        /\ conv[d].state = "none"
        /\ conv' = [conv EXCEPT ![d] = [NoConv EXCEPT !.state = "open", !.parent = req[r].on, !.entry = req[r].entry]]
        /\ req' = [req EXCEPT ![r].pc = "bump", ![r].new = d]
  BY DEF InvokeCreates
<1> DEFINE q == [req[r] EXCEPT !.pc = "bump", !.new = d]
<1>2. req[r] \in Requests /\ Sound(conv, req[r]) /\ req[r].pc = "create" /\ req[r].on \in Convs
  BY DEF InvokeCreates, Typed, Shapes, Sound, Invoking
<1>3. /\ conv' \in [Convs -> Conversations] /\ Kept(conv, conv')
      /\ conv'[d].state = "open" /\ conv'[d].parent = req[r].on
  BY <1>1, <1>2 DEF Typed, Shapes, Conversations, Requests, NoConv, Names, States, Kept
<1>4. q \in Requests /\ q.pc = "bump" /\ q.new = d /\ q.on = req[r].on /\ q.verb = "invoke" /\ q.stack = req[r].stack
  BY <1>2 DEF Requests, Pcs, Sound, Invoking
<1>5. Sound(conv', q)
  BY <1>2, <1>3, <1>4 DEF Sound, Invoking, Kept
<1>6. past' \in Pasts
  BY <1>2 DEF InvokeCreates, Typed, Shapes, Pasts
<1>7. req' = [req EXCEPT ![r] = q]
  BY <1>1 DEF Typed, Shapes
<1> QED BY <1>3, <1>4, <1>5, <1>6, <1>7, RequestMoves DEF InvokeCreates, Typed, Shapes, spent

LEMMA InvokeCountsTyped == ASSUME Typed, NEW r \in Callers, InvokeCounts(r) PROVE Typed'
<1>1. past' \in Pasts
  BY DEF InvokeCounts, Typed, Shapes, Pasts
<1>2. CASE ~Present(req[r].on)
  BY <1>1, <1>2, RequestEnds DEF InvokeCounts, Typed, Shapes, spent
<1>3. CASE Present(req[r].on)
  <2> DEFINE q == [req[r] EXCEPT !.pc = "recheck"]
  <2>1. req[r] \in Requests /\ Sound(conv, req[r]) /\ req[r].pc = "bump" /\ req[r].on \in Convs
    BY DEF InvokeCounts, Typed, Shapes, Sound, Invoking
  <2>2. conv' \in [Convs -> Conversations] /\ Kept(conv, conv')
    BY <1>3, <2>1 DEF InvokeCounts, Typed, Shapes, Conversations, Kept
  <2>3. q \in Requests /\ q.pc = "recheck" /\ q.new = req[r].new /\ q.on = req[r].on /\ q.verb = "invoke" /\ q.stack = req[r].stack
    BY <2>1 DEF Requests, Pcs, Sound, Invoking
  <2>4. Sound(conv', q)
    BY <2>1, <2>2, <2>3 DEF Sound, Invoking, Kept
  <2>5. req' = [req EXCEPT ![r] = q]
    BY <1>3 DEF InvokeCounts, Typed, Shapes
  <2> QED BY <1>1, <2>2, <2>3, <2>4, <2>5, RequestMoves DEF InvokeCounts, Typed, Shapes, spent
<1> QED BY <1>2, <1>3

LEMMA InvokeRechecksTyped == ASSUME Typed, NEW r \in Callers, InvokeRechecks(r) PROVE Typed'
<1> DEFINE w == [Idle EXCEPT !.verb = "recheck", !.pc = "walk", !.stack = Walk(req[r].new, <<"close">>)]
<1>1. req[r].new \in Convs
  BY DEF InvokeRechecks, Typed, Sound
<1>2. w \in Requests /\ Sound(conv, w)
  BY <1>1, WalkIsSound, Plans
<1>3. past' \in Pasts
  BY DEF InvokeRechecks, Typed, Shapes, Pasts
<1> QED BY <1>2, <1>3, RequestMoves, RequestEnds DEF InvokeRechecks, Typed, Shapes, Kept, spent

LEMMA FailsTyped == ASSUME Typed, NEW r \in Callers, InvokeFails(r) \/ WalkFails(r) PROVE Typed'
<1>1. past' \in Pasts
  BY DEF InvokeFails, WalkFails, Typed, Shapes, Pasts
<1> QED BY <1>1, RequestEnds DEF InvokeFails, WalkFails, Fault, Typed, Shapes

-----------------------------------------------------------------------------
(* The steps of a walk. *)

LEMMA RestOf ==
  ASSUME NEW f \in Frame, f.todo # <<>>
  PROVE  /\ Rest(f) \in Frame /\ Rest(f).on = f.on /\ Rest(f).kids = f.kids
         /\ f.todo[1] = Head(f.todo) /\ 1 \in DOMAIN f.todo
         /\ \A k \in DOMAIN Rest(f).todo : k + 1 \in DOMAIN f.todo /\ Rest(f).todo[k] = f.todo[k + 1]
         /\ \A k \in DOMAIN f.todo : k > 1 => k - 1 \in DOMAIN Rest(f).todo /\ Rest(f).todo[k - 1] = f.todo[k]
<1> DEFINE t == Tail(f.todo)
<1>1. f.todo \in Seq(Steps)
  BY DEF Frame
<1>2. t \in Seq(Steps) /\ DOMAIN t = 1..(Len(f.todo) - 1) /\ \A k \in DOMAIN t : t[k] = f.todo[k + 1]
  BY <1>1, Popped
<1>3. Rest(f) = [f EXCEPT !.todo = t]
  BY DEF Rest
<1> HIDE DEF t
<1>4. Rest(f) \in Frame /\ Rest(f).on = f.on /\ Rest(f).kids = f.kids /\ Rest(f).todo = t
  BY <1>2, <1>3 DEF Frame
<1>5. f.todo[1] = Head(f.todo) /\ DOMAIN f.todo = 1..Len(f.todo) /\ Len(f.todo) \in Nat /\ 1 \in DOMAIN f.todo
  BY <1>1, TopOf
<1> QED BY <1>2, <1>4, <1>5

Listing(f, kids) == [f EXCEPT !.todo = <<"kids">> \o Tail(@), !.kids = kids]

LEMMA ListingOf ==
  ASSUME NEW f \in Frame, f.todo # <<>>, NEW kids \in SUBSET Convs
  PROVE  LET g == Listing(f, kids) IN
         /\ g \in Frame /\ g.on = f.on /\ g.kids = kids /\ g.todo # <<>>
         /\ DOMAIN g.todo = DOMAIN f.todo /\ g.todo[1] = "kids" /\ 1 \in DOMAIN f.todo
         /\ \A k \in DOMAIN f.todo : k > 1 => g.todo[k] = f.todo[k]
<1> DEFINE t == <<"kids">> \o Tail(f.todo)
<1>1. f.todo \in Seq(Steps) /\ "kids" \in Steps
  BY DEF Frame, Steps
<1>2. /\ t \in Seq(Steps) /\ t # <<>> /\ DOMAIN t = DOMAIN f.todo /\ t[1] = "kids"
      /\ \A k \in DOMAIN f.todo : k > 1 => t[k] = f.todo[k]
  BY <1>1, TopReplaced
<1>3. Listing(f, kids) = [f EXCEPT !.todo = t, !.kids = kids]
  BY DEF Listing
<1>4. 1 \in DOMAIN f.todo
  BY <1>1, TopOf
<1> HIDE DEF t
<1> QED BY <1>2, <1>3, <1>4 DEF Frame

\* The request that walks, and the frame it is at.
LEMMA Walking ==
  ASSUME Typed, NEW r \in Callers, req[r].pc = "walk"
  PROVE  /\ req[r] \in Requests /\ req[r].stack \in Seq(Frame) /\ req[r].stack # <<>>
         /\ Top(r) = req[r].stack[1] /\ Top(r) \in Frame /\ Top(r).on \in Convs
         /\ 1 \in DOMAIN req[r].stack /\ req[r].verb \in {"close", "plain", "recheck", "delete"}
<1>1. req[r] \in Requests /\ req[r].stack \in Seq(Frame) /\ req[r].stack # <<>>
  BY DEF Typed, Shapes, Sound, Requests
<1>2. Top(r) = req[r].stack[1] /\ Top(r) \in Frame /\ 1 \in DOMAIN req[r].stack
  BY <1>1, TopOf DEF Top
<1>3. req[r].verb # "invoke" /\ req[r].verb # "none"
  BY <1>1 DEF Typed, Sound, Invoking, Requests, Idle
<1> QED BY <1>1, <1>2, <1>3 DEF Frame, Requests, Verbs

\* Only the frame at the top is another.
TopBecomes(r, g) ==
  /\ req'[r] = [req[r] EXCEPT !.stack = <<g>> \o Tail(req[r].stack)]
  /\ DOMAIN req'[r].stack = DOMAIN req[r].stack /\ req'[r].stack[1] = g
  /\ \A i \in DOMAIN req[r].stack : i > 1 => req'[r].stack[i] = req[r].stack[i]

LEMMA TopMoves ==
  ASSUME Typed, NEW r \in Callers, req[r].pc = "walk", NEW g \in Frame, OnStack(r, <<g>> \o Tail(req[r].stack)),
         conv' \in [Convs -> Conversations], Kept(conv, conv'), UNCHANGED <<cache, faults>>, past' \in Pasts
  PROVE  Typed' /\ TopBecomes(r, g)
<1> DEFINE s == req[r].stack
           t == <<g>> \o Tail(s)
<1>1. s \in Seq(Frame) /\ s # <<>> /\ req[r] \in Requests
  BY Walking
<1>2. t \in Seq(Frame) /\ t # <<>> /\ DOMAIN t = DOMAIN s /\ t[1] = g /\ \A i \in DOMAIN s : i > 1 => t[i] = s[i]
  BY <1>1, TopReplaced
<1> HIDE DEF t
<1>3. OnStack(r, t)
  BY DEF t
<1>4. Typed' /\ req'[r] = [req[r] EXCEPT !.stack = t]
  BY <1>2, <1>3, StackMoves
<1>5. req'[r].stack = t
  BY <1>1, <1>4 DEF Requests
<1> QED BY <1>2, <1>4, <1>5 DEF TopBecomes, t

LEMMA WalkListsTyped ==
  ASSUME Typed, NEW r \in Callers, WalkLists(r)
  PROVE  LET kids == IF req[r].verb = "delete" THEN Members(Top(r).on) ELSE Members(Top(r).on) \cap Listed.open IN
         Typed' /\ Top(r).todo # <<>> /\ kids \in SUBSET Convs /\ TopBecomes(r, Listing(Top(r), kids))
<1> DEFINE kids == IF req[r].verb = "delete" THEN Members(Top(r).on) ELSE Members(Top(r).on) \cap Listed.open
<1>1. req[r].pc = "walk" /\ Top(r).todo # <<>> /\ Top(r) \in Frame
  BY Walking DEF WalkLists, Going
<1>2. kids \in SUBSET Convs
  BY ListedAreConvs DEF Members
<1>3. Listing(Top(r), kids) \in Frame
  BY <1>1, <1>2, ListingOf
<1>4. past' \in Pasts
  BY DEF WalkLists, Typed, Shapes, Pasts
<1>5. OnStack(r, <<Listing(Top(r), kids)>> \o Tail(req[r].stack))
  BY DEF WalkLists, Listing
<1> HIDE DEF kids
<1>6. UNCHANGED <<conv, cache, faults>>
  BY DEF WalkLists, spent
<1>7. Typed' /\ TopBecomes(r, Listing(Top(r), kids))
  BY <1>1, <1>3, <1>4, <1>5, <1>6, TopMoves DEF Kept, Typed, Shapes
<1> QED BY <1>1, <1>2, <1>7 DEF kids

LEMMA WalkDescendsTyped ==
  ASSUME Typed, NEW r \in Callers, WalkDescends(r)
  PROVE  /\ Typed' /\ req[r].pc = "walk" /\ Top(r).todo # <<>> /\ Head(Top(r).todo) = "kids"
         /\ \/ Top(r).kids = {} /\ TopBecomes(r, Rest(Top(r)))
            \/ \E d \in Top(r).kids :
                 LET todo == IF req[r].verb = "delete" THEN <<"list", "delete">> ELSE CloseTree
                     g == [on |-> d, todo |-> todo, kids |-> {}]
                     f == [Top(r) EXCEPT !.kids = @ \ {d}]
                     t == <<g>> \o <<f>> \o Tail(req[r].stack) IN
                 /\ d \in Convs /\ todo \in Seq(Steps) /\ g \in Frame /\ f \in Frame
                 /\ req'[r] = [req[r] EXCEPT !.stack = t]
                 /\ DOMAIN t = 1..(Len(req[r].stack) + 1) /\ t[1] = g /\ t[2] = f
                 /\ \A i \in DOMAIN t : i > 2 => t[i] = req[r].stack[i - 1]
<1>1. req[r].pc = "walk" /\ Top(r).todo # <<>> /\ Head(Top(r).todo) = "kids" /\ Top(r) \in Frame
  BY Walking DEF WalkDescends, Going
<1>2. /\ UNCHANGED <<conv, cache, faults, past>> /\ conv' \in [Convs -> Conversations]
      /\ Kept(conv, conv') /\ past' \in Pasts
  BY DEF WalkDescends, spent, Typed, Shapes, Kept
<1>3. CASE Top(r).kids = {}
  <2>1. Rest(Top(r)) \in Frame /\ OnStack(r, <<Rest(Top(r))>> \o Tail(req[r].stack))
    BY <1>1, <1>3, RestOf DEF WalkDescends
  <2>2. Typed' /\ TopBecomes(r, Rest(Top(r)))
    BY <1>1, <1>2, <2>1, TopMoves
  <2> QED BY <1>1, <1>3, <2>2
<1>4. CASE Top(r).kids # {}
  <2> DEFINE todo == IF req[r].verb = "delete" THEN <<"list", "delete">> ELSE CloseTree
             s == req[r].stack
  <2>1. PICK d \in Top(r).kids : OnStack(r, Walk(d, todo) \o <<[Top(r) EXCEPT !.kids = @ \ {d}]>> \o Tail(s))
    BY <1>4 DEF WalkDescends
  <2> DEFINE g == [on |-> d, todo |-> todo, kids |-> {}]
             f == [Top(r) EXCEPT !.kids = @ \ {d}]
             t == <<g>> \o <<f>> \o Tail(s)
  <2>2. todo \in Seq(Steps)
    BY Plans
  <2>3. d \in Convs /\ g \in Frame /\ f \in Frame
    BY <1>1, <2>2 DEF Frame
  <2>4. OnStack(r, t)
    BY <2>1 DEF Walk
  <2>5. s \in Seq(Frame) /\ s # <<>> /\ req[r] \in Requests
    BY <1>1, Walking
  <2> HIDE DEF g, f
  <2>6. /\ t \in Seq(Frame) /\ t # <<>> /\ DOMAIN t = 1..(Len(s) + 1) /\ t[1] = g /\ t[2] = f
        /\ \A i \in DOMAIN t : i > 2 => t[i] = s[i - 1]
    BY <2>3, <2>5, Pushed
  <2> HIDE DEF t
  <2>7. Typed' /\ req'[r] = [req[r] EXCEPT !.stack = t]
    BY <1>1, <1>2, <2>4, <2>6, StackMoves
  <2> QED BY <1>1, <2>2, <2>3, <2>6, <2>7 DEF g, f, t
<1> QED BY <1>3, <1>4

LEMMA WalkClosesTyped ==
  ASSUME Typed, NEW r \in Callers, WalkCloses(r) \/ WalkDeletes(r)
  PROVE  /\ Typed' /\ req[r].pc = "walk" /\ Top(r).todo # <<>> /\ TopBecomes(r, Rest(Top(r)))
         /\ Kept(conv, conv')
         /\ \A d \in Convs : /\ conv'[d].parent = conv[d].parent /\ conv'[d].invoked = conv[d].invoked
                             /\ d # Top(r).on => conv'[d].state = conv[d].state
         /\ WalkCloses(r) => conv'[Top(r).on].state = (IF conv[Top(r).on].state = "open" THEN "closed" ELSE conv[Top(r).on].state)
         /\ WalkDeletes(r) => conv'[Top(r).on].state = (IF Present(Top(r).on) THEN "deleted" ELSE conv[Top(r).on].state)
<1>1. req[r].pc = "walk" /\ Top(r).todo # <<>> /\ Top(r) \in Frame /\ Top(r).on \in Convs
  BY Walking DEF WalkCloses, WalkDeletes, Going
<1>2. /\ conv' \in [Convs -> Conversations] /\ Kept(conv, conv')
      /\ \A d \in Convs : /\ conv'[d].parent = conv[d].parent /\ conv'[d].invoked = conv[d].invoked
                          /\ d # Top(r).on => conv'[d].state = conv[d].state
      /\ WalkCloses(r) => conv'[Top(r).on].state = (IF conv[Top(r).on].state = "open" THEN "closed" ELSE conv[Top(r).on].state)
      /\ WalkDeletes(r) => conv'[Top(r).on].state = (IF Present(Top(r).on) THEN "deleted" ELSE conv[Top(r).on].state)
  <2>1. CASE conv' = conv
    <3>1. WalkCloses(r) => conv[Top(r).on].state # "open"
      BY <1>1, <2>1, StateSet DEF WalkCloses, Typed, States
    <3>2. WalkDeletes(r) => ~Present(Top(r).on)
      BY <1>1, <2>1, StateSet DEF WalkDeletes, Typed, States, Present
    <3> QED BY <2>1, <3>1, <3>2 DEF Kept, Typed, Shapes
  <2>2. CASE WalkCloses(r) /\ conv' # conv
    <3>1. SetState(Top(r).on, "closed") /\ conv[Top(r).on].state = "open"
      BY <2>2 DEF WalkCloses
    <3>2. ~WalkDeletes(r)
      BY <2>2 DEF WalkCloses, WalkDeletes, Going
    <3> QED BY <1>1, <3>1, <3>2, StateSet DEF Typed, States
  <2>3. CASE WalkDeletes(r) /\ conv' # conv
    <3>1. SetState(Top(r).on, "deleted") /\ Present(Top(r).on)
      BY <2>3 DEF WalkDeletes
    <3>2. ~WalkCloses(r)
      BY <2>3 DEF WalkCloses, WalkDeletes, Going
    <3> QED BY <1>1, <3>1, <3>2, StateSet DEF Typed, States
  <2> QED BY <2>1, <2>2, <2>3
<1>3. Rest(Top(r)) \in Frame /\ OnStack(r, <<Rest(Top(r))>> \o Tail(req[r].stack))
  BY <1>1, RestOf DEF WalkCloses, WalkDeletes
<1>4. past' \in Pasts /\ UNCHANGED <<cache, faults>>
  BY DEF WalkCloses, WalkDeletes, Typed, Shapes, Pasts, spent
<1>5. Typed' /\ TopBecomes(r, Rest(Top(r)))
  BY <1>1, <1>2, <1>3, <1>4, TopMoves
<1> QED BY <1>1, <1>2, <1>5

LEMMA WalkAscendsTyped ==
  ASSUME Typed, NEW r \in Callers, WalkAscends(r)
  PROVE  /\ Typed' /\ req[r].pc = "walk" /\ Top(r).todo = <<>>
         /\ \/ Len(req[r].stack) = 1 /\ req'[r] = Idle
            \/ /\ req'[r] = [req[r] EXCEPT !.stack = Tail(req[r].stack)]
               /\ DOMAIN req'[r].stack = 1..(Len(req[r].stack) - 1)
               /\ \A i \in DOMAIN req'[r].stack : i + 1 \in DOMAIN req[r].stack /\ req'[r].stack[i] = req[r].stack[i + 1]
<1> DEFINE s == req[r].stack
           t == Tail(s)
<1>1. req[r].pc = "walk" /\ Top(r).todo = <<>> /\ s \in Seq(Frame) /\ s # <<>> /\ req[r] \in Requests
  BY Walking DEF WalkAscends
<1>2. /\ UNCHANGED <<conv, cache, faults, past>> /\ conv' \in [Convs -> Conversations]
      /\ Kept(conv, conv') /\ past' \in Pasts
  BY DEF WalkAscends, spent, Typed, Shapes, Kept
<1>3. CASE Len(s) = 1
  <2>1. req' = [req EXCEPT ![r] = Idle]
    BY <1>3 DEF WalkAscends
  <2> QED BY <1>1, <1>2, <1>3, <2>1, RequestEnds DEF Typed, Shapes
<1>4. CASE Len(s) # 1
  <2>1. /\ t \in Seq(Frame) /\ t # <<>> /\ DOMAIN t = 1..(Len(s) - 1) /\ Len(s) \in Nat
        /\ \A i \in DOMAIN t : i + 1 \in DOMAIN s /\ t[i] = s[i + 1]
    BY <1>1, <1>4, Popped, TopOf
  <2>2. OnStack(r, t)
    BY <1>4 DEF WalkAscends
  <2> HIDE DEF t
  <2>3. Typed' /\ req'[r] = [req[r] EXCEPT !.stack = t]
    BY <1>1, <1>2, <2>1, <2>2, StackMoves
  <2>4. req'[r].stack = t
    BY <1>1, <2>3 DEF Requests
  <2> QED BY <1>1, <2>1, <2>3, <2>4 DEF t
<1> QED BY <1>3, <1>4

-----------------------------------------------------------------------------
(* Every variable keeps its shape, and nobody leaves the root's place. *)

LEMMA RootIsOne == Root \in Convs /\ \A c \in Convs : Root <= c
<1>1. Convs \subseteq Nat /\ Convs # {}
  BY CoordinationBounds
<1>2. PICK c \in Convs : \A d \in Convs : ~(<<d, c>> \in OpToRel(<, Nat))
  BY <1>1, NatLessThanWellFounded, WFMin
<1>3. \A d \in Convs : c <= d
  <2> SUFFICES ASSUME NEW d \in Convs, ~(c <= d) PROVE FALSE
    OBVIOUS
  <2>1. c \in Nat /\ d \in Nat /\ d < c
    BY <1>1
  <2>2. <<d, c>> \in OpToRel(<, Nat)
    BY <2>1 DEF OpToRel
  <2> QED BY <1>2, <2>2
<1> QED BY <1>3 DEF Root

LEMMA ReopenTyped == ASSUME Typed, Reopen PROVE Typed'
<1>1. conv' \in [Convs -> Conversations] /\ Kept(conv, conv')
  BY RootIsOne, StateSet DEF Reopen, Typed, States
<1>2. past' \in Pasts
  BY DEF Reopen, Typed, Shapes, Pasts
<1>3. \A r \in Callers : Sound(conv', req[r])
  BY <1>1 DEF Typed, Shapes, Sound, Kept, Invoking, Requests
<1> QED BY <1>1, <1>2, <1>3 DEF Reopen, Typed, Shapes

LEMMA CacheTyped == ASSUME Typed, CacheFallsBehind \/ CacheSyncs \/ UNCHANGED vars PROVE Typed'
<1>1. View \in Caches /\ Current \in Caches
  BY DEF View, Current, Caches, Opened
<1> QED BY <1>1 DEF CacheFallsBehind, CacheSyncs, Fault, vars, spent, Typed, Shapes

LEMMA TypedNext == Typed /\ [Next]_vars => Typed'
<1> SUFFICES ASSUME Typed, [Next]_vars PROVE Typed'
  OBVIOUS
<1>1. CASE \E r \in Callers, c \in Convs, e \in Entries : InvokeStarts(r, c, e)
  BY <1>1, InvokeStartsTyped
<1>2. CASE \E r \in Callers : Invokes(r) \/ InvokeFails(r) \/ WalkFails(r)
  BY <1>2, InvokeLooksTyped, InvokeCreatesTyped, InvokeCountsTyped, InvokeRechecksTyped, FailsTyped DEF Invokes
<1>3. CASE \E r \in Callers : Walks(r)
  BY <1>3, WalkListsTyped, WalkDescendsTyped, WalkClosesTyped, WalkAscendsTyped DEF Walks
<1>4. ASSUME NEW r \in Callers, NEW c \in Convs, CloseStarts(r, c) \/ DeadlinePasses(r, c)
      PROVE  Typed'
  BY <1>4, WalkStartsTyped, Plans DEF CloseStarts, DeadlinePasses
<1>5. ASSUME NEW r \in Callers, PlainCloseStarts(r, Root) \/ DeleteStarts(r)
      PROVE  Typed'
  BY <1>5, WalkStartsTyped, Plans, RootIsOne DEF PlainCloseStarts, DeleteStarts
<1>6. CASE Reopen
  BY <1>6, ReopenTyped
<1>7. CASE CacheFallsBehind \/ CacheSyncs \/ UNCHANGED vars
  BY <1>7, CacheTyped
<1> QED BY <1>1, <1>2, <1>3, <1>4, <1>5, <1>6, <1>7 DEF Next

LEMMA TypedInit == Init => Typed
<1> SUFFICES ASSUME Init PROVE Typed
  OBVIOUS
<1>1. conv \in [Convs -> Conversations]
  BY DEF Init, NoConv, Conversations, Names, States
<1>2. req \in [Callers -> Requests] /\ \A r \in Callers : Sound(conv, req[r])
  BY IdleIsSound DEF Init
<1>3. past \in Pasts /\ cache \in Caches
  BY DEF Init, Pasts, Current, Caches
<1> QED BY <1>1, <1>2, <1>3 DEF Init, Typed, Shapes

-----------------------------------------------------------------------------
(* The budget. *)

At(c, pcs) == \E r \in Callers : req[r].on = c /\ req[r].pc \in pcs

\* What a caller has made is what it has counted, and what failed calls and an invoke
\* under way have made besides; an invoke under way has room for one more.
Room(c) ==
  /\ past.made[c] <= MaxAgents + faults
  /\ conv[c].state = "none" => past.made[c] = 0 /\ conv[c].invoked = 0
  /\ At(c, {"look", "create"}) => conv[c].invoked < MaxAgents /\ past.made[c] <= conv[c].invoked + faults
  /\ At(c, {"bump"}) => conv[c].invoked < MaxAgents /\ past.made[c] <= conv[c].invoked + 1 + faults
  /\ Present(c) /\ ~At(c, {"look", "create", "bump"}) =>
       conv[c].invoked <= MaxAgents /\ past.made[c] <= conv[c].invoked + faults

OneInvoke ==
  \A r, q \in Callers : Invoking(req[r]) /\ Invoking(req[q]) /\ req[r].on = req[q].on => r = q

Budget == past.overlapped \/ (OneInvoke /\ \A c \in Coordinators : Room(c))

LEMMA Numbers ==
  ASSUME Typed
  PROVE  /\ MaxAgents \in Nat /\ faults \in Nat /\ Coordinators \subseteq Convs
         /\ \A c \in Convs : past.made[c] \in Nat /\ conv[c].invoked \in Nat
BY CoordinationBounds DEF Typed, Shapes, Conversations, Pasts

\* Steps that touch no invoke, no count and no place that is not taken.
LEMMA BudgetKept ==
  ASSUME Typed, Budget, Typed', past'.made = past.made, past'.overlapped = past.overlapped, faults <= faults',
         \A c \in Convs : /\ conv'[c].invoked = conv[c].invoked
                          /\ conv'[c].state = "none" <=> conv[c].state = "none"
                          /\ Present(c)' => Present(c),
         \A r \in Callers : Invoking(req[r]) \/ Invoking(req'[r]) => req'[r] = req[r]
  PROVE  Budget'
<1> SUFFICES ASSUME ~past.overlapped PROVE OneInvoke' /\ \A c \in Coordinators : Room(c)'
  BY DEF Budget
<1>1. OneInvoke'
  BY DEF Budget, OneInvoke
<1>2. ASSUME NEW c \in Coordinators PROVE Room(c)'
  <2>1. c \in Convs /\ MaxAgents \in Nat /\ faults \in Nat /\ faults' \in Nat /\ Room(c)
        /\ past.made[c] \in Nat /\ conv[c].invoked \in Nat
    BY Numbers, Typed' DEF Budget, Typed, Shapes
  <2>2. \A pcs \in SUBSET {"look", "create", "bump", "recheck"} : At(c, pcs)' <=> At(c, pcs)
    BY DEF At, Invoking
  <2>3. /\ At(c, {"look", "create"})' <=> At(c, {"look", "create"})
        /\ At(c, {"bump"})' <=> At(c, {"bump"})
        /\ At(c, {"look", "create", "bump"})' <=> At(c, {"look", "create", "bump"})
    BY <2>2
  <2> QED BY <2>1, <2>3 DEF Room
<1> QED BY <1>1, <1>2

\* A step of one request is nothing to those it is not on.
LEMMA OthersRoom ==
  ASSUME Typed, Typed', NEW r \in Callers, NEW c \in Coordinators, Room(c),
         ~(Invoking(req[r]) /\ req[r].on = c), ~(Invoking(req'[r]) /\ req'[r].on = c),
         \A p \in Callers \ {r} : req'[p] = req[p],
         past'.made[c] = past.made[c], conv'[c].invoked = conv[c].invoked, faults <= faults',
         conv'[c].state = "none" => conv[c].state = "none", Present(c)' => Present(c)
  PROVE  Room(c)'
<1>1. c \in Convs /\ MaxAgents \in Nat /\ faults \in Nat /\ faults' \in Nat
      /\ past.made[c] \in Nat /\ conv[c].invoked \in Nat
  BY Numbers DEF Typed, Shapes
<1>2. \A pcs \in SUBSET {"look", "create", "bump", "recheck"} : At(c, pcs)' <=> At(c, pcs)
  BY DEF At, Invoking
<1>3. /\ At(c, {"look", "create"})' <=> At(c, {"look", "create"})
      /\ At(c, {"bump"})' <=> At(c, {"bump"})
      /\ At(c, {"look", "create", "bump"})' <=> At(c, {"look", "create", "bump"})
  BY <1>2
<1> QED BY <1>1, <1>3 DEF Room

\* Who is on a caller alone is all that is at it.
LEMMA AloneAt ==
  ASSUME OneInvoke, NEW r \in Callers, Invoking(req[r])
  PROVE  \A pcs \in SUBSET {"look", "create", "bump", "recheck"} : At(req[r].on, pcs) <=> req[r].pc \in pcs
BY DEF OneInvoke, At, Invoking

LEMMA NobodyAt ==
  ASSUME NEW c, ~\E r \in Callers : Invoking(req[r]) /\ req[r].on = c
  PROVE  \A pcs \in SUBSET {"look", "create", "bump", "recheck"} : ~At(c, pcs)
BY DEF At, Invoking

LEMMA InvokeStartsBudget ==
  ASSUME Typed, Typed', Budget, NEW r \in Callers, NEW c \in Convs, NEW e \in Entries, InvokeStarts(r, c, e)
  PROVE  Budget'
<1>1. req[r] = Idle /\ Present(c) /\ UNCHANGED <<conv, faults>> /\ req \in [Callers -> Requests] /\ past \in Pasts
  BY DEF InvokeStarts, Opened, Present, spent, Typed, Shapes
<1>2. ~Invoking(req[r])
  BY <1>1 DEF Invoking, Idle
<1>3. CASE ~BudgetSpent(c)
  <2>1. /\ Invoking(req'[r]) /\ req'[r].on = c /\ req'[r].pc = "look"
        /\ \A p \in Callers \ {r} : req'[p] = req[p]
    <3> DEFINE q == [Idle EXCEPT !.verb = "invoke", !.on = c, !.entry = e, !.pc = "look"]
    <3>1. req' = [req EXCEPT ![r] = q]
      BY <1>3 DEF InvokeStarts
    <3>2. q.pc = "look" /\ q.on = c
      BY DEF Idle
    <3> HIDE DEF q
    <3>3. req'[r] = q /\ \A p \in Callers \ {r} : req'[p] = req[p]
      BY <1>1, <3>1
    <3> QED BY <3>2, <3>3 DEF Invoking
  <2>2. past'.overlapped <=> (past.overlapped \/ \E q \in Callers : req[q].verb = "invoke" /\ req[q].on = c)
    BY <1>1, <1>3 DEF InvokeStarts, Pasts
  <2>3. past'.made = past.made
    BY <1>1, <1>3 DEF InvokeStarts, Pasts
  <2> SUFFICES ASSUME ~past'.overlapped PROVE OneInvoke' /\ \A d \in Coordinators : Room(d)'
    BY DEF Budget
  <2>4. ~past.overlapped /\ OneInvoke /\ ~\E q \in Callers : Invoking(req[q]) /\ req[q].on = c
    BY <2>2 DEF Budget, Typed, Sound
  <2>5. OneInvoke'
    BY <1>2, <2>1, <2>4 DEF OneInvoke
  <2>6. ASSUME NEW d \in Coordinators PROVE Room(d)'
    <3>1. Room(d) /\ d \in Convs
      BY <2>4, Numbers DEF Budget
    <3>2. CASE d # c
      BY <1>1, <1>2, <2>1, <2>3, <3>1, <3>2, Numbers, OthersRoom DEF Present
    <3>3. CASE d = c
      <4>1. conv[c].invoked < MaxAgents /\ past.made[c] <= conv[c].invoked + faults
        <5>1. ~At(c, {"look", "create", "bump"})
          BY <2>4, NobodyAt
        <5> QED BY <1>1, <1>3, <3>1, <3>3, <5>1, Numbers DEF Room, BudgetSpent
      <4>2. /\ At(c, {"look", "create"})' /\ At(c, {"look", "create", "bump"})' /\ ~At(c, {"bump"})'
        <5>1. req'[r].pc \in {"look", "create"} /\ req'[r].pc \in {"look", "create", "bump"} /\ req'[r].pc \notin {"bump"}
          BY <2>1
        <5>2. \A p \in Callers \ {r} : ~(req'[p].on = c /\ req'[p].pc \in {"bump"})
          BY <2>1, <2>4 DEF Invoking
        <5> QED BY <2>1, <5>1, <5>2 DEF At
      <4> QED BY <1>1, <2>3, <3>1, <3>3, <4>1, <4>2, Numbers DEF Room, Present
    <3> QED BY <3>2, <3>3
  <2> QED BY <2>5, <2>6
<1>4. CASE BudgetSpent(c)
  <2>1. /\ ~Invoking(req'[r]) /\ \A p \in Callers \ {r} : req'[p] = req[p]
        /\ past' = past
    <3> DEFINE q == [Idle EXCEPT !.verb = "close", !.pc = "walk", !.stack = Walk(c, Exceeded(c))]
    <3>1. req' = [req EXCEPT ![r] = q] /\ past' = past
      BY <1>4 DEF InvokeStarts
    <3>2. q.pc = "walk"
      BY DEF Idle
    <3> HIDE DEF q
    <3>3. req'[r] = q /\ \A p \in Callers \ {r} : req'[p] = req[p]
      BY <1>1, <3>1
    <3> QED BY <3>1, <3>2, <3>3 DEF Invoking
  <2> QED BY <1>1, <1>2, <2>1, Numbers, BudgetKept DEF Present
<1> QED BY <1>3, <1>4

\* Where nothing has been made, there is room unless none is allowed.
LEMMA NothingMade ==
  ASSUME Typed, Typed', NEW c \in Convs, Room(c), past.made[c] = 0, conv[c].invoked = 0,
         past'.made[c] = 0, conv'[c].invoked = 0,
         At(c, {"look", "create"})' => At(c, {"look", "create"}), At(c, {"bump"})' => At(c, {"bump"})
  PROVE  Room(c)'
<1>1. MaxAgents \in Nat /\ faults' \in Nat
  BY Numbers DEF Typed, Shapes
<1>2. At(c, {"look", "create"}) \/ At(c, {"bump"}) => 0 < MaxAgents
  BY DEF Room
<1>3. /\ past'.made[c] <= MaxAgents + faults' /\ past'.made[c] <= conv'[c].invoked + faults'
      /\ past'.made[c] <= conv'[c].invoked + 1 + faults' /\ conv'[c].invoked <= MaxAgents
  <2>1. PICK n \in Nat : n = faults'
    BY <1>1
  <2>2. 0 <= MaxAgents + n /\ 0 <= 0 + n /\ 0 <= 0 + 1 + n /\ 0 <= MaxAgents
    BY <1>1
  <2> QED BY <2>1, <2>2
<1>4. At(c, {"look", "create"})' \/ At(c, {"bump"})' => conv'[c].invoked < MaxAgents
  BY <1>2
<1> QED BY <1>3, <1>4 DEF Room

\* What a step of an invoke has to show.
LEMMA InvokeBudget ==
  ASSUME Typed, Typed', Budget, NEW r \in Callers, Invoking(req[r]), past'.overlapped = past.overlapped,
         Invoking(req'[r]) => req'[r].on = req[r].on, \A p \in Callers \ {r} : req'[p] = req[p],
         faults <= faults',
         \A c \in Coordinators \ {req[r].on} :
           /\ past'.made[c] = past.made[c] /\ (Room(c) => conv'[c].invoked = conv[c].invoked)
           /\ conv'[c].state = "none" => conv[c].state = "none"
           /\ \/ Present(c)' => Present(c)
              \/ Room(c) => past.made[c] = 0 /\ conv[c].invoked = 0,
         conv'[req[r].on].state # "none",
         ~past.overlapped /\ req[r].on \in Coordinators =>
           LET c == req[r].on
               pc == req'[r].pc IN
           Room(c) =>
             /\ past'.made[c] <= MaxAgents + faults'
             /\ pc \in {"look", "create"} => conv'[c].invoked < MaxAgents /\ past'.made[c] <= conv'[c].invoked + faults'
             /\ pc = "bump" => conv'[c].invoked < MaxAgents /\ past'.made[c] <= conv'[c].invoked + 1 + faults'
             /\ conv'[c].state \in {"open", "closed"} /\ pc \notin {"look", "create", "bump"} =>
                  conv'[c].invoked <= MaxAgents /\ past'.made[c] <= conv'[c].invoked + faults'
  PROVE  Budget'
<1> SUFFICES ASSUME ~past.overlapped PROVE OneInvoke' /\ \A d \in Coordinators : Room(d)'
  BY DEF Budget
<1>1. OneInvoke
  BY DEF Budget
<1>2. OneInvoke'
  BY <1>1 DEF OneInvoke
<1>3. ASSUME NEW d \in Coordinators PROVE Room(d)'
  <2>1. Room(d) /\ d \in Convs
    BY Numbers DEF Budget
  <2>2. CASE d # req[r].on
    <3>1. CASE Present(d)' => Present(d)
      BY <2>1, <2>2, <3>1, OthersRoom
    <3>2. CASE Room(d) => past.made[d] = 0 /\ conv[d].invoked = 0
      <4>1. past.made[d] = 0 /\ conv[d].invoked = 0 /\ past'.made[d] = 0 /\ conv'[d].invoked = 0
        BY <2>1, <2>2, <3>2
      <4>2. /\ At(d, {"look", "create"})' => At(d, {"look", "create"})
            /\ At(d, {"bump"})' => At(d, {"bump"})
        BY <2>2 DEF At, Invoking
      <4> QED BY <2>1, <4>1, <4>2, NothingMade
    <3> QED BY <2>1, <2>2, <3>1, <3>2
  <2>3. CASE d = req[r].on
    <3>1. /\ \A p \in Callers \ {r} : ~(req'[p].on = d /\ Invoking(req'[p]))
          /\ Invoking(req'[r]) => req'[r].on = d
      BY <1>1, <2>3 DEF OneInvoke
    <3>2. /\ At(d, {"look", "create"})' <=> req'[r].pc \in {"look", "create"}
          /\ At(d, {"bump"})' <=> req'[r].pc = "bump"
          /\ At(d, {"look", "create", "bump"})' <=> req'[r].pc \in {"look", "create", "bump"}
      BY <3>1 DEF At, Invoking
    <3> QED BY <2>1, <2>3, <3>2 DEF Room, Present
  <2> QED BY <2>2, <2>3
<1> QED BY <1>2, <1>3

\* What an invoke's step leaves of its request.
LEMMA InvokeAt ==
  ASSUME Typed, NEW r \in Callers, req[r].pc \in {"look", "create", "bump", "recheck"}
  PROVE  /\ Invoking(req[r]) /\ req[r] \in Requests /\ req[r].on \in Convs /\ conv[req[r].on].state # "none"
         /\ \A pcs \in SUBSET {"look", "create", "bump", "recheck"} : req[r].pc \in pcs => At(req[r].on, pcs)
BY DEF Typed, Shapes, Sound, Invoking, At

\* What is said of the caller an invoke is on.
LEMMA RoomAt ==
  ASSUME Typed, NEW r \in Callers, Invoking(req[r]), OneInvoke, req[r].on \in Coordinators, Room(req[r].on)
  PROVE  LET c == req[r].on IN
         /\ past.made[c] \in Nat /\ conv[c].invoked \in Nat /\ MaxAgents \in Nat /\ faults \in Nat
         /\ past.made[c] <= MaxAgents + faults
         /\ req[r].pc \in {"look", "create"} => conv[c].invoked < MaxAgents /\ past.made[c] <= conv[c].invoked + faults
         /\ req[r].pc = "bump" => conv[c].invoked < MaxAgents /\ past.made[c] <= conv[c].invoked + 1 + faults
         /\ Present(c) /\ req[r].pc = "recheck" => conv[c].invoked <= MaxAgents /\ past.made[c] <= conv[c].invoked + faults
<1> DEFINE c == req[r].on
<1>1. /\ At(c, {"look", "create"}) <=> req[r].pc \in {"look", "create"}
      /\ At(c, {"bump"}) <=> req[r].pc = "bump"
      /\ At(c, {"look", "create", "bump"}) <=> req[r].pc \in {"look", "create", "bump"}
  BY AloneAt
<1>2. past.made[c] \in Nat /\ conv[c].invoked \in Nat /\ MaxAgents \in Nat /\ faults \in Nat
  BY Numbers
<1> QED BY <1>1, <1>2 DEF Room

LEMMA InvokeLooksBudget ==
  ASSUME Typed, Typed', Budget, NEW r \in Callers, InvokeLooks(r) \/ InvokeRechecks(r)
  PROVE  Budget'
<1>1. req[r].pc \in {"look", "recheck"} /\ UNCHANGED <<conv, faults>>
  BY DEF InvokeLooks, InvokeRechecks, spent
<1>2. Invoking(req[r]) /\ req[r] \in Requests /\ req[r].on \in Convs /\ conv[req[r].on].state # "none"
  BY <1>1, InvokeAt
<1>3. past'.made = past.made /\ past'.overlapped = past.overlapped
  BY DEF InvokeLooks, InvokeRechecks, Typed, Shapes, Pasts
<1>4. \A p \in Callers \ {r} : req'[p] = req[p]
  BY DEF InvokeLooks, InvokeRechecks, Typed, Shapes
<1>5. CASE InvokeLooks(r)
  <2>1. Invoking(req'[r]) => req'[r].on = req[r].on /\ req'[r].pc = "create"
    BY <1>2, <1>5 DEF InvokeLooks, Typed, Shapes, Requests, Idle, Invoking
  <2>2. req[r].pc = "look"
    BY <1>5 DEF InvokeLooks
  <2>3. req'[r].pc \in {"look", "create", "bump"} => req'[r].pc = "create"
    BY <2>1 DEF Invoking
  <2> QED BY <1>1, <1>2, <1>3, <1>4, <2>1, <2>2, <2>3, Numbers, RoomAt, InvokeBudget DEF Budget, Present
<1>6. CASE InvokeRechecks(r)
  <2>1. ~Invoking(req'[r])
    BY <1>6 DEF InvokeRechecks, Typed, Shapes, Idle, Invoking
  <2>2. req[r].pc = "recheck"
    BY <1>6 DEF InvokeRechecks
  <2>3. req'[r].pc \notin {"look", "create", "bump"}
    BY <2>1 DEF Invoking
  <2> QED BY <1>1, <1>2, <1>3, <1>4, <2>1, <2>2, <2>3, Numbers, RoomAt, InvokeBudget DEF Budget, Present
<1> QED BY <1>5, <1>6 DEF InvokeLooks, InvokeRechecks

LEMMA InvokeCountsBudget ==
  ASSUME Typed, Typed', Budget, NEW r \in Callers, InvokeCounts(r)
  PROVE  Budget'
<1> DEFINE c == req[r].on
<1>1. req[r].pc = "bump" /\ faults' = faults
  BY DEF InvokeCounts, spent
<1>2. Invoking(req[r]) /\ req[r] \in Requests /\ c \in Convs /\ conv[c].state # "none"
  BY <1>1, InvokeAt
<1>3. past'.made = past.made /\ past'.overlapped = past.overlapped
  BY DEF InvokeCounts, Typed, Shapes, Pasts
<1>4. \A p \in Callers \ {r} : req'[p] = req[p]
  BY DEF InvokeCounts, Typed, Shapes
<1>5. CASE ~Present(c)
  <2>1. conv' = conv /\ ~Invoking(req'[r])
    BY <1>5 DEF InvokeCounts, Typed, Shapes, Idle, Invoking
  <2>2. req'[r].pc \notin {"look", "create", "bump"}
    BY <2>1 DEF Invoking
  <2> QED BY <1>1, <1>2, <1>3, <1>4, <1>5, <2>1, <2>2, Numbers, RoomAt, InvokeBudget DEF Budget, Present
<1>6. CASE Present(c)
  <2>1. req'[r].on = c /\ req'[r].pc = "recheck"
    BY <1>2, <1>6 DEF InvokeCounts, Typed, Shapes, Requests
  <2>2. /\ \A d \in Convs : conv'[d].state = conv[d].state
        /\ \A d \in Convs \ {c} : conv'[d].invoked = conv[d].invoked
        /\ conv'[c].invoked = conv[c].invoked + 1
    BY <1>2, <1>6 DEF InvokeCounts, Typed, Shapes, Conversations
  <2> HIDE DEF c
  <2>3. c = req[r].on
    BY DEF c
  <2> QED BY <1>1, <1>2, <1>3, <1>4, <2>1, <2>2, <2>3, Numbers, RoomAt, InvokeBudget DEF Budget, Present
<1> QED BY <1>5, <1>6

LEMMA InvokeFailsBudget ==
  ASSUME Typed, Typed', Budget, NEW r \in Callers, InvokeFails(r)
  PROVE  Budget'
<1>1. Invoking(req[r]) /\ faults' = faults + 1 /\ faults \in Nat
  BY DEF InvokeFails, Fault, Typed, Sound, Shapes
<1>2. req[r] \in Requests /\ req[r].on \in Convs /\ conv[req[r].on].state # "none" /\ conv' = conv
  BY <1>1, InvokeAt DEF Invoking, InvokeFails
<1>3. past'.made = past.made /\ past'.overlapped = past.overlapped
  BY DEF InvokeFails, Typed, Shapes, Pasts
<1>4. (\A p \in Callers \ {r} : req'[p] = req[p]) /\ ~Invoking(req'[r])
  BY DEF InvokeFails, Typed, Shapes, Idle, Invoking
<1>5. req'[r].pc \notin {"look", "create", "bump"}
  BY <1>4 DEF Invoking
<1> QED BY <1>1, <1>2, <1>3, <1>4, <1>5, Numbers, RoomAt, InvokeBudget DEF Budget, Present, Invoking

LEMMA InvokeCreatesBudget ==
  ASSUME Typed, Typed', Budget, NEW r \in Callers, InvokeCreates(r)
  PROVE  Budget'
<1> DEFINE c == req[r].on
<1>1. req[r].pc = "create" /\ faults' = faults /\ faults \in Nat
  BY DEF InvokeCreates, spent, Typed, Shapes
<1>2. Invoking(req[r]) /\ req[r] \in Requests /\ c \in Convs /\ conv[c].state # "none"
  BY <1>1, InvokeAt
<1>3. PICK d \in Convs :
        /\ conv[d].state = "none"
        /\ conv' = [conv EXCEPT ![d] = [NoConv EXCEPT !.state = "open", !.parent = req[r].on, !.entry = req[r].entry]]
        /\ req' = [req EXCEPT ![r].pc = "bump", ![r].new = d]
  BY DEF InvokeCreates
<1>4. /\ \A p \in Callers \ {r} : req'[p] = req[p]
      /\ req'[r].on = c /\ req'[r].pc = "bump"
  BY <1>2, <1>3 DEF Typed, Shapes, Requests
<1>5. /\ \A b \in Convs \ {d} : conv'[b] = conv[b]
      /\ conv'[d].invoked = 0 /\ conv'[d].state = "open" /\ d # c
  BY <1>2, <1>3 DEF Typed, Shapes, NoConv
<1>6. past'.overlapped = past.overlapped /\ past'.made = [past.made EXCEPT ![c] = @ + 1]
  BY DEF InvokeCreates, Typed, Shapes, Pasts
<1>7. past'.made[c] = past.made[c] + 1 /\ \A b \in Convs \ {c} : past'.made[b] = past.made[b]
  BY <1>2, <1>6 DEF Typed, Shapes, Pasts
<1>8. Room(d) => past.made[d] = 0 /\ conv[d].invoked = 0
  BY <1>3 DEF Room
<1>9. \A b \in Coordinators \ {c} :
        /\ past'.made[b] = past.made[b] /\ (Room(b) => conv'[b].invoked = conv[b].invoked)
        /\ conv'[b].state = "none" => conv[b].state = "none"
        /\ b # d => (Present(b)' => Present(b))
  BY <1>5, <1>7, <1>8, Numbers DEF Present
<1> HIDE DEF c
<1>10. c = req[r].on
  BY DEF c
<1>11. ASSUME ~past.overlapped, c \in Coordinators, Room(c)
       PROVE  /\ past'.made[c] <= MaxAgents + faults' /\ conv'[c].invoked < MaxAgents
              /\ past'.made[c] <= conv'[c].invoked + 1 + faults'
  <2>1. /\ past.made[c] \in Nat /\ conv[c].invoked \in Nat /\ MaxAgents \in Nat /\ conv[c].invoked < MaxAgents
        /\ past.made[c] <= conv[c].invoked + faults /\ OneInvoke
    BY <1>1, <1>2, <1>10, <1>11, RoomAt DEF Budget
  <2>2. conv'[c].invoked = conv[c].invoked /\ past'.made[c] = past.made[c] + 1
    BY <1>2, <1>5, <1>7
  <2>3. PICK m \in Nat, i \in Nat : m = past.made[c] /\ i = conv[c].invoked
    BY <2>1
  <2>4. m + 1 <= MaxAgents + faults /\ i < MaxAgents /\ m + 1 <= i + 1 + faults
    BY <1>1, <2>1, <2>3
  <2> QED BY <1>1, <2>2, <2>3, <2>4
<1> HIDE DEF Budget
<1>12. conv'[c].state # "none" /\ faults <= faults'
  BY <1>1, <1>2, <1>5
<1>13. \A b \in Coordinators \ {c} : (Present(b)' => Present(b)) \/ (Room(b) => past.made[b] = 0 /\ conv[b].invoked = 0)
  BY <1>8, <1>9
<1> QED BY <1>2, <1>4, <1>6, <1>9, <1>10, <1>11, <1>12, <1>13, InvokeBudget

\* Walks, and whoever begins or ends one.
LEMMA WalkBudget ==
  ASSUME Typed, Typed', Budget, NEW r \in Callers, ~Invoking(req[r]), ~Invoking(req'[r]),
         \A p \in Callers \ {r} : req'[p] = req[p],
         past'.made = past.made, past'.overlapped = past.overlapped, faults <= faults',
         \A c \in Convs : /\ conv'[c].invoked = conv[c].invoked
                          /\ conv'[c].state = "none" <=> conv[c].state = "none"
                          /\ Present(c)' => Present(c)
  PROVE  Budget'
BY BudgetKept

LEMMA WalksBudget ==
  ASSUME Typed, Typed', Budget, NEW r \in Callers, Walks(r) \/ WalkFails(r)
  PROVE  Budget'
<1>1. req[r].pc = "walk" /\ ~Invoking(req[r])
  BY DEF Walks, WalkLists, WalkDescends, WalkCloses, WalkDeletes, WalkAscends, WalkFails, Going, Invoking
<1>2. \A p \in Callers \ {r} : req'[p] = req[p]
  BY DEF Walks, WalkLists, WalkDescends, WalkCloses, WalkDeletes, WalkAscends, WalkFails, OnStack, Typed, Shapes
<1>3. past'.made = past.made /\ past'.overlapped = past.overlapped
  BY DEF Walks, WalkLists, WalkDescends, WalkCloses, WalkDeletes, WalkAscends, WalkFails, Typed, Shapes, Pasts
<1>4. faults <= faults'
  BY DEF Walks, WalkLists, WalkDescends, WalkCloses, WalkDeletes, WalkAscends, WalkFails, Fault, spent, Typed, Shapes
<1>5. ~Invoking(req'[r])
  <2>1. req'[r].pc = "walk" \/ req'[r] = Idle
    <3>1. ASSUME NEW t, OnStack(r, t) PROVE req'[r].pc = "walk"
      BY <1>1, <3>1 DEF OnStack, Typed, Shapes, Requests
    <3>2. WalkFails(r) => req'[r] = Idle
      BY DEF WalkFails, Typed, Shapes
    <3>3. WalkAscends(r) => req'[r] = Idle \/ \E t : OnStack(r, t)
      BY DEF WalkAscends, Typed, Shapes
    <3>4. Walks(r) => WalkAscends(r) \/ \E t : OnStack(r, t)
      BY DEF Walks, WalkLists, WalkDescends, WalkCloses, WalkDeletes
    <3> QED BY <3>1, <3>2, <3>3, <3>4
  <2> QED BY <2>1 DEF Idle, Invoking
<1>6. \A c \in Convs : /\ conv'[c].invoked = conv[c].invoked
                       /\ conv'[c].state = "none" <=> conv[c].state = "none"
                       /\ Present(c)' => Present(c)
  <2>1. CASE WalkCloses(r) \/ WalkDeletes(r)
    BY <2>1, WalkClosesTyped DEF Present, Kept
  <2>2. CASE conv' = conv
    BY <2>2 DEF Present
  <2> QED BY <2>1, <2>2 DEF Walks, WalkLists, WalkDescends, WalkAscends, WalkFails
<1> QED BY <1>1, <1>2, <1>3, <1>4, <1>5, <1>6, WalkBudget

LEMMA WalkStartsBudget ==
  ASSUME Typed, Typed', Budget, NEW r \in Callers, NEW c \in Convs,
         CloseStarts(r, c) \/ DeadlinePasses(r, c) \/ PlainCloseStarts(r, c) \/ DeleteStarts(r)
  PROVE  Budget'
<1>1. req[r] = Idle /\ UNCHANGED <<conv, past, faults>>
  BY DEF CloseStarts, DeadlinePasses, PlainCloseStarts, DeleteStarts, Starts
<1>2. (\A p \in Callers \ {r} : req'[p] = req[p]) /\ req'[r].pc = "walk"
  <2>1. ASSUME NEW verb, NEW d, NEW todo, Starts(r, verb, d, todo)
        PROVE  (\A p \in Callers \ {r} : req'[p] = req[p]) /\ req'[r].pc = "walk"
    <3> DEFINE q == [Idle EXCEPT !.verb = verb, !.pc = "walk", !.stack = Walk(d, todo)]
    <3>1. req' = [req EXCEPT ![r] = q]
      BY <2>1 DEF Starts
    <3>2. q.pc = "walk"
      BY DEF Idle
    <3> HIDE DEF q
    <3> QED BY <3>1, <3>2 DEF Typed, Shapes
  <2>2. CASE CloseStarts(r, c)
    BY <2>1, <2>2 DEF CloseStarts
  <2>3. CASE DeadlinePasses(r, c)
    BY <2>1, <2>3 DEF DeadlinePasses
  <2>4. CASE PlainCloseStarts(r, c)
    BY <2>1, <2>4 DEF PlainCloseStarts
  <2>5. CASE DeleteStarts(r)
    BY <2>1, <2>5 DEF DeleteStarts
  <2> QED BY <2>2, <2>3, <2>4, <2>5
<1>3. ~Invoking(req[r]) /\ ~Invoking(req'[r])
  BY <1>1, <1>2 DEF Invoking, Idle
<1> QED BY <1>1, <1>2, <1>3, Numbers, WalkBudget DEF Present

LEMMA ReopenBudget == ASSUME Typed, Typed', Budget, Reopen PROVE Budget'
<1>1. /\ \A c \in Convs : conv'[c].invoked = conv[c].invoked
      /\ \A c \in Convs : conv'[c].state = IF c = Root THEN "open" ELSE conv[c].state
  BY RootIsOne, StateSet DEF Reopen, Typed, States
<1>2. past'.made = past.made /\ past'.overlapped = past.overlapped /\ faults' = faults /\ req' = req
  BY DEF Reopen, Typed, Shapes, Pasts
<1>3. conv[Root].state = "closed"
  BY DEF Reopen
<1> QED BY <1>1, <1>2, <1>3, Numbers, BudgetKept DEF Present

LEMMA CacheBudget == ASSUME Typed, Typed', Budget, CacheFallsBehind \/ CacheSyncs \/ UNCHANGED vars PROVE Budget'
<1>1. UNCHANGED <<conv, req, past>> /\ faults <= faults'
  BY Numbers DEF CacheFallsBehind, CacheSyncs, Fault, vars, spent
<1> QED BY <1>1, BudgetKept DEF Present

LEMMA BudgetNext == Typed /\ Budget /\ [Next]_vars => Budget'
<1> SUFFICES ASSUME Typed, Budget, [Next]_vars PROVE Budget'
  OBVIOUS
<1> USE TypedNext
<1>1. CASE \E r \in Callers, c \in Convs, e \in Entries : InvokeStarts(r, c, e)
  BY <1>1, InvokeStartsBudget
<1>2. ASSUME NEW r \in Callers, Invokes(r) \/ InvokeFails(r) PROVE Budget'
  BY <1>2, InvokeLooksBudget, InvokeCreatesBudget, InvokeCountsBudget, InvokeFailsBudget DEF Invokes
<1>3. ASSUME NEW r \in Callers, Walks(r) \/ WalkFails(r) PROVE Budget'
  BY <1>3, WalksBudget
<1>4. ASSUME NEW r \in Callers, NEW c \in Convs, CloseStarts(r, c) \/ DeadlinePasses(r, c) PROVE Budget'
  BY <1>4, WalkStartsBudget
<1>5. ASSUME NEW r \in Callers, PlainCloseStarts(r, Root) \/ DeleteStarts(r) PROVE Budget'
  BY <1>5, WalkStartsBudget, RootIsOne
<1>6. CASE Reopen
  BY <1>6, ReopenBudget
<1>7. CASE CacheFallsBehind \/ CacheSyncs \/ UNCHANGED vars
  BY <1>7, CacheBudget
<1> QED BY <1>1, <1>2, <1>3, <1>4, <1>5, <1>6, <1>7 DEF Next

LEMMA BudgetInit == Init => Budget
<1> SUFFICES ASSUME Init PROVE Budget
  OBVIOUS
<1>1. Typed /\ \A r \in Callers : ~Invoking(req[r])
  BY TypedInit DEF Init, Idle, Invoking
<1>2. ASSUME NEW c \in Coordinators PROVE Room(c)
  <2>1. \A pcs \in SUBSET {"look", "create", "bump", "recheck"} : ~At(c, pcs)
    BY <1>1, NobodyAt
  <2>2. ~At(c, {"look", "create"}) /\ ~At(c, {"bump"})
    BY <2>1
  <2>3. past.made[c] = 0 /\ conv[c].invoked = 0 /\ faults = 0 /\ MaxAgents \in Nat
    BY <1>1, Numbers DEF Init, NoConv
  <2> QED BY <2>2, <2>3 DEF Room
<1> QED BY <1>1, <1>2 DEF Budget, OneInvoke

\* A conversation made for a Coordinator invites no more members than its budget
\* says, across closes and reopens, unless it invokes two at a time, and one more
\* for each call that failed (refuseCycleOrSpentBudget, bumpAgentsInvoked): for any
\* number of conversations, requests and budgets.
THEOREM StaysWithinBudget == Spec => []WithinBudget
<1>1. Typed /\ Budget => WithinBudget
  BY DEF WithinBudget, Budget, Room
<1>2. Init => Typed /\ Budget
  BY TypedInit, BudgetInit
<1>3. Typed /\ Budget /\ [Next]_vars => Typed' /\ Budget'
  BY TypedNext, BudgetNext
<1> QED BY <1>1, <1>2, <1>3, PTL DEF Spec

-----------------------------------------------------------------------------
(* What is left of a walk. *)

Coming(f, step) == \E k \in DOMAIN f.todo : f.todo[k] = step

\* A frame follows its verb's plan: what it closes it sweeps once more, and what it
\* deletes it has listed before.
InPlan(cv, verb, f) ==
  /\ cv[f.on].state # "none" /\ \A d \in f.kids : cv[d].state # "none"
  /\ f.kids # {} => f.todo # <<>> /\ f.todo[1] = "kids"
  /\ Coming(f, "delete") => verb = "delete"
  /\ Coming(f, "close") => verb \in {"close", "plain", "recheck"}
  /\ Coming(f, "list") \/ Coming(f, "kids") => verb \in {"close", "plain", "delete"}
  /\ verb \in {"close", "plain"} =>
       \A k \in DOMAIN f.todo : f.todo[k] = "close" => \E m \in DOMAIN f.todo : m > k /\ f.todo[m] = "list"
  /\ verb = "delete" => \A k \in DOMAIN f.todo : f.todo[k] = "list" => k = 1

InPlans(r) == \A i \in DOMAIN req[r].stack : InPlan(conv, req[r].verb, req[r].stack[i])

\* The root has its place, and the cache shows nobody who is not there, nor anyone
\* closed who is open.
Grounded ==
  /\ conv[Root].parent = 0 /\ conv[Root].state # "none"
  /\ \A c \in cache.known : conv[c].state # "none" /\ (c \in Opened /\ c # Root => c \in cache.open)

Planned == Grounded /\ \A r \in Callers : InPlans(r)

LEMMA InPlanKept ==
  ASSUME NEW cv, NEW cw, Kept(cv, cw), NEW verb, NEW f \in Frame, InPlan(cv, verb, f)
  PROVE  InPlan(cw, verb, f)
BY DEF InPlan, Kept, Frame

LEMMA ComingRest ==
  ASSUME NEW f \in Frame, f.todo # <<>>
  PROVE  /\ \A step : Coming(f, step) /\ f.todo[1] # step => Coming(Rest(f), step)
         /\ \A step : Coming(Rest(f), step) => Coming(f, step)
<1> USE RestOf
<1>1. ASSUME NEW step, Coming(f, step), f.todo[1] # step PROVE Coming(Rest(f), step)
  <2>1. PICK k \in DOMAIN f.todo : f.todo[k] = step
    BY <1>1 DEF Coming
  <2>2. f.todo \in Seq(Steps) /\ DOMAIN f.todo = 1..Len(f.todo)
    BY DEF Frame
  <2>3. k > 1
    BY <1>1, <2>1, <2>2
  <2> QED BY <2>1, <2>3 DEF Coming
<1>2. ASSUME NEW step, Coming(Rest(f), step) PROVE Coming(f, step)
  BY <1>2 DEF Coming
<1> QED BY <1>1, <1>2

LEMMA RestInPlan ==
  ASSUME NEW cv, NEW verb, NEW f \in Frame, f.todo # <<>>, InPlan(cv, verb, f), f.todo[1] = "kids" => f.kids = {}
  PROVE  /\ InPlan(cv, verb, Rest(f))
         /\ verb \in {"close", "plain"} /\ f.todo[1] = "close" => Coming(Rest(f), "list")
         /\ verb = "delete" => ~Coming(Rest(f), "list")
<1> USE RestOf
<1>1. f.todo \in Seq(Steps) /\ DOMAIN f.todo = 1..Len(f.todo) /\ Rest(f).todo \in Seq(Steps)
      /\ DOMAIN Rest(f).todo = 1..Len(Rest(f).todo) /\ Len(f.todo) \in Nat /\ Len(Rest(f).todo) \in Nat
  BY DEF Frame
<1>2. f.kids = {}
  BY DEF InPlan
<1>3. verb \in {"close", "plain"} =>
        \A k \in DOMAIN Rest(f).todo : Rest(f).todo[k] = "close" => \E m \in DOMAIN Rest(f).todo : m > k /\ Rest(f).todo[m] = "list"
  <2> SUFFICES ASSUME verb \in {"close", "plain"}, NEW k \in DOMAIN Rest(f).todo, Rest(f).todo[k] = "close"
               PROVE  \E m \in DOMAIN Rest(f).todo : m > k /\ Rest(f).todo[m] = "list"
    OBVIOUS
  <2>1. k + 1 \in DOMAIN f.todo /\ f.todo[k + 1] = "close"
    OBVIOUS
  <2>2. PICK m \in DOMAIN f.todo : m > k + 1 /\ f.todo[m] = "list"
    BY <2>1 DEF InPlan
  <2>3. m - 1 \in DOMAIN Rest(f).todo /\ Rest(f).todo[m - 1] = "list" /\ m - 1 > k
    <3>1. m \in Nat /\ k \in Nat \ {0}
      BY <1>1
    <3>2. m > 1 /\ m - 1 > k
      BY <2>2, <3>1
    <3> QED BY <2>2, <3>2
  <2> QED BY <2>3
<1>4. verb = "delete" => ~Coming(Rest(f), "list")
  <2> SUFFICES ASSUME verb = "delete", NEW k \in DOMAIN Rest(f).todo, Rest(f).todo[k] = "list" PROVE FALSE
    BY DEF Coming
  <2>1. k + 1 \in DOMAIN f.todo /\ f.todo[k + 1] = "list"
    OBVIOUS
  <2>2. k + 1 = 1 /\ k \in 1..Len(Rest(f).todo)
    BY <1>1, <2>1 DEF InPlan
  <2> QED BY <1>1, <2>2
<1>5. verb \in {"close", "plain"} /\ f.todo[1] = "close" => Coming(Rest(f), "list")
  <2> SUFFICES ASSUME verb \in {"close", "plain"}, f.todo[1] = "close" PROVE Coming(Rest(f), "list")
    OBVIOUS
  <2>1. PICK m \in DOMAIN f.todo : m > 1 /\ f.todo[m] = "list"
    BY DEF InPlan
  <2> QED BY <2>1 DEF Coming
<1>6. \A step : Coming(Rest(f), step) => Coming(f, step)
  BY ComingRest
<1>7. verb = "delete" => \A k \in DOMAIN Rest(f).todo : Rest(f).todo[k] # "list"
  BY <1>4 DEF Coming
<1> QED BY <1>2, <1>3, <1>4, <1>5, <1>6, <1>7 DEF InPlan

LEMMA ListingInPlan ==
  ASSUME NEW cv, NEW verb, NEW f \in Frame, f.todo # <<>>, f.todo[1] = "list", InPlan(cv, verb, f),
         NEW kids \in SUBSET Convs, \A d \in kids : cv[d].state # "none"
  PROVE  /\ InPlan(cv, verb, Listing(f, kids))
         /\ \A step : Coming(f, step) /\ step # "list" => Coming(Listing(f, kids), step)
         /\ verb = "delete" => ~Coming(Listing(f, kids), "list")
<1> DEFINE g == Listing(f, kids)
<1>1. /\ g \in Frame /\ g.on = f.on /\ g.kids = kids /\ g.todo # <<>>
      /\ DOMAIN g.todo = DOMAIN f.todo /\ g.todo[1] = "kids" /\ 1 \in DOMAIN f.todo
      /\ \A k \in DOMAIN f.todo : k > 1 => g.todo[k] = f.todo[k]
  BY ListingOf
<1>2. DOMAIN f.todo \subseteq Nat \ {0}
  BY DEF Frame
<1> HIDE DEF g
<1>3. \A k \in DOMAIN f.todo : k # 1 => g.todo[k] = f.todo[k]
  BY <1>1, <1>2
<1>4. verb \in {"close", "plain", "delete"}
  BY <1>1 DEF InPlan, Coming
<1>5. \A step : Coming(g, step) /\ step # "kids" => Coming(f, step)
  BY <1>1, <1>3 DEF Coming
<1>6. \A step : Coming(f, step) /\ step # "list" => Coming(g, step)
  BY <1>1, <1>3 DEF Coming
<1>7. verb = "delete" => \A k \in DOMAIN g.todo : g.todo[k] # "list"
  BY <1>1, <1>3 DEF InPlan
<1>8. verb \in {"close", "plain"} =>
        \A k \in DOMAIN g.todo : g.todo[k] = "close" => \E m \in DOMAIN g.todo : m > k /\ g.todo[m] = "list"
  <2> SUFFICES ASSUME verb \in {"close", "plain"}, NEW k \in DOMAIN f.todo, f.todo[k] = "close", k # 1
               PROVE  \E m \in DOMAIN f.todo : m > k /\ f.todo[m] = "list" /\ m # 1
    BY <1>1, <1>3
  <2>1. PICK m \in DOMAIN f.todo : m > k /\ f.todo[m] = "list"
    BY DEF InPlan
  <2>2. k \in Nat \ {0} /\ m \in Nat
    BY <1>2
  <2> QED BY <2>1, <2>2
<1>9. Coming(g, "delete") => verb = "delete"
  BY <1>5 DEF InPlan
<1>10. Coming(g, "close") => verb \in {"close", "plain", "recheck"}
  BY <1>5 DEF InPlan
<1>11. InPlan(cv, verb, g)
  BY <1>1, <1>4, <1>7, <1>8, <1>9, <1>10 DEF InPlan
<1>12. verb = "delete" => ~Coming(g, "list")
  BY <1>7 DEF Coming
<1> QED BY <1>6, <1>11, <1>12 DEF g

\* Every walk begins in plan.
LEMMA NewWalk ==
  ASSUME NEW cv, NEW c \in Convs, cv[c].state # "none", NEW todo \in Seq(Steps), NEW verb,
         \/ verb = "close" /\ todo \in {<<"list">>, CloseTree, <<"list", "list">>, <<"list">> \o CloseTree}
         \/ verb = "plain" /\ todo \in {<<"close", "list">>, <<"list">>}
         \/ verb = "recheck" /\ todo = <<"close">>
         \/ verb = "delete" /\ todo = <<"list", "delete">>
  PROVE  LET g == [on |-> c, todo |-> todo, kids |-> {}] IN
         /\ InPlan(cv, verb, g)
         /\ verb \in {"recheck"} \/ todo = CloseTree => Coming(g, "close")
         /\ verb = "delete" => Coming(g, "delete") /\ Coming(g, "list")
<1> DEFINE g == [on |-> c, todo |-> todo, kids |-> {}]
<1>1. g.on = c /\ g.todo = todo /\ g.kids = {}
  OBVIOUS
<1> HIDE DEF g
<1> DEFINE T == <<"list">> \o CloseTree
<1>2. Len(T) = 4 /\ DOMAIN T = 1..4 /\ T[1] = "list" /\ T[2] = "list" /\ T[3] = "close" /\ T[4] = "list"
  <2> DEFINE first == <<"list">>
  <2>1. first \in Seq(Steps) /\ Len(first) = 1 /\ first[1] = "list"
    BY DEF Steps
  <2>2. /\ CloseTree \in Seq(Steps) /\ Len(CloseTree) = 3
        /\ CloseTree[1] = "list" /\ CloseTree[2] = "close" /\ CloseTree[3] = "list"
    BY Plans DEF CloseTree
  <2> HIDE DEF first
  <2>3. /\ first \o CloseTree \in Seq(Steps) /\ Len(first \o CloseTree) = 4
        /\ \A i \in 1..4 : (first \o CloseTree)[i] = IF i <= 1 THEN first[i] ELSE CloseTree[i - 1]
    <3>1. /\ first \o CloseTree \in Seq(Steps) /\ Len(first \o CloseTree) = Len(first) + Len(CloseTree)
          /\ \A i \in 1..(Len(first) + Len(CloseTree)) :
               (first \o CloseTree)[i] = IF i <= Len(first) THEN first[i] ELSE CloseTree[i - Len(first)]
      BY <2>1, <2>2, ConcatProperties
    <3>2. Len(first) + Len(CloseTree) = 4
      BY <2>1, <2>2
    <3> QED BY <2>1, <3>1, <3>2
  <2>4. T = first \o CloseTree
    BY DEF first
  <2> HIDE DEF T
  <2> QED BY <2>1, <2>2, <2>3, <2>4
<1> HIDE DEF T
<1>3. CASE verb = "close" /\ todo = T
  <2>1. \A k \in DOMAIN todo : todo[k] = "close" => 4 \in DOMAIN todo /\ 4 > k /\ todo[4] = "list"
    BY <1>2, <1>3
  <2>2. \A k \in DOMAIN todo : todo[k] \in {"list", "close"}
    BY <1>2, <1>3
  <2>3. todo # CloseTree
    BY <1>2, <1>3 DEF CloseTree
  <2> QED BY <1>1, <1>3, <2>1, <2>2, <2>3 DEF InPlan, Coming, g
<1>4. CASE verb = "close" /\ todo = CloseTree
  <2>1. DOMAIN todo = 1..3 /\ todo[1] = "list" /\ todo[2] = "close" /\ todo[3] = "list"
    BY <1>4 DEF CloseTree
  <2>2. \A k \in DOMAIN todo : todo[k] = "close" => 3 \in DOMAIN todo /\ 3 > k /\ todo[3] = "list"
    BY <2>1
  <2>3. 2 \in DOMAIN todo /\ \A k \in DOMAIN todo : todo[k] \in {"list", "close"}
    BY <2>1
  <2> QED BY <1>1, <1>4, <2>1, <2>2, <2>3 DEF InPlan, Coming, g
<1>5. CASE verb \in {"close", "plain"} /\ todo \in {<<"list">>, <<"list", "list">>}
  <2>1. \A k \in DOMAIN todo : todo[k] = "list"
    BY <1>5
  <2>2. todo # CloseTree
    BY <2>1 DEF CloseTree
  <2> QED BY <1>1, <1>5, <2>1, <2>2 DEF InPlan, Coming, g
<1>6. CASE verb = "plain" /\ todo = <<"close", "list">>
  <2>1. DOMAIN todo = 1..2 /\ todo[1] = "close" /\ todo[2] = "list" /\ todo # CloseTree
    BY <1>6 DEF CloseTree
  <2>2. \A k \in DOMAIN todo : todo[k] = "close" => 2 \in DOMAIN todo /\ 2 > k /\ todo[2] = "list"
    BY <2>1
  <2>3. \A k \in DOMAIN todo : todo[k] \in {"list", "close"}
    BY <2>1
  <2> QED BY <1>1, <1>6, <2>1, <2>2, <2>3 DEF InPlan, Coming, g
<1>7. CASE verb = "recheck" /\ todo = <<"close">>
  <2>1. 1 \in DOMAIN todo /\ \A k \in DOMAIN todo : todo[k] = "close"
    BY <1>7
  <2> QED BY <1>1, <1>7, <2>1 DEF InPlan, Coming, g
<1>8. CASE verb = "delete" /\ todo = <<"list", "delete">>
  <2>1. DOMAIN todo = 1..2 /\ todo[1] = "list" /\ todo[2] = "delete" /\ todo # CloseTree
    BY <1>8 DEF CloseTree
  <2>2. 1 \in DOMAIN todo /\ 2 \in DOMAIN todo /\ \A k \in DOMAIN todo : todo[k] = "list" => k = 1
    BY <2>1
  <2>3. \A k \in DOMAIN todo : todo[k] \in {"list", "delete"}
    BY <2>1
  <2> QED BY <1>1, <1>8, <2>1, <2>2, <2>3 DEF InPlan, Coming, g
<1> QED BY <1>3, <1>4, <1>5, <1>6, <1>7, <1>8 DEF T

LEMMA FramesAre ==
  ASSUME Typed, NEW r \in Callers
  PROVE  /\ req[r] \in Requests /\ \A i \in DOMAIN req[r].stack : i \in Nat /\ i > 0 /\ req[r].stack[i] \in Frame
         /\ DOMAIN req[r].stack = 1..Len(req[r].stack) /\ Len(req[r].stack) \in Nat
<1>1. req[r].stack \in Seq(Frame) /\ req[r] \in Requests
  BY DEF Typed, Shapes, Requests
<1> QED BY <1>1

LEMMA PlanMoves ==
  ASSUME Typed, Typed', Planned, Kept(conv, conv'), Grounded', NEW r \in Callers,
         \A p \in Callers \ {r} : req'[p] = req[p], InPlans(r)'
  PROVE  Planned'
<1> SUFFICES ASSUME NEW p \in Callers \ {r} PROVE InPlans(p)'
  BY DEF Planned
<1>1. \A i \in DOMAIN req[p].stack : InPlan(conv, req[p].verb, req[p].stack[i]) /\ req[p].stack[i] \in Frame
  BY FramesAre DEF Planned, InPlans
<1>2. \A i \in DOMAIN req[p].stack : InPlan(conv', req[p].verb, req[p].stack[i])
  BY <1>1, InPlanKept
<1> QED BY <1>2 DEF InPlans

LEMMA GroundKept ==
  ASSUME Typed, Grounded, Kept(conv, conv'), UNCHANGED cache,
         \A c \in Convs \ {Root} : conv'[c].state = "open" => conv[c].state \in {"open", "none"}
  PROVE  Grounded'
BY RootIsOne DEF Grounded, Kept, Typed, Shapes, Caches, Opened

\* A step that leaves the frames of a request as they are.
LEMMA SamePlan ==
  ASSUME Typed, Planned, Kept(conv, conv'), NEW r \in Callers,
         req'[r].stack = <<>> \/ (req'[r].stack = req[r].stack /\ req'[r].verb = req[r].verb)
  PROVE  InPlans(r)'
<1>1. CASE req'[r].stack = <<>>
  BY <1>1 DEF InPlans
<1>2. CASE req'[r].stack = req[r].stack /\ req'[r].verb = req[r].verb
  <2>1. \A i \in DOMAIN req[r].stack : InPlan(conv, req[r].verb, req[r].stack[i]) /\ req[r].stack[i] \in Frame
    BY FramesAre DEF Planned, InPlans
  <2>2. \A i \in DOMAIN req[r].stack : InPlan(conv', req[r].verb, req[r].stack[i])
    BY <2>1, InPlanKept
  <2> QED BY <1>2, <2>2 DEF InPlans
<1> QED BY <1>1, <1>2

\* A walk begins.
Begins(r, verb, c, todo) ==
  /\ c \in Convs /\ conv[c].state # "none"
  /\ \/ verb = "close" /\ todo \in {<<"list">>, CloseTree, <<"list", "list">>, <<"list">> \o CloseTree}
     \/ verb = "plain" /\ todo \in {<<"close", "list">>, <<"list">>}
     \/ verb = "recheck" /\ todo = <<"close">>
     \/ verb = "delete" /\ todo = <<"list", "delete">>
  /\ req' = [req EXCEPT ![r] = [Idle EXCEPT !.verb = verb, !.pc = "walk", !.stack = Walk(c, todo)]]

LEMMA BeginsInPlan ==
  ASSUME Typed, NEW r \in Callers, NEW verb, NEW c, NEW todo, Begins(r, verb, c, todo)
  PROVE  LET g == [on |-> c, todo |-> todo, kids |-> {}] IN
         /\ DOMAIN req'[r].stack = {1} /\ req'[r].stack[1] = g /\ req'[r].verb = verb /\ req'[r].pc = "walk"
         /\ \A p \in Callers \ {r} : req'[p] = req[p]
         /\ InPlan(conv, verb, g)
         /\ verb = "recheck" => Coming(g, "close")
         /\ verb = "delete" => Coming(g, "delete") /\ Coming(g, "list")
<1> DEFINE g == [on |-> c, todo |-> todo, kids |-> {}]
           w == [Idle EXCEPT !.verb = verb, !.pc = "walk", !.stack = Walk(c, todo)]
<1>1. todo \in Seq(Steps) /\ c \in Convs /\ verb \in {"close", "plain", "recheck", "delete"}
  <2>1. <<"list">> \o CloseTree \in Seq(Steps)
    BY Plans, ConcatProperties
  <2> QED BY <2>1, Plans DEF Begins
<1>2. Walk(c, todo)[1] = g /\ DOMAIN Walk(c, todo) = {1}
  BY <1>1, WalkIsSound
<1>3. req'[r] = w /\ w.stack = Walk(c, todo) /\ w.verb = verb /\ w.pc = "walk"
  BY DEF Begins, Idle, Typed, Shapes
<1>4. \A p \in Callers \ {r} : req'[p] = req[p]
  BY DEF Begins, Typed, Shapes
<1>5. /\ InPlan(conv, verb, g)
      /\ verb = "recheck" => Coming(g, "close")
      /\ verb = "delete" => Coming(g, "delete") /\ Coming(g, "list")
  BY <1>1, NewWalk DEF Begins
<1> HIDE DEF g
<1> QED BY <1>2, <1>3, <1>4, <1>5 DEF g

\* Which steps begin one.
LEMMA WhoBegins ==
  ASSUME Typed, NEW r \in Callers, NEW c \in Convs
  PROVE  /\ \A e \in Entries : InvokeStarts(r, c, e) /\ BudgetSpent(c) =>
              Begins(r, "close", c, Exceeded(c))
         /\ CloseStarts(r, c) \/ DeadlinePasses(r, c) => \E todo : Begins(r, "close", c, todo)
         /\ PlainCloseStarts(r, c) => \E todo : Begins(r, "plain", c, todo)
         /\ DeleteStarts(r) => Begins(r, "delete", Root, <<"list", "delete">>)
         /\ InvokeRechecks(r) /\ ClosedSince(req[r].on) => Begins(r, "recheck", req[r].new, <<"close">>)
<1>1. Exceeded(c) \in {<<"list">>, <<"list">> \o CloseTree}
  BY DEF Exceeded
<1>2. ASSUME InvokeRechecks(r), ClosedSince(req[r].on) PROVE Begins(r, "recheck", req[r].new, <<"close">>)
  BY <1>2 DEF InvokeRechecks, Begins, Typed, Sound
<1>3. ASSUME NEW e \in Entries, InvokeStarts(r, c, e), BudgetSpent(c) PROVE Begins(r, "close", c, Exceeded(c))
  BY <1>1, <1>3 DEF InvokeStarts, Begins, Opened
<1>4. ASSUME CloseStarts(r, c) \/ DeadlinePasses(r, c) PROVE \E todo : Begins(r, "close", c, todo)
  <2>1. CASE DeadlinePasses(r, c)
    <3>1. Begins(r, "close", c, Exceeded(c))
      BY <1>1, <2>1 DEF DeadlinePasses, Starts, Begins, Opened
    <3> QED BY <3>1
  <2>2. CASE CloseStarts(r, c)
    <3>1. Begins(r, "close", c, IF c \in Opened THEN CloseTree ELSE <<"list", "list">>)
      BY <2>2 DEF CloseStarts, Starts, Begins, Present
    <3> QED BY <3>1
  <2> QED BY <1>4, <2>1, <2>2
<1>5. ASSUME PlainCloseStarts(r, c) PROVE \E todo : Begins(r, "plain", c, todo)
  <2>1. Begins(r, "plain", c, IF c \in Opened THEN <<"close", "list">> ELSE <<"list">>)
    BY <1>5 DEF PlainCloseStarts, Starts, Begins, Present
  <2> QED BY <2>1
<1>6. ASSUME DeleteStarts(r) PROVE Begins(r, "delete", Root, <<"list", "delete">>)
  BY <1>6, RootIsOne DEF DeleteStarts, Starts, Begins
<1> QED BY <1>2, <1>3, <1>4, <1>5, <1>6

\* Only the frame at the top is another, and it is in plan too.
LEMMA TopInPlan ==
  ASSUME Typed, Planned, NEW r \in Callers, req[r].pc = "walk", Kept(conv, conv'),
         NEW g \in Frame, InPlan(conv, req[r].verb, g), TopBecomes(r, g)
  PROVE  InPlans(r)'
<1>1. req'[r].verb = req[r].verb
  BY FramesAre DEF TopBecomes, Requests
<1>2. \A i \in DOMAIN req[r].stack : InPlan(conv, req[r].verb, req[r].stack[i]) /\ req[r].stack[i] \in Frame /\ i \in Nat /\ i > 0
  BY FramesAre DEF Planned, InPlans
<1>3. \A i \in DOMAIN req[r].stack : InPlan(conv', req[r].verb, req[r].stack[i])
  BY <1>2, InPlanKept
<1>4. InPlan(conv', req[r].verb, g)
  BY InPlanKept
<1>5. \A i \in DOMAIN req[r].stack : i = 1 \/ i > 1
  BY <1>2
<1> QED BY <1>1, <1>3, <1>4, <1>5 DEF InPlans, TopBecomes

\* The frame at the top, in plan.
LEMMA TopPlan ==
  ASSUME Typed, Planned, NEW r \in Callers, req[r].pc = "walk"
  PROVE  InPlan(conv, req[r].verb, Top(r)) /\ conv[Top(r).on].state # "none"
BY Walking DEF Planned, InPlans, InPlan

LEMMA KidsAreThere ==
  ASSUME Typed, Planned, NEW d \in Listed.known
  PROVE  d \in Convs /\ conv[d].state # "none"
BY ListedAreConvs DEF Planned, Grounded, Listed, View, Present

LEMMA WalkListsPlanned == ASSUME Typed, Planned, NEW r \in Callers, WalkLists(r) PROVE Planned'
<1> DEFINE kids == IF req[r].verb = "delete" THEN Members(Top(r).on) ELSE Members(Top(r).on) \cap Listed.open
<1>1. Typed' /\ Top(r).todo # <<>> /\ kids \in SUBSET Convs /\ TopBecomes(r, Listing(Top(r), kids))
  BY WalkListsTyped
<1>2. \A d \in kids : conv[d].state # "none"
  BY KidsAreThere DEF Members
<1> HIDE DEF kids
<1>3. req[r].pc = "walk" /\ Head(Top(r).todo) = "list" /\ Top(r) \in Frame
  BY Walking DEF WalkLists, Going
<1>4. Top(r).todo[1] = "list"
  BY <1>1, <1>3, RestOf
<1>5. Listing(Top(r), kids) \in Frame /\ InPlan(conv, req[r].verb, Listing(Top(r), kids))
  BY <1>1, <1>2, <1>3, <1>4, TopPlan, ListingOf, ListingInPlan
<1>6. Kept(conv, conv') /\ UNCHANGED <<conv, cache>>
  BY DEF WalkLists, Kept
<1>7. InPlans(r)'
  BY <1>1, <1>3, <1>5, <1>6, TopInPlan
<1>8. \A p \in Callers \ {r} : req'[p] = req[p]
  BY DEF WalkLists, OnStack, Typed, Shapes
<1> QED BY <1>1, <1>6, <1>7, <1>8, PlanMoves, GroundKept DEF Planned

LEMMA WalkDescendsPlanned == ASSUME Typed, Planned, NEW r \in Callers, WalkDescends(r) PROVE Planned'
<1>1. /\ Typed' /\ req[r].pc = "walk" /\ Top(r).todo # <<>> /\ Top(r).todo[1] = "kids" /\ Top(r) \in Frame
      /\ req[r].stack[1] = Top(r) /\ req[r] \in Requests
  BY WalkDescendsTyped, Walking, RestOf
<1>2. Kept(conv, conv') /\ UNCHANGED <<conv, cache>>
  BY DEF WalkDescends, Kept
<1>3. \A p \in Callers \ {r} : req'[p] = req[p]
  BY DEF WalkDescends, OnStack, Typed, Shapes
<1>4. InPlan(conv, req[r].verb, Top(r))
  BY <1>1, TopPlan
<1>5. CASE Top(r).kids = {} /\ TopBecomes(r, Rest(Top(r)))
  <2>1. Rest(Top(r)) \in Frame /\ InPlan(conv, req[r].verb, Rest(Top(r)))
    BY <1>1, <1>4, <1>5, RestOf, RestInPlan
  <2>2. InPlans(r)'
    BY <1>1, <1>2, <1>5, <2>1, TopInPlan
  <2> QED BY <1>1, <1>2, <1>3, <2>2, PlanMoves, GroundKept DEF Planned
<1>6. CASE \E d \in Top(r).kids :
             LET todo == IF req[r].verb = "delete" THEN <<"list", "delete">> ELSE CloseTree
                 g == [on |-> d, todo |-> todo, kids |-> {}]
                 f == [Top(r) EXCEPT !.kids = @ \ {d}]
                 t == <<g>> \o <<f>> \o Tail(req[r].stack) IN
             /\ d \in Convs /\ todo \in Seq(Steps) /\ g \in Frame /\ f \in Frame
             /\ req'[r] = [req[r] EXCEPT !.stack = t]
             /\ DOMAIN t = 1..(Len(req[r].stack) + 1) /\ t[1] = g /\ t[2] = f
             /\ \A i \in DOMAIN t : i > 2 => t[i] = req[r].stack[i - 1]
  <2> DEFINE todo == IF req[r].verb = "delete" THEN <<"list", "delete">> ELSE CloseTree
             s == req[r].stack
  <2>1. PICK d \in Top(r).kids :
          LET g == [on |-> d, todo |-> todo, kids |-> {}]
              f == [Top(r) EXCEPT !.kids = @ \ {d}]
              t == <<g>> \o <<f>> \o Tail(s) IN
          /\ d \in Convs /\ todo \in Seq(Steps) /\ g \in Frame /\ f \in Frame
          /\ req'[r] = [req[r] EXCEPT !.stack = t]
          /\ DOMAIN t = 1..(Len(s) + 1) /\ t[1] = g /\ t[2] = f
          /\ \A i \in DOMAIN t : i > 2 => t[i] = s[i - 1]
    BY <1>6
  <2> DEFINE g == [on |-> d, todo |-> todo, kids |-> {}]
             f == [Top(r) EXCEPT !.kids = @ \ {d}]
             t == <<g>> \o <<f>> \o Tail(s)
  <2>2. conv[d].state # "none" /\ "kids" \in {Top(r).todo[k] : k \in DOMAIN Top(r).todo}
    BY <1>1, <1>4, RestOf DEF InPlan
  <2>3. req[r].verb \in {"close", "plain", "delete"} /\ f.on = Top(r).on /\ f.todo = Top(r).todo /\ f.kids \subseteq Top(r).kids
    BY <1>1, <1>4, <2>2 DEF InPlan, Coming, Frame
  <2>4. InPlan(conv, req[r].verb, f)
    BY <1>1, <1>4, <2>3 DEF InPlan, Coming
  <2>5. InPlan(conv, req[r].verb, g)
    <3>1. req[r].verb \in {"close", "delete"} => InPlan(conv, req[r].verb, g)
      BY <2>1, <2>2, NewWalk
    <3>2. req[r].verb = "plain" => InPlan(conv, "close", g) /\ ~Coming(g, "delete")
      <4>1. req[r].verb = "plain" => InPlan(conv, "close", g)
        BY <2>1, <2>2, NewWalk
      <4> QED BY <4>1 DEF InPlan
    <3> HIDE DEF g
    <3>3. req[r].verb = "plain" => InPlan(conv, "plain", g)
      BY <3>2 DEF InPlan
    <3> QED BY <2>3, <3>1, <3>3
  <2> HIDE DEF g, f
  <2>6. t \in Seq(Frame) /\ s \in Seq(Frame) /\ Len(s) \in Nat
    BY <2>1, <1>1, Walking, Pushed DEF g, f
  <2>7. DOMAIN t = 1..(Len(s) + 1) /\ t[1] = g /\ t[2] = f /\ \A i \in DOMAIN t : i > 2 => t[i] = s[i - 1]
    BY <2>1 DEF g, f
  <2>8. req'[r] = [req[r] EXCEPT !.stack = t]
    BY <2>1 DEF g, f
  <2> HIDE DEF t
  <2>9. \A i \in DOMAIN t : InPlan(conv, req[r].verb, t[i])
    <3> SUFFICES ASSUME NEW i \in DOMAIN t PROVE InPlan(conv, req[r].verb, t[i])
      OBVIOUS
    <3>1. i = 1 \/ i = 2 \/ (i > 2 /\ i - 1 \in DOMAIN s)
      BY <2>6, <2>7
    <3>2. \A j \in DOMAIN s : InPlan(conv, req[r].verb, s[j])
      BY DEF Planned, InPlans
    <3> QED BY <2>4, <2>5, <2>7, <3>1, <3>2
  <2>10. req'[r].stack = t /\ req'[r].verb = req[r].verb
    BY <1>1, <2>8 DEF Requests
  <2>11. InPlans(r)'
    BY <1>2, <2>9, <2>10 DEF InPlans
  <2> QED BY <1>1, <1>2, <1>3, <2>11, PlanMoves, GroundKept DEF Planned
<1> QED BY <1>5, <1>6, WalkDescendsTyped

LEMMA WalkClosesPlanned == ASSUME Typed, Planned, NEW r \in Callers, WalkCloses(r) \/ WalkDeletes(r) PROVE Planned'
<1>1. /\ Typed' /\ req[r].pc = "walk" /\ Top(r).todo # <<>> /\ TopBecomes(r, Rest(Top(r)))
      /\ Kept(conv, conv') /\ Top(r) \in Frame /\ Top(r).on \in Convs
  BY WalkClosesTyped, Walking
<1>2. Head(Top(r).todo) \in {"close", "delete"}
  BY DEF WalkCloses, WalkDeletes, Going
<1>3. Top(r).todo[1] # "kids"
  BY <1>1, <1>2, RestOf
<1>4. Rest(Top(r)) \in Frame /\ InPlan(conv, req[r].verb, Rest(Top(r)))
  BY <1>1, <1>3, RestOf, RestInPlan, TopPlan
<1>5. InPlans(r)'
  BY <1>1, <1>4, TopInPlan
<1>6. \A p \in Callers \ {r} : req'[p] = req[p]
  BY DEF WalkCloses, WalkDeletes, OnStack, Typed, Shapes
<1>7. \A c \in Convs : conv'[c].state = "open" => conv[c].state \in {"open", "none"}
  BY <1>1, WalkClosesTyped
<1>8. Grounded'
  BY <1>1, <1>7, GroundKept DEF Planned, WalkCloses, WalkDeletes
<1> QED BY <1>1, <1>5, <1>6, <1>8, PlanMoves

LEMMA WalkAscendsPlanned == ASSUME Typed, Planned, NEW r \in Callers, WalkAscends(r) PROVE Planned'
<1>1. Typed' /\ req[r].pc = "walk" /\ req[r] \in Requests
  BY WalkAscendsTyped, Walking
<1>2. Kept(conv, conv') /\ UNCHANGED <<conv, cache>>
  BY DEF WalkAscends, Kept
<1>3. \A p \in Callers \ {r} : req'[p] = req[p]
  BY DEF WalkAscends, OnStack, Typed, Shapes
<1>4. CASE req'[r] = Idle
  <2>1. InPlans(r)'
    BY <1>2, <1>4, SamePlan DEF Idle
  <2> QED BY <1>1, <1>2, <1>3, <2>1, PlanMoves, GroundKept DEF Planned
<1>5. CASE /\ req'[r] = [req[r] EXCEPT !.stack = Tail(req[r].stack)]
           /\ \A i \in DOMAIN req'[r].stack : i + 1 \in DOMAIN req[r].stack /\ req'[r].stack[i] = req[r].stack[i + 1]
  <2>1. req'[r].verb = req[r].verb
    BY <1>1, <1>5 DEF Requests
  <2>2. InPlans(r)'
    BY <1>2, <1>5, <2>1 DEF InPlans, Planned
  <2> QED BY <1>1, <1>2, <1>3, <2>2, PlanMoves, GroundKept DEF Planned
<1> QED BY <1>4, <1>5, WalkAscendsTyped

LEMMA BeginsPlanned ==
  ASSUME Typed, Typed', Planned, NEW r \in Callers, NEW verb, NEW c, NEW todo, Begins(r, verb, c, todo), UNCHANGED <<conv, cache>>
  PROVE  Planned'
<1> DEFINE g == [on |-> c, todo |-> todo, kids |-> {}]
<1>1. /\ DOMAIN req'[r].stack = {1} /\ req'[r].stack[1] = g /\ req'[r].verb = verb
      /\ \A p \in Callers \ {r} : req'[p] = req[p]
      /\ InPlan(conv, verb, g)
  BY BeginsInPlan
<1>2. InPlan(conv', verb, g) /\ Kept(conv, conv')
  BY <1>1 DEF Kept
<1> HIDE DEF g
<1>3. InPlans(r)'
  BY <1>1, <1>2 DEF InPlans
<1> QED BY <1>1, <1>2, <1>3, PlanMoves, GroundKept DEF Planned

\* The steps of an invoke, and calls that fail.
LEMMA InvokesPlanned ==
  ASSUME Typed, Typed', Planned, NEW r \in Callers,
         \/ Invokes(r) \/ InvokeFails(r) \/ WalkFails(r)
         \/ \E c \in Convs, e \in Entries : InvokeStarts(r, c, e)
  PROVE  Planned'
<1>1. CASE InvokeRechecks(r) /\ ClosedSince(req[r].on)
  <2>1. Begins(r, "recheck", req[r].new, <<"close">>)
    BY <1>1, RootIsOne, WhoBegins
  <2> QED BY <1>1, <2>1, BeginsPlanned DEF InvokeRechecks
<1>2. CASE \E c \in Convs, e \in Entries : InvokeStarts(r, c, e) /\ BudgetSpent(c)
  <2>1. PICK c \in Convs, e \in Entries : InvokeStarts(r, c, e) /\ BudgetSpent(c)
    BY <1>2
  <2>2. Begins(r, "close", c, Exceeded(c))
    BY <2>1, WhoBegins
  <2> QED BY <2>1, <2>2, BeginsPlanned DEF InvokeStarts
<1>3. ASSUME Kept(conv, conv'), UNCHANGED cache, \A p \in Callers \ {r} : req'[p] = req[p],
             \A c \in Convs \ {Root} : conv'[c].state = "open" => conv[c].state \in {"open", "none"},
             req'[r].stack = <<>> \/ (req'[r].stack = req[r].stack /\ req'[r].verb = req[r].verb)
      PROVE  Planned'
  <2>1. Grounded' /\ InPlans(r)'
    BY <1>3, GroundKept, SamePlan DEF Planned
  <2> QED BY <1>3, <2>1, PlanMoves
<1>4. CASE InvokeRechecks(r) /\ ~ClosedSince(req[r].on)
  BY <1>3, <1>4 DEF InvokeRechecks, Typed, Shapes, Idle, Kept
<1>5. CASE \E c \in Convs, e \in Entries : InvokeStarts(r, c, e) /\ ~BudgetSpent(c)
  <2>1. PICK c \in Convs, e \in Entries : InvokeStarts(r, c, e) /\ ~BudgetSpent(c)
    BY <1>5
  <2>2. /\ req' = [req EXCEPT ![r] = [Idle EXCEPT !.verb = "invoke", !.on = c, !.entry = e, !.pc = "look"]]
        /\ UNCHANGED <<conv, cache>>
    BY <2>1 DEF InvokeStarts
  <2>3. req'[r].stack = <<>> /\ \A p \in Callers \ {r} : req'[p] = req[p]
    BY <2>2 DEF Typed, Shapes, Idle
  <2>4. Kept(conv, conv') /\ \A b \in Convs : conv'[b].state = "open" => conv[b].state \in {"open", "none"}
    BY <2>2 DEF Kept
  <2> QED BY <1>3, <2>2, <2>3, <2>4
<1>6. CASE InvokeFails(r) \/ WalkFails(r)
  BY <1>3, <1>6 DEF InvokeFails, WalkFails, Typed, Shapes, Idle, Kept
<1>7. CASE InvokeLooks(r)
  BY <1>3, <1>7 DEF InvokeLooks, Typed, Shapes, Requests, Idle, Kept
<1>8. CASE InvokeCounts(r)
  <2>1. req[r] \in Requests /\ req[r].on \in Convs
    BY <1>8 DEF InvokeCounts, Typed, Shapes, Sound, Invoking
  <2>2. Kept(conv, conv') /\ \A c \in Convs : conv'[c].state = conv[c].state
    BY <1>8, <2>1 DEF InvokeCounts, Typed, Shapes, Conversations, Kept
  <2>3. UNCHANGED cache /\ \A p \in Callers \ {r} : req'[p] = req[p]
    BY <1>8 DEF InvokeCounts, Typed, Shapes
  <2>4. req'[r].stack = <<>> \/ (req'[r].stack = req[r].stack /\ req'[r].verb = req[r].verb)
    BY <1>8, <2>1 DEF InvokeCounts, Typed, Shapes, Requests, Idle
  <2> QED BY <1>3, <2>2, <2>3, <2>4
<1>9. CASE InvokeCreates(r)
  <2>1. PICK d \in Convs :
          /\ conv[d].state = "none"
          /\ conv' = [conv EXCEPT ![d] = [NoConv EXCEPT !.state = "open", !.parent = req[r].on, !.entry = req[r].entry]]
          /\ req' = [req EXCEPT ![r].pc = "bump", ![r].new = d]
    BY <1>9 DEF InvokeCreates
  <2>2. Kept(conv, conv') /\ \A c \in Convs : conv'[c].state = "open" => conv[c].state \in {"open", "none"}
    BY <2>1 DEF Typed, Shapes, Kept, NoConv
  <2>3. UNCHANGED cache /\ \A p \in Callers \ {r} : req'[p] = req[p]
    BY <1>9, <2>1 DEF InvokeCreates, Typed, Shapes
  <2>4. req'[r].stack = req[r].stack /\ req'[r].verb = req[r].verb
    BY <2>1 DEF Typed, Shapes, Requests
  <2> QED BY <1>3, <2>2, <2>3, <2>4
<1> QED BY <1>1, <1>2, <1>4, <1>5, <1>6, <1>7, <1>8, <1>9 DEF Invokes

LEMMA OthersPlanned == ASSUME Typed, Typed', Planned, Reopen \/ CacheFallsBehind \/ CacheSyncs \/ UNCHANGED vars PROVE Planned'
<1>1. Kept(conv, conv') /\ req' = req
  BY RootIsOne, StateSet DEF Reopen, CacheFallsBehind, CacheSyncs, vars, Typed, Kept, States
<1>2. \A r \in Callers : InPlans(r)'
  BY <1>1, SamePlan
<1>3. CASE Reopen
  <2>1. \A c \in Convs \ {Root} : conv'[c].state = conv[c].state
    BY <1>3, RootIsOne, StateSet DEF Reopen, Typed, States
  <2> QED BY <1>1, <1>2, <1>3, <2>1, GroundKept DEF Planned, Reopen
<1>4. CASE CacheFallsBehind
  <2>1. conv' = conv /\ cache' = View
    BY <1>4 DEF CacheFallsBehind
  <2>2. \A c \in View.known : conv[c].state # "none" /\ (c \in Opened => c \in View.open)
    BY DEF View, Present
  <2>3. Grounded'
    BY <2>1, <2>2, RootIsOne DEF Planned, Grounded, Opened
  <2> QED BY <1>2, <2>3 DEF Planned
<1>5. CASE CacheSyncs
  BY <1>2, <1>5 DEF Planned, CacheSyncs, Current, Grounded
<1>6. CASE UNCHANGED vars
  BY <1>1, <1>2, <1>6, GroundKept DEF Planned, vars
<1> QED BY <1>3, <1>4, <1>5, <1>6

LEMMA PlannedNext == Typed /\ Planned /\ [Next]_vars => Planned'
<1> SUFFICES ASSUME Typed, Planned, [Next]_vars PROVE Planned'
  OBVIOUS
<1> USE TypedNext
<1>1. ASSUME NEW r \in Callers, \/ Invokes(r) \/ InvokeFails(r) \/ WalkFails(r)
                                \/ \E c \in Convs, e \in Entries : InvokeStarts(r, c, e)
      PROVE  Planned'
  BY <1>1, InvokesPlanned
<1>2. ASSUME NEW r \in Callers, Walks(r) PROVE Planned'
  BY <1>2, WalkListsPlanned, WalkDescendsPlanned, WalkClosesPlanned, WalkAscendsPlanned DEF Walks
<1>3. ASSUME NEW r \in Callers, NEW c \in Convs, CloseStarts(r, c) \/ DeadlinePasses(r, c) PROVE Planned'
  <2>1. PICK todo : Begins(r, "close", c, todo)
    BY <1>3, WhoBegins
  <2> QED BY <1>3, <2>1, BeginsPlanned DEF CloseStarts, DeadlinePasses
<1>4. ASSUME NEW r \in Callers, PlainCloseStarts(r, Root) PROVE Planned'
  <2>1. PICK todo : Begins(r, "plain", Root, todo)
    BY <1>4, RootIsOne, WhoBegins
  <2> QED BY <1>4, <2>1, BeginsPlanned DEF PlainCloseStarts
<1>5. ASSUME NEW r \in Callers, DeleteStarts(r) PROVE Planned'
  <2>1. Begins(r, "delete", Root, <<"list", "delete">>)
    BY <1>5, RootIsOne, WhoBegins
  <2> QED BY <1>5, <2>1, BeginsPlanned DEF DeleteStarts
<1>6. CASE Reopen \/ CacheFallsBehind \/ CacheSyncs \/ UNCHANGED vars
  BY <1>6, OthersPlanned
<1> QED BY <1>1, <1>2, <1>3, <1>4, <1>5, <1>6 DEF Next

LEMMA PlannedInit == Init => Planned
<1> SUFFICES ASSUME Init PROVE Planned
  OBVIOUS
<1>1. Grounded
  BY RootIsOne DEF Init, Grounded, Current, NoConv
<1>2. \A r \in Callers : InPlans(r)
  BY DEF Init, Idle, InPlans
<1> QED BY <1>1, <1>2 DEF Planned

-----------------------------------------------------------------------------
(* What a delete has emptied. *)

There(cv, c) == cv[c].state \in {"open", "closed"}
Clean == ~past.misled /\ ~past.cut /\ ~past.took /\ ~past.bare

\* Where a delete has listed, nobody is open, and whoever is there is on its stack or
\* among those still to come.
Emptied(cv, q, i) ==
  /\ Coming(q.stack[i], "delete") \/ ~There(cv, q.stack[i].on)
  /\ ~Coming(q.stack[i], "list") =>
       /\ cv[q.stack[i].on].state # "open"
       /\ \A d \in Convs : There(cv, d) /\ cv[d].parent = q.stack[i].on =>
            d \in q.stack[i].kids \/ (i > 1 /\ q.stack[i - 1].on = d)

\* Nor does anyone invoke a member there any more.
Cleared(r) ==
  req[r].verb = "delete" => \A i \in DOMAIN req[r].stack :
    /\ Emptied(conv, req[r], i)
    /\ ~Coming(req[r].stack[i], "list") =>
         \A p \in Callers : ~(req[p].verb = "invoke" /\ req[p].on = req[r].stack[i].on)
Deletes == \A r \in Callers : Cleared(r)

\* Nobody comes back, and who is new was invoked.
Fading ==
  /\ \A c \in Convs : conv[c].state # "none" =>
       /\ There(conv', c) => There(conv, c)
       /\ conv'[c].state = "open" => conv[c].state = "open"
  /\ \A d \in Convs : There(conv', d) =>
       \/ There(conv, d) /\ conv'[d].parent = conv[d].parent
       \/ \E p \in Callers : req[p].verb = "invoke" /\ req[p].on = conv'[d].parent

LEMMA ClearedKept ==
  ASSUME Typed, Planned, Deletes, Fading, NEW p \in Callers, req'[p] = req[p],
         NEW r \in Callers, \A q \in Callers \ {r} : req'[q] = req[q],
         req'[r].verb = "invoke" =>
           (req[r].verb = "invoke" /\ req'[r].on = req[r].on) \/ (req'[r].on \in Convs /\ conv[req'[r].on].state = "open")
  PROVE  Cleared(p)'
<1> SUFFICES ASSUME req[p].verb = "delete", NEW i \in DOMAIN req[p].stack
             PROVE  /\ Emptied(conv', req[p], i)
                    /\ ~Coming(req[p].stack[i], "list") =>
                         \A q \in Callers : ~(req'[q].verb = "invoke" /\ req'[q].on = req[p].stack[i].on)
  BY DEF Cleared
<1> DEFINE f == req[p].stack[i]
<1>1. /\ Emptied(conv, req[p], i)
      /\ ~Coming(f, "list") => \A q \in Callers : ~(req[q].verb = "invoke" /\ req[q].on = f.on)
  BY DEF Deletes, Cleared
<1>2. f \in Frame /\ f.on \in Convs /\ InPlan(conv, req[p].verb, f)
  BY FramesAre DEF Planned, InPlans, Frame
<1>3. conv[f.on].state # "none"
  BY <1>2 DEF InPlan
<1> HIDE DEF f
<1>4. (There(conv', f.on) => There(conv, f.on)) /\ (conv'[f.on].state = "open" => conv[f.on].state = "open")
  BY <1>2, <1>3 DEF Fading
<1>5. ASSUME ~Coming(f, "list"), NEW q \in Callers, req'[q].verb = "invoke", req'[q].on = f.on PROVE FALSE
  <2>1. conv[f.on].state # "open"
    BY <1>1, <1>5 DEF Emptied, f
  <2>2. req[q].verb = "invoke" /\ req[q].on = f.on
    BY <1>2, <1>5, <2>1
  <2> QED BY <1>1, <1>5, <2>2
<1>6. ASSUME ~Coming(f, "list"), NEW d \in Convs, There(conv', d), conv'[d].parent = f.on
      PROVE  There(conv, d) /\ conv[d].parent = f.on
  BY <1>1, <1>6 DEF Fading
<1>7. Coming(f, "delete") \/ ~There(conv', f.on)
  BY <1>1, <1>4 DEF Emptied, f
<1>8. ~Coming(f, "list") => conv'[f.on].state # "open"
  BY <1>1, <1>4 DEF Emptied, f
<1>9. ASSUME ~Coming(f, "list"), NEW d \in Convs, There(conv', d), conv'[d].parent = f.on
      PROVE  d \in f.kids \/ (i > 1 /\ req[p].stack[i - 1].on = d)
  BY <1>1, <1>6, <1>9 DEF Emptied, f
<1>10. Emptied(conv', req[p], i)
  BY <1>7, <1>8, <1>9 DEF Emptied, f
<1> QED BY <1>5, <1>10 DEF f

LEMMA DeletesMove ==
  ASSUME Typed, Planned, Deletes, Fading, NEW r \in Callers, \A q \in Callers \ {r} : req'[q] = req[q],
         req'[r].verb = "invoke" =>
           (req[r].verb = "invoke" /\ req'[r].on = req[r].on) \/ (req'[r].on \in Convs /\ conv[req'[r].on].state = "open"),
         Cleared(r)'
  PROVE  Deletes'
<1> SUFFICES ASSUME NEW p \in Callers \ {r} PROVE Cleared(p)'
  BY DEF Deletes
<1> QED BY ClearedKept

Steady == \A c \in Convs : conv'[c].state = conv[c].state /\ conv'[c].parent = conv[c].parent

\* Nobody is invoked, reopened or moved.
Less ==
  \A c \in Convs : /\ conv'[c].parent = conv[c].parent /\ (There(conv', c) => There(conv, c))
                   /\ conv'[c].state = "open" => conv[c].state = "open"

LEMMA LessFades == (Steady => Less) /\ (Less => Fading)
BY DEF Steady, Less, Fading, There

\* A frame of a walk that goes on is as empty as before.
LEMMA EmptiedLess ==
  ASSUME NEW q, NEW w, NEW i, Less, Typed, NEW j, q.stack[i] \in Frame, w.stack[j] = q.stack[i], Emptied(conv, q, i),
         \A d \in Convs : i > 1 /\ q.stack[i - 1].on = d /\ There(conv, d) => j > 1 /\ w.stack[j - 1].on = d
  PROVE  Emptied(conv', w, j)
<1> DEFINE f == q.stack[i]
<1>1. f.on \in Convs
  BY DEF Frame
<1>2. (There(conv', f.on) => There(conv, f.on)) /\ (conv'[f.on].state = "open" => conv[f.on].state = "open")
  BY <1>1 DEF Less
<1> QED BY <1>2 DEF Emptied, Less

LEMMA WalkListsDeletes ==
  ASSUME Typed, Planned, Clean', Deletes, NEW r \in Callers, WalkLists(r)
  PROVE  Deletes'
<1> DEFINE kids == IF req[r].verb = "delete" THEN Members(Top(r).on) ELSE Members(Top(r).on) \cap Listed.open
           g == Listing(Top(r), kids)
<1>1. Typed' /\ Top(r).todo # <<>> /\ kids \in SUBSET Convs /\ TopBecomes(r, g)
  BY WalkListsTyped
<1>2. req[r].pc = "walk" /\ Top(r) \in Frame /\ Top(r).on \in Convs /\ req[r] \in Requests /\ Top(r) = req[r].stack[1]
      /\ 1 \in DOMAIN req[r].stack
  BY Walking DEF WalkLists, Going
<1>3. Steady /\ \A q \in Callers \ {r} : req'[q] = req[q]
  BY DEF WalkLists, OnStack, Typed, Shapes, Steady
<1>4. req'[r].verb = req[r].verb /\ req[r].verb # "invoke"
  BY <1>1, <1>2, Walking DEF TopBecomes, Requests
<1>5. g \in Frame /\ g.on = Top(r).on /\ g.kids = kids
  BY <1>1, <1>2, ListingOf
<1>6. ASSUME req[r].verb = "delete"
      PROVE  /\ kids = Members(Top(r).on) /\ conv[Top(r).on].state # "open"
             /\ \A p \in Callers : ~(req[p].verb = "invoke" /\ req[p].on = Top(r).on)
             /\ \A d \in Convs : There(conv, d) /\ conv[d].parent = Top(r).on => d \in kids
  <2>1. ~past'.took /\ ~past'.misled
    BY DEF Clean
  <2>2. ~(Top(r).on \in Opened \/ \E q \in Callers : req[q].verb = "invoke" /\ req[q].on = Top(r).on)
    BY <1>6, <2>1 DEF WalkLists, Typed, Shapes, Pasts
  <2>3. ~\E d \in Convs \ Members(Top(r).on) : Present(d) /\ conv[d].parent = Top(r).on
    BY <2>1 DEF WalkLists, Typed, Shapes, Pasts
  <2> QED BY <1>2, <1>6, <2>2, <2>3 DEF Opened, Present, There
<1> HIDE DEF kids
<1>7. req[r].verb = "delete" => Coming(g, "delete") \/ ~There(conv, Top(r).on)
  <2>1. Top(r).todo[1] = "list"
    BY <1>1, <1>2, RestOf DEF WalkLists, Going
  <2>2. InPlan(conv, req[r].verb, Top(r))
    BY <1>2, TopPlan
  <2>3. \A d \in kids : conv[d].state # "none"
    BY KidsAreThere DEF Members, kids
  <2>4. Coming(Top(r), "delete") => Coming(g, "delete")
    BY <1>1, <1>2, <2>1, <2>2, <2>3, ListingInPlan
  <2>5. req[r].verb = "delete" => Coming(Top(r), "delete") \/ ~There(conv, Top(r).on)
    BY <1>2 DEF Deletes, Cleared, Emptied
  <2> QED BY <2>4, <2>5
<1> HIDE DEF g
<1>8. Cleared(r)'
  <2> SUFFICES ASSUME req[r].verb = "delete", NEW i \in DOMAIN req[r].stack
               PROVE  /\ Emptied(conv', req'[r], i)
                      /\ ~Coming(req'[r].stack[i], "list") =>
                           \A p \in Callers : ~(req'[p].verb = "invoke" /\ req'[p].on = req'[r].stack[i].on)
    BY <1>1, <1>4 DEF Cleared, TopBecomes
  <2>1. \A p \in Callers : req'[p].verb = "invoke" => req[p].verb = "invoke" /\ req'[p].on = req[p].on
    BY <1>3, <1>4
  <2>2. CASE i = 1
    <3>1. req'[r].stack[i] = g
      BY <1>1, <2>2 DEF TopBecomes
    <3>2. conv'[g.on].state = conv[g.on].state /\ g.on \in Convs
      BY <1>2, <1>3, <1>5 DEF Steady
    <3>3. Emptied(conv', req'[r], i)
      BY <1>3, <1>5, <1>6, <1>7, <3>1, <3>2 DEF Emptied, Steady, There
    <3> QED BY <1>5, <1>6, <2>1, <3>1, <3>3
  <2>3. CASE i # 1
    <3>1. i > 1 /\ i - 1 \in DOMAIN req[r].stack /\ (i - 1 = 1 \/ i - 1 > 1)
      BY <2>3, FramesAre
    <3>2. req'[r].stack[i] = req[r].stack[i] /\ req[r].stack[i] \in Frame
      BY <1>1, <3>1, FramesAre DEF TopBecomes
    <3>3. req'[r].stack[i - 1].on = req[r].stack[i - 1].on
      BY <1>1, <1>2, <1>5, <3>1 DEF TopBecomes
    <3>4. /\ Emptied(conv, req[r], i)
          /\ ~Coming(req[r].stack[i], "list") =>
               \A p \in Callers : ~(req[p].verb = "invoke" /\ req[p].on = req[r].stack[i].on)
      BY DEF Deletes, Cleared
    <3>5. Emptied(conv', req'[r], i)
      BY <1>3, <3>1, <3>2, <3>3, <3>4, LessFades, EmptiedLess
    <3> QED BY <2>1, <3>2, <3>4, <3>5
  <2> QED BY <2>2, <2>3
<1> QED BY <1>3, <1>4, <1>8, LessFades, DeletesMove

\* The steps of a walk that hide nothing: Deletes holds when the frames of its own
\* request are as empty as they were.
LEMMA QuietDeletes ==
  ASSUME Typed, Planned, Deletes, Less, NEW r \in Callers, \A q \in Callers \ {r} : req'[q] = req[q],
         req'[r].verb # "invoke",
         req'[r].verb = "delete" => \A i \in DOMAIN req'[r].stack :
           /\ Emptied(conv', req'[r], i)
           /\ Coming(req'[r].stack[i], "list")
              \/ /\ req[r].verb = "delete"
                 /\ \E j \in DOMAIN req[r].stack :
                      req[r].stack[j].on = req'[r].stack[i].on /\ ~Coming(req[r].stack[j], "list")
  PROVE  Deletes'
<1>1. \A p \in Callers : req'[p].verb = "invoke" => req[p].verb = "invoke" /\ req'[p].on = req[p].on
  OBVIOUS
<1>2. Cleared(r)'
  <2> SUFFICES ASSUME req'[r].verb = "delete", NEW i \in DOMAIN req'[r].stack, ~Coming(req'[r].stack[i], "list"),
                      NEW p \in Callers, req'[p].verb = "invoke", req'[p].on = req'[r].stack[i].on
               PROVE  FALSE
    BY DEF Cleared
  <2>1. PICK j \in DOMAIN req[r].stack : req[r].stack[j].on = req'[r].stack[i].on /\ ~Coming(req[r].stack[j], "list")
    OBVIOUS
  <2>2. req[r].verb = "delete" /\ req[p].verb = "invoke" /\ req[p].on = req[r].stack[j].on
    BY <1>1, <2>1
  <2> QED BY <2>1, <2>2 DEF Deletes, Cleared
<1> QED BY <1>2, LessFades, DeletesMove

LEMMA WalkDescendsDeletes ==
  ASSUME Typed, Planned, Deletes, NEW r \in Callers, WalkDescends(r)
  PROVE  Deletes'
<1>1. /\ Typed' /\ req[r].pc = "walk" /\ Top(r).todo # <<>> /\ Top(r).todo[1] = "kids" /\ Top(r) \in Frame
      /\ req[r].stack[1] = Top(r) /\ req[r] \in Requests /\ 1 \in DOMAIN req[r].stack /\ Top(r).on \in Convs
      /\ req[r].verb # "invoke"
  BY WalkDescendsTyped, Walking, RestOf
<1>2. Steady /\ \A q \in Callers \ {r} : req'[q] = req[q]
  BY DEF WalkDescends, OnStack, Typed, Shapes, Steady
<1>3. \A j \in DOMAIN req[r].stack : req[r].verb = "delete" => Emptied(conv, req[r], j)
  BY DEF Deletes, Cleared
<1>4. CASE Top(r).kids = {} /\ TopBecomes(r, Rest(Top(r)))
  <2> DEFINE g == Rest(Top(r))
  <2>1. g \in Frame /\ g.on = Top(r).on /\ g.kids = {} /\ \A step \in {"list", "delete"} : Coming(Top(r), step) <=> Coming(g, step)
    BY <1>1, <1>4, RestOf, ComingRest
  <2> HIDE DEF g
  <2>2. req'[r].verb = req[r].verb /\ DOMAIN req'[r].stack = DOMAIN req[r].stack
    BY <1>1, <1>4 DEF TopBecomes, Requests
  <2>3. ASSUME req[r].verb = "delete", NEW i \in DOMAIN req[r].stack
        PROVE  /\ Emptied(conv', req'[r], i)
               /\ req'[r].stack[i].on = req[r].stack[i].on
               /\ Coming(req'[r].stack[i], "list") <=> Coming(req[r].stack[i], "list")
    <3>1. CASE i = 1
      <4>1. req'[r].stack[i] = g
        BY <1>4, <3>1 DEF TopBecomes, g
      <4>2. conv'[g.on].state = conv[g.on].state
        BY <1>1, <1>2, <2>1 DEF Steady
      <4>3. Emptied(conv', req'[r], i)
        BY <1>1, <1>2, <1>3, <1>4, <2>1, <2>3, <3>1, <4>1, <4>2 DEF Emptied, Steady, There
      <4> QED BY <1>1, <2>1, <3>1, <4>1, <4>3
    <3>2. CASE i # 1
      <4>1. i > 1 /\ i - 1 \in DOMAIN req[r].stack /\ (i - 1 = 1 \/ i - 1 > 1) /\ req[r].stack[i] \in Frame
        BY <2>3, <3>2, FramesAre
      <4>2. req'[r].stack[i] = req[r].stack[i] /\ req'[r].stack[i - 1].on = req[r].stack[i - 1].on
        BY <1>1, <1>4, <2>1, <4>1 DEF TopBecomes, g
      <4>3. Emptied(conv', req'[r], i)
        BY <1>2, <1>3, <2>3, <4>1, <4>2, LessFades, EmptiedLess
      <4> QED BY <4>2, <4>3
    <3> QED BY <3>1, <3>2
  <2> QED BY <1>1, <1>2, <2>2, <2>3, LessFades, QuietDeletes
<1>5. CASE \E d \in Top(r).kids :
             LET todo == IF req[r].verb = "delete" THEN <<"list", "delete">> ELSE CloseTree
                 g == [on |-> d, todo |-> todo, kids |-> {}]
                 f == [Top(r) EXCEPT !.kids = @ \ {d}]
                 t == <<g>> \o <<f>> \o Tail(req[r].stack) IN
             /\ d \in Convs /\ todo \in Seq(Steps) /\ g \in Frame /\ f \in Frame
             /\ req'[r] = [req[r] EXCEPT !.stack = t]
             /\ DOMAIN t = 1..(Len(req[r].stack) + 1) /\ t[1] = g /\ t[2] = f
             /\ \A i \in DOMAIN t : i > 2 => t[i] = req[r].stack[i - 1]
  <2> DEFINE todo == IF req[r].verb = "delete" THEN <<"list", "delete">> ELSE CloseTree
             s == req[r].stack
  <2>1. PICK d \in Top(r).kids :
          LET g == [on |-> d, todo |-> todo, kids |-> {}]
              f == [Top(r) EXCEPT !.kids = @ \ {d}]
              t == <<g>> \o <<f>> \o Tail(s) IN
          /\ d \in Convs /\ todo \in Seq(Steps) /\ g \in Frame /\ f \in Frame
          /\ req'[r] = [req[r] EXCEPT !.stack = t]
          /\ DOMAIN t = 1..(Len(s) + 1) /\ t[1] = g /\ t[2] = f
          /\ \A i \in DOMAIN t : i > 2 => t[i] = s[i - 1]
    BY <1>5
  <2> DEFINE g == [on |-> d, todo |-> todo, kids |-> {}]
             f == [Top(r) EXCEPT !.kids = @ \ {d}]
             t == <<g>> \o <<f>> \o Tail(s)
  <2>2. f.on = Top(r).on /\ f.todo = Top(r).todo /\ f.kids = Top(r).kids \ {d} /\ g.on = d
    BY <1>1 DEF Frame
  <2>3. req[r].verb = "delete" => Coming(g, "delete") /\ Coming(g, "list")
    BY DEF Coming
  <2> HIDE DEF g, f
  <2>4. req'[r].stack = t /\ req'[r].verb = req[r].verb
    BY <1>1, <2>1 DEF Requests, g, f
  <2>5. DOMAIN t = 1..(Len(s) + 1) /\ t[1] = g /\ t[2] = f /\ \A i \in DOMAIN t : i > 2 => t[i] = s[i - 1]
    BY <2>1 DEF g, f
  <2> HIDE DEF t
  <2>6. ASSUME req[r].verb = "delete", NEW i \in DOMAIN t
        PROVE  /\ Emptied(conv', req'[r], i)
               /\ \/ Coming(t[i], "list")
                  \/ \E j \in DOMAIN s : s[j].on = t[i].on /\ ~Coming(s[j], "list")
    <3>1. i \in Nat /\ (i = 1 \/ i = 2 \/ i > 2) /\ Len(s) \in Nat
      BY <2>5, <2>6, FramesAre
    <3>2. CASE i = 1
      BY <2>3, <2>4, <2>5, <2>6, <3>2 DEF Emptied
    <3>3. CASE i = 2
      <4>1. Emptied(conv, req[r], 1) /\ s[1] = Top(r)
        BY <1>1, <1>3, <2>6
      <4>2. conv'[f.on].state = conv[f.on].state
        BY <1>1, <1>2, <2>2 DEF Steady
      <4>3. Emptied(conv', req'[r], i)
        <5>1. Coming(f, "delete") <=> Coming(Top(r), "delete")
          BY <2>2 DEF Coming
        <5>2. Coming(f, "list") <=> Coming(Top(r), "list")
          BY <2>2 DEF Coming
        <5>3. req'[r].stack[i] = f /\ req'[r].stack[i - 1].on = d
          BY <2>2, <2>4, <2>5, <3>3
        <5> QED BY <1>2, <2>2, <3>3, <4>1, <4>2, <5>1, <5>2, <5>3 DEF Emptied, Steady, There
      <4> QED BY <1>1, <2>2, <2>5, <3>3, <4>1, <4>3 DEF Coming
    <3>4. CASE i > 2
      <4>1. i - 1 \in DOMAIN s /\ s[i - 1] \in Frame /\ i - 1 > 1 /\ t[i] = s[i - 1]
        BY <2>5, <2>6, <3>1, <3>4, FramesAre
      <4>2. i - 1 = 2 \/ i - 1 > 2
        BY <3>1, <3>4
      <4>3. t[i - 1].on = s[i - 2].on
        <5>1. i - 1 = 2 => t[i - 1].on = s[i - 2].on
          BY <1>1, <2>2, <2>5
        <5>2. i - 1 > 2 => i - 1 \in DOMAIN t
          BY <2>5, <2>6, <3>1
        <5>3. i - 1 > 2 => t[i - 1] = s[i - 2]
          BY <2>5, <3>1, <5>2
        <5> QED BY <4>2, <5>1, <5>3
      <4>4. (i - 1) - 1 = i - 2
        BY <3>1
      <4>5. Emptied(conv', req'[r], i)
        <5>1. Less /\ Emptied(conv, req[r], i - 1)
          BY <1>2, <1>3, <2>6, <4>1, LessFades
        <5>2. req'[r].stack[i] = req[r].stack[i - 1]
          BY <2>4, <4>1
        <5>3. i > 1 /\ req'[r].stack[i - 1].on = req[r].stack[(i - 1) - 1].on
          BY <2>4, <3>1, <3>4, <4>3, <4>4
        <5> QED BY <4>1, <5>1, <5>2, <5>3, EmptiedLess
      <4>6. ~Coming(t[i], "list") => \E j \in DOMAIN s : s[j].on = t[i].on /\ ~Coming(s[j], "list")
        BY <4>1
      <4> QED BY <4>5, <4>6
    <3> QED BY <3>1, <3>2, <3>3, <3>4
  <2> QED BY <1>1, <1>2, <2>4, <2>6, LessFades, QuietDeletes
<1> QED BY <1>4, <1>5, WalkDescendsTyped

LEMMA WalkAscendsDeletes ==
  ASSUME Typed, Planned, Deletes, NEW r \in Callers, WalkAscends(r)
  PROVE  Deletes'
<1>1. /\ req[r].pc = "walk" /\ Top(r).todo = <<>> /\ Top(r) \in Frame /\ req[r].stack[1] = Top(r) /\ req[r] \in Requests
      /\ 1 \in DOMAIN req[r].stack /\ req[r].verb # "invoke"
  BY WalkAscendsTyped, Walking
<1>2. Steady /\ \A q \in Callers \ {r} : req'[q] = req[q]
  BY DEF WalkAscends, OnStack, Typed, Shapes, Steady
<1>3. CASE req'[r] = Idle
  BY <1>2, <1>3, LessFades, QuietDeletes DEF Idle
<1>4. CASE /\ req'[r] = [req[r] EXCEPT !.stack = Tail(req[r].stack)]
           /\ DOMAIN req'[r].stack = 1..(Len(req[r].stack) - 1)
           /\ \A i \in DOMAIN req'[r].stack : i + 1 \in DOMAIN req[r].stack /\ req'[r].stack[i] = req[r].stack[i + 1]
  <2>1. req'[r].verb = req[r].verb
    BY <1>1, <1>4 DEF Requests
  <2>2. ASSUME req[r].verb = "delete", NEW i \in DOMAIN req'[r].stack
        PROVE  Emptied(conv', req'[r], i)
    <3>1. i \in Nat /\ i > 0 /\ Len(req[r].stack) \in Nat /\ i + 1 > 1 /\ (i + 1) - 1 = i /\ req[r].stack[i + 1] \in Frame
      BY <1>4, <2>2, FramesAre
    <3>2. Emptied(conv, req[r], i + 1) /\ Emptied(conv, req[r], 1)
      BY <1>1, <1>4, <2>2 DEF Deletes, Cleared
    <3>3. ~There(conv, req[r].stack[1].on)
      BY <1>1, <3>2 DEF Emptied, Coming
    <3>4. CASE i = 1
      <4>1. \A d \in Convs : req[r].stack[(i + 1) - 1].on = d => ~There(conv, d)
        BY <3>1, <3>3, <3>4
      <4>2. Less /\ req'[r].stack[i] = req[r].stack[i + 1]
        BY <1>2, <1>4, <2>2, LessFades
      <4> QED BY <3>1, <3>2, <4>1, <4>2, EmptiedLess
    <3>5. CASE i # 1
      <4>1. i > 1 /\ i - 1 \in DOMAIN req'[r].stack /\ (i - 1) + 1 = i
        BY <1>4, <2>2, <3>1, <3>5
      <4>2. req'[r].stack[i - 1] = req[r].stack[i]
        BY <1>4, <4>1
      <4>3. Less /\ req'[r].stack[i] = req[r].stack[i + 1]
        BY <1>2, <1>4, <2>2, LessFades
      <4>4. req'[r].stack[i - 1].on = req[r].stack[(i + 1) - 1].on
        BY <3>1, <4>2
      <4>5. \A d \in Convs : i + 1 > 1 /\ req[r].stack[(i + 1) - 1].on = d /\ There(conv, d) =>
              i > 1 /\ req'[r].stack[i - 1].on = d
        BY <4>1, <4>4
      <4>6. req[r].stack[i + 1] \in Frame /\ Emptied(conv, req[r], i + 1)
        BY <3>1, <3>2
      <4> QED BY <4>3, <4>5, <4>6, EmptiedLess
    <3> QED BY <3>4, <3>5
  <2> QED BY <1>1, <1>2, <1>4, <2>1, <2>2, LessFades, QuietDeletes
<1> QED BY <1>3, <1>4, WalkAscendsTyped

LEMMA WalkClosesDeletes ==
  ASSUME Typed, Planned, Deletes, NEW r \in Callers, WalkCloses(r) \/ WalkDeletes(r)
  PROVE  Deletes'
<1> DEFINE g == Rest(Top(r))
<1>1. /\ req[r].pc = "walk" /\ Top(r).todo # <<>> /\ TopBecomes(r, g) /\ Top(r) \in Frame /\ Top(r).on \in Convs
      /\ Top(r) = req[r].stack[1] /\ 1 \in DOMAIN req[r].stack /\ req[r] \in Requests /\ req[r].verb # "invoke"
  BY WalkClosesTyped, Walking
<1>2. \A d \in Convs : conv'[d].parent = conv[d].parent /\ (d # Top(r).on => conv'[d].state = conv[d].state)
  BY WalkClosesTyped
<1>3. \A p \in Callers \ {r} : req'[p] = req[p]
  BY DEF WalkCloses, WalkDeletes, OnStack, Typed, Shapes
<1>4. g \in Frame /\ g.on = Top(r).on /\ g.kids = Top(r).kids /\ Top(r).todo[1] = Head(Top(r).todo) /\ 1 \in DOMAIN Top(r).todo
  BY <1>1, RestOf
<1>5. InPlan(conv, req[r].verb, Top(r))
  BY <1>1, TopPlan
<1>6. req'[r].verb = req[r].verb /\ DOMAIN req'[r].stack = DOMAIN req[r].stack
  BY <1>1 DEF TopBecomes, Requests
<1>7. CASE WalkCloses(r)
  <2>1. Top(r).todo[1] = "close"
    BY <1>4, <1>7 DEF WalkCloses, Going
  <2>2. Coming(Top(r), "close")
    BY <1>4, <2>1 DEF Coming
  <2>3. req[r].verb # "delete"
    BY <1>5, <2>2 DEF InPlan
  <2>4. conv'[Top(r).on].state = (IF conv[Top(r).on].state = "open" THEN "closed" ELSE conv[Top(r).on].state)
    BY <1>7, WalkClosesTyped
  <2>5. Less
    BY <1>2, <2>4 DEF Less, There
  <2> QED BY <1>1, <1>3, <1>6, <2>3, <2>5, QuietDeletes
<1>8. CASE WalkDeletes(r)
  <2>1. Top(r).todo[1] = "delete"
    BY <1>4, <1>8 DEF WalkDeletes, Going
  <2>2. Coming(Top(r), "delete")
    BY <1>4, <2>1 DEF Coming
  <2>3. req[r].verb = "delete"
    BY <1>5, <2>2 DEF InPlan
  <2>4. ~Coming(Top(r), "list")
    BY <1>5, <2>1, <2>3 DEF InPlan, Coming
  <2>5. ~Coming(g, "list")
    BY <1>1, <2>4, ComingRest
  <2>6. ~There(conv', Top(r).on) /\ conv'[Top(r).on].state # "open"
    BY <1>8, WalkClosesTyped DEF There, Present
  <2>7. Less
    BY <1>2, <2>6 DEF Less, There
  <2> HIDE DEF g
  <2>8. ASSUME NEW i \in DOMAIN req[r].stack
        PROVE  /\ Emptied(conv', req'[r], i)
               /\ req'[r].stack[i].on = req[r].stack[i].on
               /\ Coming(req'[r].stack[i], "list") <=> Coming(req[r].stack[i], "list")
    <3>1. Emptied(conv, req[r], i)
      BY <2>3 DEF Deletes, Cleared
    <3>2. CASE i = 1
      <4>1. req'[r].stack[i] = g
        BY <1>1, <3>2 DEF TopBecomes
      <4>2. Emptied(conv', req'[r], i)
        BY <1>1, <1>4, <2>4, <2>6, <2>7, <3>1, <3>2, <4>1 DEF Emptied, Less
      <4> QED BY <1>1, <1>4, <2>4, <2>5, <3>2, <4>1, <4>2
    <3>3. CASE i # 1
      <4>1. i > 1 /\ i - 1 \in DOMAIN req[r].stack /\ (i - 1 = 1 \/ i - 1 > 1) /\ req[r].stack[i] \in Frame
        BY <2>8, <3>3, FramesAre
      <4>2. req'[r].stack[i] = req[r].stack[i] /\ req'[r].stack[i - 1].on = req[r].stack[i - 1].on
        BY <1>1, <1>4, <4>1 DEF TopBecomes
      <4>3. Emptied(conv', req'[r], i)
        BY <2>7, <3>1, <4>1, <4>2, EmptiedLess
      <4> QED BY <4>2, <4>3
    <3> QED BY <3>2, <3>3
  <2> QED BY <1>1, <1>3, <1>6, <2>3, <2>7, <2>8, QuietDeletes
<1> QED BY <1>7, <1>8

LEMMA BeginsDeletes ==
  ASSUME Typed, Planned, Deletes, NEW r \in Callers, NEW verb, NEW c, NEW todo, Begins(r, verb, c, todo), UNCHANGED conv
  PROVE  Deletes'
<1> DEFINE g == [on |-> c, todo |-> todo, kids |-> {}]
<1>1. /\ DOMAIN req'[r].stack = {1} /\ req'[r].stack[1] = g /\ req'[r].verb = verb
      /\ \A p \in Callers \ {r} : req'[p] = req[p]
      /\ verb = "delete" => Coming(g, "delete") /\ Coming(g, "list")
  BY BeginsInPlan
<1>2. verb # "invoke" /\ Less
  BY LessFades DEF Begins, Steady
<1> HIDE DEF g
<1>3. verb = "delete" => Emptied(conv', req'[r], 1)
  BY <1>1 DEF Emptied
<1> QED BY <1>1, <1>2, <1>3, QuietDeletes

LEMMA InvokesDeletes ==
  ASSUME Typed, Planned, Deletes, NEW r \in Callers,
         \/ Invokes(r) \/ InvokeFails(r) \/ WalkFails(r)
         \/ \E c \in Convs, e \in Entries : InvokeStarts(r, c, e)
  PROVE  Deletes'
<1>1. CASE InvokeRechecks(r) /\ ClosedSince(req[r].on)
  <2>1. Begins(r, "recheck", req[r].new, <<"close">>)
    BY <1>1, RootIsOne, WhoBegins
  <2> QED BY <1>1, <2>1, BeginsDeletes DEF InvokeRechecks
<1>2. CASE \E c \in Convs, e \in Entries : InvokeStarts(r, c, e) /\ BudgetSpent(c)
  <2>1. PICK c \in Convs, e \in Entries : InvokeStarts(r, c, e) /\ BudgetSpent(c)
    BY <1>2
  <2>2. Begins(r, "close", c, Exceeded(c))
    BY <2>1, WhoBegins
  <2> QED BY <2>1, <2>2, BeginsDeletes DEF InvokeStarts
<1>3. ASSUME Fading, \A p \in Callers \ {r} : req'[p] = req[p], req'[r].verb # "delete",
             req'[r].verb = "invoke" =>
               (req[r].verb = "invoke" /\ req'[r].on = req[r].on) \/ (req'[r].on \in Convs /\ conv[req'[r].on].state = "open")
      PROVE  Deletes'
  BY <1>3, DeletesMove DEF Cleared
<1>4. CASE \E c \in Convs, e \in Entries : InvokeStarts(r, c, e) /\ ~BudgetSpent(c)
  <2>1. PICK c \in Convs, e \in Entries : InvokeStarts(r, c, e) /\ ~BudgetSpent(c)
    BY <1>4
  <2>2. /\ req' = [req EXCEPT ![r] = [Idle EXCEPT !.verb = "invoke", !.on = c, !.entry = e, !.pc = "look"]]
        /\ UNCHANGED conv /\ conv[c].state = "open"
    BY <2>1 DEF InvokeStarts, Opened
  <2>3. req'[r].verb = "invoke" /\ req'[r].on = c /\ \A p \in Callers \ {r} : req'[p] = req[p]
    BY <2>2 DEF Typed, Shapes, Idle
  <2>4. Fading
    BY <2>2, LessFades DEF Steady
  <2> QED BY <1>3, <2>2, <2>3, <2>4
<1>5. CASE InvokeFails(r) \/ WalkFails(r) \/ (InvokeRechecks(r) /\ ~ClosedSince(req[r].on))
  <2>1. req' = [req EXCEPT ![r] = Idle] /\ UNCHANGED conv
    BY <1>5 DEF InvokeFails, WalkFails, InvokeRechecks
  <2>2. Fading /\ req'[r].verb = "none" /\ \A p \in Callers \ {r} : req'[p] = req[p]
    BY <2>1, LessFades DEF Steady, Typed, Shapes, Idle
  <2> QED BY <1>3, <2>2
<1>6. CASE InvokeLooks(r) \/ InvokeCounts(r) \/ InvokeCreates(r)
  <2>1. req[r].verb = "invoke" /\ req[r] \in Requests /\ req[r].on \in Convs
    BY <1>6 DEF InvokeLooks, InvokeCounts, InvokeCreates, Typed, Shapes, Sound, Invoking
  <2>2. /\ \A p \in Callers \ {r} : req'[p] = req[p]
        /\ req'[r].verb = "none" \/ (req'[r].verb = "invoke" /\ req'[r].on = req[r].on)
    BY <1>6, <2>1 DEF InvokeLooks, InvokeCounts, InvokeCreates, Typed, Shapes, Requests, Idle
  <2>3. CASE InvokeLooks(r) \/ InvokeCounts(r)
    <3>1. Steady
      BY <2>1, <2>3 DEF InvokeLooks, InvokeCounts, Steady, Typed, Shapes, Conversations
    <3> QED BY <1>3, <2>1, <2>2, <3>1, LessFades
  <2>4. CASE InvokeCreates(r)
    <3>1. PICK d \in Convs :
            /\ conv[d].state = "none"
            /\ conv' = [conv EXCEPT ![d] = [NoConv EXCEPT !.state = "open", !.parent = req[r].on, !.entry = req[r].entry]]
      BY <2>4 DEF InvokeCreates
    <3>2. conv'[d].parent = req[r].on /\ \A c \in Convs \ {d} : conv'[c] = conv[c]
      BY <3>1 DEF Typed, Shapes, NoConv
    <3>3. Fading
      BY <2>1, <3>1, <3>2 DEF Fading, There
    <3> QED BY <1>3, <2>1, <2>2, <3>3
  <2> QED BY <1>6, <2>3, <2>4
<1> QED BY <1>1, <1>2, <1>4, <1>5, <1>6 DEF Invokes

LEMMA OthersDeletes ==
  ASSUME Typed, Planned, Clean', Deletes, Reopen \/ CacheFallsBehind \/ CacheSyncs \/ UNCHANGED vars
  PROVE  Deletes'
<1>1. CASE Reopen
  <2>1. ~past'.took
    BY DEF Clean
  <2>2. \A r \in Callers : req[r].verb # "delete"
    BY <1>1, <2>1 DEF Reopen, Typed, Shapes, Pasts
  <2> QED BY <1>1, <2>2 DEF Reopen, Deletes, Cleared
<1>2. CASE CacheFallsBehind \/ CacheSyncs \/ UNCHANGED vars
  BY <1>2 DEF CacheFallsBehind, CacheSyncs, vars, Deletes, Cleared
<1> QED BY <1>1, <1>2

-----------------------------------------------------------------------------
(* Who comes back for a member that is out of order. *)

\* Open below a conversation that is not, or there below one that is deleted.
Adrift(cv, d) ==
  /\ There(cv, d) /\ cv[d].parent # 0
  /\ ~(There(cv, cv[d].parent) /\ (cv[d].state = "open" => cv[cv[d].parent].state = "open"))

Remade(q, d) == q.pc \in {"bump", "recheck"} /\ q.new = d
Reaches(cv, q, d) ==
  \E i \in DOMAIN q.stack :
    \/ q.stack[i].on = d /\ Coming(q.stack[i], "close")
    \/ /\ q.verb # "delete" /\ q.stack[i].on = cv[d].parent
       /\ Coming(q.stack[i], "list") \/ d \in q.stack[i].kids

\* The invoke that made it looks at its caller once more; or, its caller still being
\* there, a walk has it yet to close, or to list.
Awaits(cv, q, d) ==
  \/ Remade(q, d)
  \/ cv[d].state = "open" /\ There(cv, cv[d].parent) /\ Reaches(cv, q, d)

Awaited == \A d \in Convs : Adrift(conv, d) => \E r \in Callers : Awaits(conv, req[r], d)

LEMMA AdriftSame ==
  ASSUME Typed, Steady, NEW d \in Convs
  PROVE  /\ Adrift(conv', d) <=> Adrift(conv, d)
         /\ \A q : Adrift(conv, d) => (Awaits(conv', q, d) <=> Awaits(conv, q, d))
<1>1. conv[d].parent # 0 => conv[d].parent \in Convs
  BY DEF Typed, Shapes, Conversations
<1> QED BY <1>1 DEF Steady, Adrift, Awaits, Reaches, There

LEMMA AwaitedSame ==
  ASSUME Typed, Awaited, Steady, NEW r \in Callers, \A p \in Callers \ {r} : req'[p] = req[p],
         \A d \in Convs : Adrift(conv, d) /\ Awaits(conv, req[r], d) => Awaits(conv, req'[r], d)
  PROVE  Awaited'
<1> SUFFICES ASSUME NEW d \in Convs, Adrift(conv', d) PROVE \E p \in Callers : Awaits(conv', req'[p], d)
  BY DEF Awaited
<1>1. Adrift(conv, d)
  BY AdriftSame
<1>2. PICK p \in Callers : Awaits(conv, req[p], d)
  BY <1>1 DEF Awaited
<1>3. Awaits(conv, req'[p], d)
  BY <1>1, <1>2
<1> QED BY <1>1, <1>3, AdriftSame

\* A request that does not walk waits for nobody, but for what it made.
LEMMA NoWalkNoReach ==
  ASSUME Typed, NEW r \in Callers, req[r].pc # "walk", NEW d
  PROVE  ~Reaches(conv, req[r], d)
<1>1. req[r].stack = <<>>
  BY FramesAre DEF Typed, Sound
<1> QED BY <1>1 DEF Reaches

LEMMA WalkListsAwaited ==
  ASSUME Typed, Planned, Clean', Awaited, NEW r \in Callers, WalkLists(r)
  PROVE  Awaited'
<1> DEFINE kids == IF req[r].verb = "delete" THEN Members(Top(r).on) ELSE Members(Top(r).on) \cap Listed.open
           g == Listing(Top(r), kids)
<1>1. Typed' /\ Top(r).todo # <<>> /\ kids \in SUBSET Convs /\ TopBecomes(r, g)
  BY WalkListsTyped
<1>2. req[r].pc = "walk" /\ Top(r) \in Frame /\ Top(r).on \in Convs /\ req[r] \in Requests /\ Top(r) = req[r].stack[1]
      /\ 1 \in DOMAIN req[r].stack
  BY Walking DEF WalkLists, Going
<1>3. Steady /\ \A q \in Callers \ {r} : req'[q] = req[q]
  BY DEF WalkLists, OnStack, Typed, Shapes, Steady
<1>4. g \in Frame /\ g.on = Top(r).on /\ g.kids = kids
  BY <1>1, <1>2, ListingOf
<1>5. Coming(Top(r), "close") => Coming(g, "close")
  <2>1. Top(r).todo[1] = "list"
    BY <1>1, <1>2, RestOf DEF WalkLists, Going
  <2>2. InPlan(conv, req[r].verb, Top(r))
    BY <1>2, TopPlan
  <2>3. \A d \in kids : conv[d].state # "none"
    BY KidsAreThere DEF Members
  <2> HIDE DEF kids
  <2> QED BY <1>1, <1>2, <2>1, <2>2, <2>3, ListingInPlan
<1>6. ASSUME NEW d \in Convs, conv[d].state = "open", conv[d].parent = Top(r).on, req[r].verb # "delete" PROVE d \in kids
  <2>1. ~past'.misled
    BY DEF Clean
  <2>2. d \in Members(Top(r).on)
    BY <1>6, <2>1 DEF WalkLists, Typed, Shapes, Pasts, Present
  <2>3. d # Root
    <3>1. conv[Root].parent = 0 /\ 0 \notin Convs
      BY CoordinationBounds DEF Planned, Grounded
    <3> QED BY <1>2, <1>6, <3>1
  <2>4. d \in Listed.open
    BY <1>6, <2>2, <2>3 DEF Members, Listed, View, Opened, Planned, Grounded
  <2> QED BY <1>6, <2>2, <2>4
<1> HIDE DEF kids
<1>7. req'[r].verb = req[r].verb /\ req'[r].pc = req[r].pc /\ req'[r].new = req[r].new
  BY <1>1, <1>2 DEF TopBecomes, Requests
<1> HIDE DEF g
<1>8. ASSUME NEW d \in Convs, Awaits(conv, req[r], d) PROVE Awaits(conv, req'[r], d)
  <2>1. /\ conv[d].state = "open" /\ There(conv, conv[d].parent) /\ Reaches(conv, req[r], d)
    BY <1>2, <1>8 DEF Awaits, Remade
  <2>2. PICK i \in DOMAIN req[r].stack :
          \/ req[r].stack[i].on = d /\ Coming(req[r].stack[i], "close")
          \/ /\ req[r].verb # "delete" /\ req[r].stack[i].on = conv[d].parent
             /\ Coming(req[r].stack[i], "list") \/ d \in req[r].stack[i].kids
    BY <2>1 DEF Reaches
  <2>3. i \in DOMAIN req'[r].stack
    BY <1>1 DEF TopBecomes
  <2>4. CASE i = 1
    <3>1. req'[r].stack[i] = g /\ req[r].stack[i] = Top(r)
      BY <1>1, <1>2, <2>4 DEF TopBecomes
    <3>2. \/ g.on = d /\ Coming(g, "close")
          \/ req[r].verb # "delete" /\ g.on = conv[d].parent /\ d \in g.kids
      BY <1>4, <1>5, <1>6, <2>1, <2>2, <3>1
    <3>3. Reaches(conv, req'[r], d)
      BY <1>7, <2>3, <3>1, <3>2 DEF Reaches
    <3> QED BY <2>1, <3>3 DEF Awaits
  <2>5. CASE i # 1
    <3>1. i > 1
      BY <2>5, FramesAre
    <3>2. req'[r].stack[i] = req[r].stack[i]
      BY <1>1, <3>1 DEF TopBecomes
    <3>3. Reaches(conv, req'[r], d)
      BY <1>7, <2>2, <2>3, <3>2 DEF Reaches
    <3> QED BY <2>1, <3>3 DEF Awaits
  <2> QED BY <2>4, <2>5
<1> QED BY <1>3, <1>8, AwaitedSame

LEMMA WalkDescendsAwaited ==
  ASSUME Typed, Planned, Awaited, NEW r \in Callers, WalkDescends(r)
  PROVE  Awaited'
<1>1. /\ Typed' /\ req[r].pc = "walk" /\ Top(r).todo # <<>> /\ Top(r).todo[1] = "kids" /\ Top(r) \in Frame
      /\ req[r].stack[1] = Top(r) /\ req[r] \in Requests /\ 1 \in DOMAIN req[r].stack /\ Top(r).on \in Convs
  BY WalkDescendsTyped, Walking, RestOf
<1>2. Steady /\ \A q \in Callers \ {r} : req'[q] = req[q]
  BY DEF WalkDescends, OnStack, Typed, Shapes, Steady
<1>3. ASSUME NEW d \in Convs, Awaits(conv, req[r], d)
      PROVE  /\ conv[d].state = "open" /\ There(conv, conv[d].parent)
             /\ \E i \in DOMAIN req[r].stack :
                  \/ req[r].stack[i].on = d /\ Coming(req[r].stack[i], "close")
                  \/ /\ req[r].verb # "delete" /\ req[r].stack[i].on = conv[d].parent
                     /\ Coming(req[r].stack[i], "list") \/ d \in req[r].stack[i].kids
  BY <1>1, <1>3 DEF Awaits, Remade, Reaches
<1>4. CASE Top(r).kids = {} /\ TopBecomes(r, Rest(Top(r)))
  <2> DEFINE g == Rest(Top(r))
  <2>1. g \in Frame /\ g.on = Top(r).on /\ g.kids = {} /\ \A step \in {"list", "close"} : Coming(Top(r), step) => Coming(g, step)
    BY <1>1, <1>4, RestOf, ComingRest
  <2> HIDE DEF g
  <2>2. req'[r].verb = req[r].verb /\ DOMAIN req'[r].stack = DOMAIN req[r].stack
    BY <1>1, <1>4 DEF TopBecomes, Requests
  <2>3. \A i \in DOMAIN req[r].stack :
          /\ req'[r].stack[i].on = req[r].stack[i].on /\ req'[r].stack[i].kids = req[r].stack[i].kids
          /\ \A step \in {"list", "close"} : Coming(req[r].stack[i], step) => Coming(req'[r].stack[i], step)
    <3> SUFFICES ASSUME NEW i \in DOMAIN req[r].stack
                 PROVE  /\ req'[r].stack[i].on = req[r].stack[i].on /\ req'[r].stack[i].kids = req[r].stack[i].kids
                        /\ \A step \in {"list", "close"} : Coming(req[r].stack[i], step) => Coming(req'[r].stack[i], step)
      OBVIOUS
    <3>1. i = 1 \/ i > 1
      BY FramesAre
    <3>2. i = 1 => req'[r].stack[i] = g /\ req[r].stack[i] = Top(r)
      BY <1>1, <1>4 DEF TopBecomes, g
    <3>3. i > 1 => req'[r].stack[i] = req[r].stack[i]
      BY <1>4 DEF TopBecomes
    <3> QED BY <1>4, <2>1, <3>1, <3>2, <3>3
  <2>4. ASSUME NEW d \in Convs, Awaits(conv, req[r], d) PROVE Awaits(conv, req'[r], d)
    <3>1. Reaches(conv, req'[r], d)
      BY <1>3, <2>2, <2>3, <2>4 DEF Reaches
    <3> QED BY <1>3, <2>4, <3>1 DEF Awaits
  <2> QED BY <1>2, <2>4, AwaitedSame
<1>5. CASE \E d \in Top(r).kids :
             LET todo == IF req[r].verb = "delete" THEN <<"list", "delete">> ELSE CloseTree
                 g == [on |-> d, todo |-> todo, kids |-> {}]
                 f == [Top(r) EXCEPT !.kids = @ \ {d}]
                 t == <<g>> \o <<f>> \o Tail(req[r].stack) IN
             /\ d \in Convs /\ todo \in Seq(Steps) /\ g \in Frame /\ f \in Frame
             /\ req'[r] = [req[r] EXCEPT !.stack = t]
             /\ DOMAIN t = 1..(Len(req[r].stack) + 1) /\ t[1] = g /\ t[2] = f
             /\ \A i \in DOMAIN t : i > 2 => t[i] = req[r].stack[i - 1]
  <2> DEFINE todo == IF req[r].verb = "delete" THEN <<"list", "delete">> ELSE CloseTree
             s == req[r].stack
  <2>1. PICK c \in Top(r).kids :
          LET g == [on |-> c, todo |-> todo, kids |-> {}]
              f == [Top(r) EXCEPT !.kids = @ \ {c}]
              t == <<g>> \o <<f>> \o Tail(s) IN
          /\ c \in Convs /\ todo \in Seq(Steps) /\ g \in Frame /\ f \in Frame
          /\ req'[r] = [req[r] EXCEPT !.stack = t]
          /\ DOMAIN t = 1..(Len(s) + 1) /\ t[1] = g /\ t[2] = f
          /\ \A i \in DOMAIN t : i > 2 => t[i] = s[i - 1]
    BY <1>5
  <2> DEFINE g == [on |-> c, todo |-> todo, kids |-> {}]
             f == [Top(r) EXCEPT !.kids = @ \ {c}]
             t == <<g>> \o <<f>> \o Tail(s)
  <2>2. f.on = Top(r).on /\ f.todo = Top(r).todo /\ f.kids = Top(r).kids \ {c} /\ g.on = c
    BY <1>1 DEF Frame
  <2>3. req[r].verb # "delete" => Coming(g, "close")
    BY DEF Coming, CloseTree
  <2> HIDE DEF g, f
  <2>4. req'[r].stack = t /\ req'[r].verb = req[r].verb
    BY <1>1, <2>1 DEF Requests, g, f
  <2>5. DOMAIN t = 1..(Len(s) + 1) /\ t[1] = g /\ t[2] = f /\ \A i \in DOMAIN t : i > 2 => t[i] = s[i - 1]
    BY <2>1 DEF g, f
  <2> HIDE DEF t
  <2>6. ASSUME NEW d \in Convs, Awaits(conv, req[r], d) PROVE Awaits(conv, req'[r], d)
    <3>1. PICK i \in DOMAIN s :
            \/ s[i].on = d /\ Coming(s[i], "close")
            \/ /\ req[r].verb # "delete" /\ s[i].on = conv[d].parent
               /\ Coming(s[i], "list") \/ d \in s[i].kids
      BY <1>3, <2>6
    <3>2. /\ i \in Nat /\ i > 0 /\ Len(s) \in Nat /\ i <= Len(s) /\ i + 1 \in DOMAIN t /\ 1 \in DOMAIN t /\ 2 \in DOMAIN t
          /\ (i + 1) - 1 = i /\ (i # 1 => i + 1 > 2)
      <4>1. i \in 1..Len(s) /\ Len(s) \in Nat
        BY FramesAre
      <4>2. i + 1 \in 1..(Len(s) + 1) /\ 1 \in 1..(Len(s) + 1) /\ 2 \in 1..(Len(s) + 1)
        BY <4>1
      <4> QED BY <2>5, <4>1, <4>2
    <3>3. CASE i # 1
      <4>1. t[i + 1] = s[i]
        BY <2>5, <3>2, <3>3
      <4> QED BY <1>3, <2>4, <2>6, <3>1, <3>2, <4>1 DEF Awaits, Reaches
    <3>4. CASE i = 1 /\ ~(d = c /\ req[r].verb # "delete")
      <4>1. s[1] = Top(r) /\ t[2] = f
        BY <1>1, <2>5
      <4>2. \A step : Coming(Top(r), step) => Coming(f, step)
        BY <2>2 DEF Coming
      <4>3. \/ f.on = d /\ Coming(f, "close")
            \/ /\ req[r].verb # "delete" /\ f.on = conv[d].parent
               /\ Coming(f, "list") \/ d \in f.kids
        BY <2>2, <3>1, <3>4, <4>1, <4>2
      <4> QED BY <1>3, <2>4, <2>6, <3>2, <4>1, <4>3 DEF Awaits, Reaches
    <3>5. CASE d = c /\ req[r].verb # "delete"
      BY <1>3, <2>2, <2>3, <2>4, <2>5, <2>6, <3>2, <3>5 DEF Awaits, Reaches
    <3> QED BY <3>3, <3>4, <3>5
  <2> QED BY <1>2, <2>6, AwaitedSame
<1> QED BY <1>4, <1>5, WalkDescendsTyped

LEMMA WalkAscendsAwaited ==
  ASSUME Typed, Planned, Awaited, NEW r \in Callers, WalkAscends(r)
  PROVE  Awaited'
<1>1. /\ req[r].pc = "walk" /\ Top(r).todo = <<>> /\ req[r].stack[1] = Top(r) /\ req[r] \in Requests
      /\ 1 \in DOMAIN req[r].stack
  BY WalkAscendsTyped, Walking
<1>2. Steady /\ \A q \in Callers \ {r} : req'[q] = req[q]
  BY DEF WalkAscends, OnStack, Typed, Shapes, Steady
<1>3. \A step : ~Coming(Top(r), step)
  BY <1>1 DEF Coming
<1>4. Top(r).kids = {}
  BY <1>1, TopPlan DEF InPlan
<1>5. ASSUME NEW d \in Convs, Awaits(conv, req[r], d)
      PROVE  /\ conv[d].state = "open" /\ There(conv, conv[d].parent)
             /\ \E i \in DOMAIN req[r].stack :
                  /\ i # 1
                  /\ \/ req[r].stack[i].on = d /\ Coming(req[r].stack[i], "close")
                     \/ /\ req[r].verb # "delete" /\ req[r].stack[i].on = conv[d].parent
                        /\ Coming(req[r].stack[i], "list") \/ d \in req[r].stack[i].kids
  BY <1>1, <1>3, <1>4, <1>5 DEF Awaits, Remade, Reaches
<1>6. CASE Len(req[r].stack) = 1 /\ req'[r] = Idle
  <2>1. \A i \in DOMAIN req[r].stack : i = 1
    BY <1>6, FramesAre
  <2> QED BY <1>2, <1>5, <2>1, AwaitedSame
<1>7. CASE /\ req'[r] = [req[r] EXCEPT !.stack = Tail(req[r].stack)]
           /\ DOMAIN req'[r].stack = 1..(Len(req[r].stack) - 1)
           /\ \A i \in DOMAIN req'[r].stack : i + 1 \in DOMAIN req[r].stack /\ req'[r].stack[i] = req[r].stack[i + 1]
  <2>1. req'[r].verb = req[r].verb
    BY <1>1, <1>7 DEF Requests
  <2>2. \A i \in DOMAIN req[r].stack : i # 1 => i - 1 \in DOMAIN req'[r].stack /\ req'[r].stack[i - 1] = req[r].stack[i]
    <3> SUFFICES ASSUME NEW i \in DOMAIN req[r].stack, i # 1
                 PROVE  i - 1 \in DOMAIN req'[r].stack /\ req'[r].stack[i - 1] = req[r].stack[i]
      OBVIOUS
    <3>1. i \in 1..Len(req[r].stack) /\ Len(req[r].stack) \in Nat
      BY FramesAre
    <3>2. i - 1 \in 1..(Len(req[r].stack) - 1) /\ (i - 1) + 1 = i
      BY <3>1
    <3> QED BY <1>7, <3>2
  <2>3. ASSUME NEW d \in Convs, Awaits(conv, req[r], d) PROVE Awaits(conv, req'[r], d)
    BY <1>5, <2>1, <2>2, <2>3 DEF Awaits, Reaches
  <2> QED BY <1>2, <2>3, AwaitedSame
<1> QED BY <1>6, <1>7, WalkAscendsTyped

\* What changes a state, changes who is in order: the others are as they were.
LEMMA AwaitsKept ==
  ASSUME NEW q, NEW d \in Convs, Awaits(conv, q, d), conv'[d].parent = conv[d].parent,
         Remade(q, d) \/ (conv'[d].state = "open" /\ There(conv', conv[d].parent))
  PROVE  Awaits(conv', q, d)
BY DEF Awaits, Reaches, Remade

LEMMA WalkClosesAwaited ==
  ASSUME Typed, Planned, Clean', Awaited, NEW r \in Callers, WalkCloses(r)
  PROVE  Awaited'
<1> DEFINE g == Rest(Top(r))
           c == Top(r).on
<1>1. /\ req[r].pc = "walk" /\ Top(r).todo # <<>> /\ TopBecomes(r, g) /\ Top(r) \in Frame /\ c \in Convs
      /\ Top(r) = req[r].stack[1] /\ 1 \in DOMAIN req[r].stack /\ req[r] \in Requests
      /\ req[r].verb \in {"close", "plain", "recheck", "delete"}
  BY WalkClosesTyped, Walking
<1>2. \A d \in Convs : conv'[d].parent = conv[d].parent /\ (d # c => conv'[d].state = conv[d].state)
  BY WalkClosesTyped
<1>3. \A p \in Callers \ {r} : req'[p] = req[p]
  BY DEF WalkCloses, OnStack, Typed, Shapes
<1>4. g \in Frame /\ g.on = c /\ g.kids = Top(r).kids /\ Top(r).todo[1] = "close" /\ 1 \in DOMAIN Top(r).todo
  BY <1>1, RestOf DEF WalkCloses, Going
<1>5. InPlan(conv, req[r].verb, Top(r)) /\ Coming(Top(r), "close")
  BY <1>1, <1>4, TopPlan DEF Coming
<1>6. conv'[c].state = (IF conv[c].state = "open" THEN "closed" ELSE conv[c].state)
  BY WalkClosesTyped
<1>7. /\ req'[r].verb = req[r].verb /\ req'[r].pc = "walk" /\ 1 \in DOMAIN req'[r].stack /\ req'[r].stack[1] = g
      /\ DOMAIN req'[r].stack = DOMAIN req[r].stack
      /\ \A i \in DOMAIN req[r].stack : i > 1 => req'[r].stack[i] = req[r].stack[i]
  BY <1>1 DEF TopBecomes, Requests
<1>8. g.kids = {} /\ (Coming(Top(r), "list") => Coming(g, "list"))
  BY <1>1, <1>4, <1>5, ComingRest DEF InPlan
<1>9. req[r].verb # "recheck" => req[r].verb \in {"close", "plain"} /\ Coming(g, "list")
  <2>1. req[r].verb # "recheck" => req[r].verb \in {"close", "plain"}
    BY <1>5 DEF InPlan
  <2>2. req[r].verb \in {"close", "plain"} => Coming(Rest(Top(r)), "list")
    BY <1>1, <1>4, <1>5, RestInPlan
  <2> QED BY <2>1, <2>2
<1>10. \A d \in Convs : conv[d].parent # 0 => conv[d].parent \in Convs
  BY DEF Typed, Shapes, Conversations
<1>11. \A i \in DOMAIN req[r].stack : i = 1 \/ i > 1
  BY FramesAre
<1> HIDE DEF g
<1> SUFFICES ASSUME NEW d \in Convs, Adrift(conv', d) PROVE \E p \in Callers : Awaits(conv', req'[p], d)
  BY DEF Awaited
<1>12. conv[d].parent \in Convs /\ There(conv, d)
  BY <1>2, <1>6, <1>10 DEF Adrift, There
<1> HIDE DEF c
<1>13. CASE Adrift(conv, d)
  <2>1. PICK p \in Callers : Awaits(conv, req[p], d)
    BY <1>13 DEF Awaited
  <2>2. CASE Remade(req[p], d)
    <3>1. p # r
      BY <1>1, <2>2 DEF Remade
    <3> QED BY <1>3, <2>2, <3>1 DEF Awaits
  <2>3. CASE ~Remade(req[p], d)
    <3>1. conv[d].state = "open" /\ There(conv, conv[d].parent) /\ Reaches(conv, req[p], d)
      BY <2>1, <2>3 DEF Awaits
    <3>2. There(conv', conv[d].parent) /\ There(conv', d)
      BY <1>2, <1>6, <1>12, <3>1 DEF There
    <3>3. conv'[d].state = "open" /\ d # c
      BY <1>2, <1>6, <1>12, <3>1, <3>2 DEF Adrift, There
    <3>4. CASE p # r
      BY <1>2, <1>3, <2>1, <3>2, <3>3, <3>4, AwaitsKept
    <3>5. CASE p = r
      <4>1. PICK i \in DOMAIN req[r].stack :
              \/ req[r].stack[i].on = d /\ Coming(req[r].stack[i], "close")
              \/ /\ req[r].verb # "delete" /\ req[r].stack[i].on = conv[d].parent
                 /\ Coming(req[r].stack[i], "list") \/ d \in req[r].stack[i].kids
        BY <3>1, <3>5 DEF Reaches
      <4>2. CASE i = 1
        <5>1. req[r].verb # "delete" /\ c = conv[d].parent /\ Coming(g, "list")
          BY <1>1, <1>4, <1>8, <3>3, <4>1, <4>2 DEF c
        <5>2. Reaches(conv', req'[r], d)
          BY <1>2, <1>4, <1>7, <5>1 DEF Reaches
        <5> QED BY <1>2, <3>2, <3>3, <5>2 DEF Awaits
      <4>3. CASE i # 1
        <5>1. req'[r].stack[i] = req[r].stack[i] /\ i \in DOMAIN req'[r].stack
          BY <1>7, <1>11, <4>3
        <5>2. Reaches(conv', req'[r], d)
          BY <1>2, <1>7, <4>1, <5>1 DEF Reaches
        <5> QED BY <1>2, <3>2, <3>3, <5>2 DEF Awaits
      <4> QED BY <4>2, <4>3
    <3> QED BY <3>4, <3>5
  <2> QED BY <2>2, <2>3
<1>14. CASE ~Adrift(conv, d)
  \* it is open, and its caller is the one that has just been closed
  <2>1. There(conv, conv[d].parent) /\ (conv[d].state = "open" => conv[conv[d].parent].state = "open") /\ conv[d].parent # 0
    BY <1>2, <1>12, <1>14 DEF Adrift
  <2>2. There(conv', conv[d].parent)
    BY <1>2, <1>6, <1>12, <2>1 DEF There
  <2>3. conv'[d].state = "open" /\ conv[d].state = "open" /\ conv'[conv[d].parent].state # "open"
    BY <1>2, <1>6, <2>2 DEF Adrift
  <2>4. conv[d].parent = c
    BY <1>2, <1>12, <2>1, <2>3
  <2>5. req[r].verb # "recheck"
    <3>1. ~past'.bare
      BY DEF Clean
    <3>2. d \in Opened /\ conv[d].parent = Top(r).on
      BY <2>3, <2>4 DEF Opened, c
    <3> QED BY <3>1, <3>2 DEF WalkCloses, Typed, Shapes, Pasts
  <2>6. Reaches(conv', req'[r], d)
    BY <1>2, <1>4, <1>7, <1>9, <2>4, <2>5 DEF Reaches
  <2> QED BY <1>2, <2>2, <2>3, <2>6 DEF Awaits
<1> QED BY <1>13, <1>14

LEMMA WalkDeletesAwaited ==
  ASSUME Typed, Planned, Deletes, Awaited, NEW r \in Callers, WalkDeletes(r)
  PROVE  Awaited'
<1> DEFINE c == Top(r).on
<1>1. /\ req[r].pc = "walk" /\ Top(r).todo # <<>> /\ Top(r) \in Frame /\ c \in Convs
      /\ Top(r) = req[r].stack[1] /\ 1 \in DOMAIN req[r].stack /\ req[r] \in Requests
  BY WalkClosesTyped, Walking
<1>2. \A d \in Convs : conv'[d].parent = conv[d].parent /\ (d # c => conv'[d].state = conv[d].state)
  BY WalkClosesTyped
<1>3. \A p \in Callers \ {r} : req'[p] = req[p]
  BY DEF WalkDeletes, OnStack, Typed, Shapes
<1>4. Top(r).todo[1] = "delete" /\ 1 \in DOMAIN Top(r).todo
  BY <1>1, RestOf DEF WalkDeletes, Going
<1>5. InPlan(conv, req[r].verb, Top(r)) /\ Coming(Top(r), "delete")
  BY <1>1, <1>4, TopPlan DEF Coming
<1>6. req[r].verb = "delete" /\ ~Coming(Top(r), "list") /\ Top(r).kids = {}
  BY <1>4, <1>5 DEF InPlan, Coming
<1>7. ~There(conv', c)
  BY WalkClosesTyped DEF There, Present
<1>8. \A d \in Convs : There(conv, d) => conv[d].parent # c
  <2>1. Emptied(conv, req[r], 1)
    BY <1>1, <1>6 DEF Deletes, Cleared
  <2> QED BY <1>1, <1>6, <2>1 DEF Emptied
<1>9. \A d \in Convs : conv[d].parent # 0 => conv[d].parent \in Convs
  BY DEF Typed, Shapes, Conversations
<1> HIDE DEF c
<1> SUFFICES ASSUME NEW d \in Convs, Adrift(conv', d) PROVE \E p \in Callers : Awaits(conv', req'[p], d)
  BY DEF Awaited
<1>10. d # c /\ There(conv, d)
  BY <1>2, <1>7 DEF Adrift, There
<1>11. conv[d].parent \in Convs \ {c} /\ conv'[conv[d].parent].state = conv[conv[d].parent].state
  BY <1>2, <1>8, <1>9, <1>10 DEF Adrift
<1>12. Adrift(conv, d)
  BY <1>2, <1>10, <1>11 DEF Adrift, There
<1>13. PICK p \in Callers : Awaits(conv, req[p], d)
  BY <1>12 DEF Awaited
<1>14. p # r
  <2>1. \A i \in DOMAIN req[r].stack : ~Coming(req[r].stack[i], "close")
    BY <1>6 DEF Planned, InPlans, InPlan
  <2>2. ~Reaches(conv, req[r], d) /\ ~Remade(req[r], d)
    BY <1>1, <1>6, <2>1 DEF Reaches, Remade
  <2> QED BY <1>13, <2>2 DEF Awaits
<1>15. Awaits(conv', req[p], d)
  BY <1>2, <1>10, <1>11, <1>13 DEF Awaits, Reaches, There
<1> QED BY <1>3, <1>14, <1>15

\* A request that had nothing to come back for.
LEMMA IdleAwaited ==
  ASSUME Typed, Awaited, Steady, NEW r \in Callers, \A p \in Callers \ {r} : req'[p] = req[p],
         req[r].pc \in {"idle", "look", "create"}
  PROVE  Awaited'
<1>1. \A d \in Convs : ~Awaits(conv, req[r], d)
  BY NoWalkNoReach DEF Awaits, Remade
<1> QED BY <1>1, AwaitedSame

LEMMA FailsAwaited ==
  ASSUME Typed, Planned, Clean', Awaited, NEW r \in Callers, InvokeFails(r) \/ WalkFails(r)
  PROVE  Awaited'
<1>1. Steady /\ \A p \in Callers \ {r} : req'[p] = req[p]
  BY DEF InvokeFails, WalkFails, Steady, Typed, Shapes
<1>2. ~past'.cut
  BY DEF Clean
<1>3. CASE InvokeFails(r)
  <2>1. req[r].pc \in {"look", "create"}
    BY <1>2, <1>3 DEF InvokeFails, Typed, Shapes, Pasts, Sound, Invoking
  <2> QED BY <1>1, <2>1, IdleAwaited
<1>4. CASE WalkFails(r)
  <2>1. req[r].pc = "walk" /\ \A f \in Range(req[r].stack) : {f.on, conv[f.on].parent} \ {0} \subseteq Opened
    BY <1>2, <1>4 DEF WalkFails, Typed, Shapes, Pasts
  <2>2. \A i \in DOMAIN req[r].stack : {req[r].stack[i].on, conv[req[r].stack[i].on].parent} \ {0} \subseteq Opened
    BY <2>1 DEF Range
  <2>3. \A i \in DOMAIN req[r].stack : req[r].stack[i].on \in Convs
    BY FramesAre DEF Frame
  <2>4. 0 \notin Convs
    BY CoordinationBounds
  <2>5. ASSUME NEW d \in Convs, Adrift(conv, d) PROVE ~Awaits(conv, req[r], d)
    <3>1. ~Remade(req[r], d)
      BY <2>1 DEF Remade
    <3>2. ASSUME NEW i \in DOMAIN req[r].stack, req[r].stack[i].on \in {d, conv[d].parent} PROVE FALSE
      <4>1. conv[d].parent \in Opened
        BY <2>2, <2>3, <2>4, <2>5, <3>2 DEF Adrift
      <4> QED BY <2>5, <4>1 DEF Adrift, Opened, There
    <3> QED BY <3>1, <3>2 DEF Awaits, Reaches
  <2> QED BY <1>1, <2>5, AwaitedSame
<1> QED BY <1>3, <1>4

LEMMA InvokeCreatesAwaited ==
  ASSUME Typed, Planned, Awaited, NEW r \in Callers, InvokeCreates(r)
  PROVE  Awaited'
<1>1. req[r] \in Requests /\ req[r].pc = "create"
  BY DEF InvokeCreates, Typed, Shapes
<1>2. PICK b \in Convs :
        /\ conv[b].state = "none"
        /\ conv' = [conv EXCEPT ![b] = [NoConv EXCEPT !.state = "open", !.parent = req[r].on, !.entry = req[r].entry]]
        /\ req' = [req EXCEPT ![r].pc = "bump", ![r].new = b]
  BY DEF InvokeCreates
<1>3. /\ conv'[b].state = "open" /\ \A d \in Convs \ {b} : conv'[d] = conv[d]
      /\ req'[r].pc = "bump" /\ req'[r].new = b /\ \A p \in Callers \ {r} : req'[p] = req[p]
  BY <1>1, <1>2 DEF Typed, Shapes, NoConv, Requests
<1> SUFFICES ASSUME NEW d \in Convs, Adrift(conv', d) PROVE \E p \in Callers : Awaits(conv', req'[p], d)
  BY DEF Awaited
<1>4. CASE d = b
  BY <1>3, <1>4 DEF Awaits, Remade
<1>5. CASE d # b
  <2>1. conv[d].parent \in Convs /\ conv'[d] = conv[d]
    BY <1>3, <1>5 DEF Typed, Shapes, Conversations, Adrift
  <2>2. conv[d].parent # b
    BY <1>3, <2>1 DEF Adrift, There
  <2>3. conv'[conv[d].parent] = conv[conv[d].parent]
    BY <1>3, <2>1, <2>2
  <2>4. Adrift(conv, d)
    BY <2>1, <2>3 DEF Adrift, There
  <2>5. PICK p \in Callers : Awaits(conv, req[p], d)
    BY <2>4 DEF Awaited
  <2>6. p # r
    BY <1>1, <2>5, NoWalkNoReach DEF Awaits, Remade
  <2>7. Awaits(conv', req[p], d)
    BY <2>1, <2>3, <2>5 DEF Awaits, Reaches, There
  <2> QED BY <1>3, <2>6, <2>7
<1> QED BY <1>4, <1>5

LEMMA InvokeCountsAwaited ==
  ASSUME Typed, Planned, Clean', Awaited, NEW r \in Callers, InvokeCounts(r)
  PROVE  Awaited'
<1>1. req[r] \in Requests /\ req[r].on \in Convs /\ req[r].pc = "bump"
  BY DEF InvokeCounts, Typed, Shapes, Sound, Invoking
<1>2. Present(req[r].on)
  BY DEF InvokeCounts, Clean, Typed, Shapes, Pasts
<1>3. /\ conv' = [conv EXCEPT ![req[r].on].invoked = @ + 1]
      /\ req' = [req EXCEPT ![r].pc = "recheck"]
  BY <1>2 DEF InvokeCounts
<1>4. Steady
  BY <1>1, <1>3 DEF Steady, Typed, Shapes, Conversations
<1>5. /\ \A p \in Callers \ {r} : req'[p] = req[p]
      /\ req'[r].pc = "recheck" /\ req'[r].new = req[r].new /\ req'[r].stack = req[r].stack /\ req'[r].verb = req[r].verb
  BY <1>1, <1>3 DEF Typed, Shapes, Requests
<1>6. \A d \in Convs : Awaits(conv, req[r], d) => Awaits(conv, req'[r], d)
  BY <1>1, <1>5 DEF Awaits, Remade, Reaches
<1> QED BY <1>4, <1>5, <1>6, AwaitedSame

LEMMA InvokeRechecksAwaited ==
  ASSUME Typed, Planned, Clean', Awaited, NEW r \in Callers, InvokeRechecks(r)
  PROVE  Awaited'
<1>1. /\ req[r] \in Requests /\ req[r].on \in Convs /\ req[r].pc = "recheck" /\ req[r].new \in Convs
      /\ conv[req[r].new].parent = req[r].on
  BY DEF InvokeRechecks, Typed, Shapes, Sound, Invoking
<1>2. Present(req[r].on)
  BY DEF InvokeRechecks, Clean, Typed, Shapes, Pasts
<1>3. Steady /\ \A p \in Callers \ {r} : req'[p] = req[p]
  BY DEF InvokeRechecks, Steady, Typed, Shapes
<1>4. ASSUME NEW d \in Convs, Adrift(conv, d), Awaits(conv, req[r], d) PROVE Awaits(conv, req'[r], d)
  <2>1. d = req[r].new
    BY <1>1, <1>4, NoWalkNoReach DEF Awaits, Remade
  <2>2. conv[d].state = "open" /\ conv[req[r].on].state = "closed" /\ There(conv, conv[d].parent)
    BY <1>1, <1>2, <1>4, <2>1 DEF Adrift, There, Present
  <2>3. Begins(r, "recheck", d, <<"close">>)
    BY <2>1, <2>2, RootIsOne, WhoBegins DEF ClosedSince
  <2> DEFINE todo == <<"close">>
             g == [on |-> d, todo |-> todo, kids |-> {}]
  <2>4. DOMAIN req'[r].stack = {1} /\ req'[r].stack[1] = g /\ Coming(g, "close")
    BY <2>3, BeginsInPlan
  <2>5. g.on = d
    OBVIOUS
  <2> HIDE DEF g
  <2>6. Reaches(conv, req'[r], d)
    BY <2>4, <2>5 DEF Reaches
  <2> QED BY <2>2, <2>6 DEF Awaits
<1> QED BY <1>3, <1>4, AwaitedSame

LEMMA OthersAwaited ==
  ASSUME Typed, Planned, Awaited, Reopen \/ CacheFallsBehind \/ CacheSyncs \/ UNCHANGED vars
  PROVE  Awaited'
<1>1. CASE Reopen
  <2>1. /\ conv[Root].state = "closed" /\ req' = req
        /\ \A d \in Convs : /\ conv'[d].parent = conv[d].parent
                            /\ conv'[d].state = (IF d = Root THEN "open" ELSE conv[d].state)
    BY <1>1, RootIsOne, StateSet DEF Reopen, Typed, States
  <2> SUFFICES ASSUME NEW d \in Convs, Adrift(conv', d) PROVE \E p \in Callers : Awaits(conv', req'[p], d)
    BY DEF Awaited
  <2>2. conv[d].parent \in Convs /\ d # Root /\ conv'[d].state = conv[d].state
    BY <2>1, RootIsOne DEF Typed, Shapes, Conversations, Adrift, Planned, Grounded
  <2>3. conv[d].parent # Root
    BY <2>1, <2>2 DEF Adrift, There
  <2>4. conv'[conv[d].parent].state = conv[conv[d].parent].state
    BY <2>1, <2>2, <2>3
  <2>5. Adrift(conv, d)
    BY <2>1, <2>2, <2>4 DEF Adrift, There
  <2>6. PICK p \in Callers : Awaits(conv, req[p], d)
    BY <2>5 DEF Awaited
  <2>7. Awaits(conv', req[p], d)
    BY <2>1, <2>2, <2>4, <2>6 DEF Awaits, Reaches, There
  <2> QED BY <2>1, <2>7
<1>2. CASE CacheFallsBehind \/ CacheSyncs \/ UNCHANGED vars
  BY <1>2 DEF CacheFallsBehind, CacheSyncs, vars, Awaited
<1> QED BY <1>1, <1>2

\* What has not happened after a step had not happened before it.
LEMMA CleanBefore == ASSUME Typed, [Next]_vars, Clean' PROVE Clean
<1> USE DEF Clean, Typed, Shapes, Pasts
<1>1. ASSUME NEW r \in Callers, NEW c \in Convs, NEW e \in Entries, InvokeStarts(r, c, e) PROVE Clean
  BY <1>1 DEF InvokeStarts
<1>2. ASSUME NEW r \in Callers, Invokes(r) PROVE Clean
  BY <1>2 DEF Invokes, InvokeLooks, InvokeCreates, InvokeCounts, InvokeRechecks
<1>3. ASSUME NEW r \in Callers, InvokeFails(r) \/ WalkFails(r) PROVE Clean
  BY <1>3 DEF InvokeFails, WalkFails
<1>4. ASSUME NEW r \in Callers, NEW c \in Convs, CloseStarts(r, c) \/ DeadlinePasses(r, c) PROVE Clean
  BY <1>4 DEF CloseStarts, DeadlinePasses
<1>5. ASSUME NEW r \in Callers, PlainCloseStarts(r, Root) \/ DeleteStarts(r) PROVE Clean
  BY <1>5 DEF PlainCloseStarts, DeleteStarts
<1>6. ASSUME NEW r \in Callers, Walks(r) PROVE Clean
  BY <1>6 DEF Walks, WalkLists, WalkDescends, WalkCloses, WalkDeletes, WalkAscends
<1>7. CASE Reopen \/ CacheFallsBehind \/ CacheSyncs \/ UNCHANGED vars
  BY <1>7 DEF Reopen, CacheFallsBehind, CacheSyncs, vars
<1> QED BY <1>1, <1>2, <1>3, <1>4, <1>5, <1>6, <1>7 DEF Next

Orphans == Clean => Deletes /\ Awaited

LEMMA OrphansNext == Typed /\ Planned /\ Orphans /\ [Next]_vars => Orphans'
<1> SUFFICES ASSUME Typed, Planned, Orphans, [Next]_vars, Clean' PROVE Deletes' /\ Awaited'
  BY DEF Orphans
<1>1. Clean /\ Deletes /\ Awaited
  BY CleanBefore DEF Orphans
<1>2. ASSUME NEW r \in Callers, NEW verb, NEW c, NEW todo, Begins(r, verb, c, todo), req[r] = Idle, UNCHANGED conv
      PROVE  Deletes' /\ Awaited'
  <2>1. req[r].pc = "idle" /\ Steady /\ \A p \in Callers \ {r} : req'[p] = req[p]
    BY <1>2 DEF Begins, Steady, Typed, Shapes, Idle
  <2> QED BY <1>1, <1>2, <2>1, BeginsDeletes, IdleAwaited
<1>3. ASSUME NEW r \in Callers, NEW c \in Convs, NEW e \in Entries, InvokeStarts(r, c, e) PROVE Deletes' /\ Awaited'
  <2>1. req[r].pc = "idle" /\ Steady /\ \A p \in Callers \ {r} : req'[p] = req[p]
    BY <1>3 DEF InvokeStarts, Steady, Typed, Shapes, Idle
  <2> QED BY <1>1, <1>3, <2>1, InvokesDeletes, IdleAwaited
<1>4. ASSUME NEW r \in Callers, Invokes(r) PROVE Deletes' /\ Awaited'
  <2>1. Deletes'
    BY <1>1, <1>4, InvokesDeletes
  <2>2. CASE InvokeLooks(r)
    <3>1. req[r].pc = "look" /\ Steady /\ \A p \in Callers \ {r} : req'[p] = req[p]
      BY <2>2 DEF InvokeLooks, Steady, Typed, Shapes
    <3> QED BY <1>1, <2>1, <3>1, IdleAwaited
  <2> QED BY <1>1, <1>4, <2>1, <2>2, InvokeCreatesAwaited, InvokeCountsAwaited, InvokeRechecksAwaited DEF Invokes
<1>5. ASSUME NEW r \in Callers, InvokeFails(r) \/ WalkFails(r) PROVE Deletes' /\ Awaited'
  BY <1>1, <1>5, InvokesDeletes, FailsAwaited
<1>6. ASSUME NEW r \in Callers, Walks(r) PROVE Deletes' /\ Awaited'
  <2>1. CASE WalkLists(r)
    BY <1>1, <2>1, WalkListsDeletes, WalkListsAwaited
  <2>2. CASE WalkDescends(r)
    BY <1>1, <2>2, WalkDescendsDeletes, WalkDescendsAwaited
  <2>3. CASE WalkCloses(r)
    BY <1>1, <2>3, WalkClosesDeletes, WalkClosesAwaited
  <2>4. CASE WalkDeletes(r)
    BY <1>1, <2>4, WalkClosesDeletes, WalkDeletesAwaited
  <2>5. CASE WalkAscends(r)
    BY <1>1, <2>5, WalkAscendsDeletes, WalkAscendsAwaited
  <2> QED BY <1>6, <2>1, <2>2, <2>3, <2>4, <2>5 DEF Walks
<1>7. ASSUME NEW r \in Callers, NEW c \in Convs, CloseStarts(r, c) \/ DeadlinePasses(r, c) PROVE Deletes' /\ Awaited'
  <2>1. PICK todo : Begins(r, "close", c, todo)
    BY <1>7, WhoBegins
  <2> QED BY <1>2, <1>7, <2>1 DEF CloseStarts, DeadlinePasses, Starts
<1>8. ASSUME NEW r \in Callers, PlainCloseStarts(r, Root) PROVE Deletes' /\ Awaited'
  <2>1. PICK todo : Begins(r, "plain", Root, todo)
    BY <1>8, RootIsOne, WhoBegins
  <2> QED BY <1>2, <1>8, <2>1 DEF PlainCloseStarts, Starts
<1>9. ASSUME NEW r \in Callers, DeleteStarts(r) PROVE Deletes' /\ Awaited'
  <2>1. Begins(r, "delete", Root, <<"list", "delete">>)
    BY <1>9, RootIsOne, WhoBegins
  <2> QED BY <1>2, <1>9, <2>1 DEF DeleteStarts, Starts
<1>10. CASE Reopen \/ CacheFallsBehind \/ CacheSyncs \/ UNCHANGED vars
  BY <1>1, <1>10, OthersDeletes, OthersAwaited
<1> QED BY <1>3, <1>4, <1>5, <1>6, <1>7, <1>8, <1>9, <1>10 DEF Next

LEMMA OrphansInit == Init => Orphans
<1> SUFFICES ASSUME Init PROVE Deletes /\ Awaited
  BY DEF Orphans
<1>1. Deletes
  BY DEF Init, Deletes, Cleared, Idle
<1>2. \A d \in Convs : conv[d].parent = 0
  BY DEF Init, NoConv
<1> QED BY <1>1, <1>2 DEF Awaited, Adrift

\* Once nothing is under way, no member is open below a conversation that is closed or
\* deleted, nor left below one that is deleted, however many invokes, closes, reopens
\* and deletes ran at once (InvokeMember, closeMemberIfCallerClosed, closeWithCascade,
\* cascadeDeleteMembers).
THEOREM NobodyIsOrphaned == Spec => []NoOrphans
<1>1. Typed /\ Orphans => NoOrphans
  <2> SUFFICES ASSUME Typed, Awaited, AtRest, NEW d \in Convs, Child(d)
               PROVE  Present(conv[d].parent) /\ (d \in Opened => conv[d].parent \in Opened)
    BY DEF NoOrphans, Orphans, Clean
  <2>1. conv[d].parent \in Convs /\ There(conv, d)
    BY DEF Child, Present, There, Typed, Shapes, Conversations
  <2>2. \A r \in Callers : ~Awaits(conv, req[r], d)
    <3>1. \A r \in Callers : req[r].pc = "idle"
      <4>1. Idle.pc = "idle"
        BY DEF Idle
      <4> QED BY <4>1 DEF AtRest
    <3> QED BY <3>1, NoWalkNoReach DEF Awaits, Remade
  <2>3. ~Adrift(conv, d)
    BY <2>2 DEF Awaited
  <2> QED BY <2>1, <2>3 DEF Adrift, There, Present, Opened, Child
<1>2. Init => Typed /\ Planned /\ Orphans
  BY TypedInit, PlannedInit, OrphansInit
<1>3. Typed /\ Planned /\ Orphans /\ [Next]_vars => Typed' /\ Planned' /\ Orphans'
  BY TypedNext, PlannedNext, OrphansNext
<1> QED BY <1>1, <1>2, <1>3, PTL DEF Spec

=============================================================================
