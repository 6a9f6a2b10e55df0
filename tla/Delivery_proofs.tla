--------------------------- MODULE Delivery_proofs ---------------------------
(***************************************************************************)
(* Neither mark of a reply claims what was not done, and nothing is said    *)
(* twice but for a fault, proved for any number of channels, runs, inputs,  *)
(* closes and faults.                                                       *)
(***************************************************************************)
EXTENDS Delivery, FiniteSetTheorems, SequenceTheorems, NaturalsInduction, WellFoundedInduction, TLAPS

-----------------------------------------------------------------------------
(* What is left of a sequence. *)

LEMMA NatInd ==
  ASSUME NEW T, 0 \in T, \A n \in Nat : n \in T => n + 1 \in T
  PROVE  Nat \subseteq T
<1> DEFINE Bad == Nat \ T
<1> SUFFICES ASSUME Bad # {} PROVE FALSE
  OBVIOUS
<1>1. PICK x \in Bad : \A y \in Bad : ~(<<y, x>> \in OpToRel(<, Nat))
  <2>1. Bad \subseteq Nat
    OBVIOUS
  <2> HIDE DEF Bad
  <2> QED BY <2>1, WFMin, NatLessThanWellFounded
<1>2. x \in Nat /\ x # 0 /\ x - 1 \in Nat /\ (x - 1) + 1 = x
  OBVIOUS
<1>3. x - 1 \notin T
  BY <1>2
<1>4. <<x - 1, x>> \in OpToRel(<, Nat)
  BY <1>2 DEF OpToRel
<1> QED BY <1>1, <1>2, <1>3, <1>4

\* The nth of a set of positions, for every n there is.
LEMMA NthOf ==
  ASSUME NEW len \in Nat, NEW kept \in SUBSET (1..len)
  PROVE  /\ Cardinality(kept) \in Nat
         /\ \A n \in 1..Cardinality(kept) : \E k \in kept : Cardinality(kept \cap 1..k) = n
<1> DEFINE C(m) == Cardinality(kept \cap 1..m)
           T == {m \in Nat : \A n \in 1..C(m) : \E k \in kept : C(k) = n}
<1>1. \A m \in Nat : IsFiniteSet(kept \cap 1..m) /\ C(m) \in Nat
  <2> TAKE m \in Nat
  <2>1. IsFiniteSet(1..m)
    BY FS_Interval
  <2>2. IsFiniteSet(kept \cap 1..m)
    BY <2>1, FS_Subset
  <2> QED BY <2>2, FS_CardinalityType
<1>2. 0 \in T
  <2>1. kept \cap 1..0 = {}
    OBVIOUS
  <2>2. C(0) = 0
    BY <2>1, FS_EmptySet
  <2> HIDE DEF C
  <2> QED BY <2>2
<1>3. ASSUME NEW m \in Nat, m \in T PROVE m + 1 \in T
  <2>1. CASE m + 1 \in kept
    <3>1. kept \cap 1..(m + 1) = (kept \cap 1..m) \cup {m + 1} /\ m + 1 \notin kept \cap 1..m
      BY <2>1
    <3>2. C(m + 1) = C(m) + 1
      BY <1>1, <3>1, FS_AddElement
    <3> HIDE DEF C
    <3>3. ASSUME NEW n \in 1..C(m + 1) PROVE \E k \in kept : C(k) = n
      <4>1. n \in 1..C(m) \/ n = C(m + 1)
        <5>1. PICK c \in Nat : c = C(m)
          BY <1>1
        <5>2. n \in 1..(c + 1)
          BY <3>2, <3>3, <5>1
        <5> QED BY <3>2, <5>1, <5>2
      <4> QED BY <1>3, <2>1, <4>1
    <3> QED BY <3>3
  <2>2. CASE m + 1 \notin kept
    <3>1. kept \cap 1..(m + 1) = kept \cap 1..m
      BY <2>2
    <3>2. C(m + 1) = C(m)
      BY <3>1
    <3> HIDE DEF C
    <3> QED BY <1>3, <3>2
  <2> QED BY <2>1, <2>2
<1>4. len \in T
  <2> HIDE DEF T
  <2> QED BY <1>2, <1>3, NatInd
<1>5. kept \cap 1..len = kept
  OBVIOUS
<1> QED BY <1>1, <1>4, <1>5

LEMMA WithoutOf ==
  ASSUME NEW A, NEW s \in Seq(A), NEW S
  PROVE  Without(s, S) \in Seq(A) /\ Elems(Without(s, S)) \subseteq Elems(s) \ S
<1> DEFINE kept == {k \in DOMAIN s : s[k] \notin S}
           Nth(n) == CHOOSE k \in kept : Cardinality(kept \cap 1..k) = n
           t == [n \in 1..Cardinality(kept) |-> s[Nth(n)]]
<1>1. DOMAIN s = 1..Len(s) /\ Len(s) \in Nat
  OBVIOUS
<1>2. Cardinality(kept) \in Nat /\ \A n \in 1..Cardinality(kept) : \E k \in kept : Cardinality(kept \cap 1..k) = n
  <2>1. kept \in SUBSET (1..Len(s))
    BY <1>1
  <2> HIDE DEF kept
  <2> QED BY <1>1, <2>1, NthOf
<1>3. \A n \in 1..Cardinality(kept) : Nth(n) \in kept
  BY <1>2
<1> HIDE DEF Nth
<1>4. \A n \in 1..Cardinality(kept) : s[Nth(n)] \in A \ S /\ Nth(n) \in DOMAIN s
  BY <1>3
<1>5. t \in Seq(A) /\ Elems(t) \subseteq Elems(s) \ S
  <2> HIDE DEF kept
  <2> QED BY <1>2, <1>4 DEF Elems
<1>6. kept = DOMAIN s => Elems(s) \subseteq Elems(s) \ S
  BY DEF Elems
<1> QED BY <1>5, <1>6 DEF Without, Nth

LEMMA ElemsOf ==
  ASSUME NEW A, NEW s \in Seq(A), NEW t \in Seq(A)
  PROVE  /\ Elems(s) \subseteq A /\ Elems(<<>>) = {}
         /\ s \o t \in Seq(A) /\ Elems(s \o t) = Elems(s) \cup Elems(t)
         /\ s # <<>> => /\ Head(s) \in Elems(s) /\ Tail(s) \in Seq(A)
                        /\ Elems(s) = {Head(s)} \cup Elems(Tail(s))
<1>1. Elems(s) \subseteq A /\ Elems(<<>>) = {}
  BY DEF Elems
<1>2. s \o t \in Seq(A) /\ Elems(s \o t) = Elems(s) \cup Elems(t)
  <2>1. /\ s \o t \in Seq(A) /\ Len(s \o t) = Len(s) + Len(t)
        /\ \A i \in 1..(Len(s) + Len(t)) : (s \o t)[i] = IF i <= Len(s) THEN s[i] ELSE t[i - Len(s)]
    BY ConcatProperties
  <2>2. DOMAIN (s \o t) = 1..(Len(s) + Len(t)) /\ DOMAIN s = 1..Len(s) /\ DOMAIN t = 1..Len(t) /\ Len(s) \in Nat /\ Len(t) \in Nat
    BY <2>1
  <2>3. ASSUME NEW k \in DOMAIN s PROVE k \in DOMAIN (s \o t) /\ (s \o t)[k] = s[k]
    BY <2>1, <2>2
  <2>4. ASSUME NEW k \in DOMAIN t PROVE k + Len(s) \in DOMAIN (s \o t) /\ (s \o t)[k + Len(s)] = t[k]
    <3>1. k + Len(s) \in 1..(Len(s) + Len(t)) /\ ~(k + Len(s) <= Len(s)) /\ (k + Len(s)) - Len(s) = k
      BY <2>2
    <3> QED BY <2>1, <2>2, <3>1
  <2>5. ASSUME NEW i \in DOMAIN (s \o t)
        PROVE  (i \in DOMAIN s /\ (s \o t)[i] = s[i]) \/ (i - Len(s) \in DOMAIN t /\ (s \o t)[i] = t[i - Len(s)])
    BY <2>1, <2>2
  <2>6. Elems(s \o t) \subseteq Elems(s) \cup Elems(t)
    BY <2>5 DEF Elems
  <2>7. Elems(s) \subseteq Elems(s \o t)
    BY <2>3 DEF Elems
  <2>8. Elems(t) \subseteq Elems(s \o t)
    <3> SUFFICES ASSUME NEW k \in DOMAIN t PROVE \E i \in DOMAIN (s \o t) : (s \o t)[i] = t[k]
      BY DEF Elems
    <3> QED BY <2>4
  <2> QED BY <2>1, <2>6, <2>7, <2>8
<1>3. ASSUME s # <<>>
      PROVE  /\ Head(s) \in Elems(s) /\ Tail(s) \in Seq(A) /\ Elems(s) = {Head(s)} \cup Elems(Tail(s))
  <2>1. /\ Head(s) = s[1] /\ Len(s) \in Nat /\ Len(s) > 0 /\ DOMAIN s = 1..Len(s)
        /\ Tail(s) \in Seq(A) /\ Len(Tail(s)) = Len(s) - 1
    BY <1>3
  <2>2. \A k \in 1..Len(Tail(s)) : Tail(s)[k] = s[k + 1]
    BY <1>3, <2>1
  <2>3. DOMAIN Tail(s) = 1..(Len(s) - 1)
    BY <2>1
  <2>4. \A i \in DOMAIN s : i = 1 \/ (i - 1 \in DOMAIN Tail(s) /\ Tail(s)[i - 1] = s[i])
    BY <2>1, <2>2, <2>3
  <2>5. \A k \in DOMAIN Tail(s) : k + 1 \in DOMAIN s /\ Tail(s)[k] = s[k + 1]
    BY <2>1, <2>2, <2>3
  <2>6. 1 \in DOMAIN s
    BY <2>1
  <2>7. Elems(s) \subseteq {s[1]} \cup Elems(Tail(s))
    <3> SUFFICES ASSUME NEW i \in DOMAIN s PROVE s[i] = s[1] \/ \E k \in DOMAIN Tail(s) : Tail(s)[k] = s[i]
      BY DEF Elems
    <3> QED BY <2>4
  <2>8. Elems(Tail(s)) \subseteq Elems(s)
    BY <2>5 DEF Elems
  <2>9. s[1] \in Elems(s)
    BY <2>6 DEF Elems
  <2> QED BY <2>1, <2>7, <2>8, <2>9
<1> QED BY <1>1, <1>2, <1>3

-----------------------------------------------------------------------------
(* Every variable keeps its shape, and every queue its channel. *)

Of(ch) == {id \in Ids : id.ch = ch}

\* What an adapter holds is its own, and what it writes to the record fits it.
Holds(a, ch) ==
  /\ a.pc # "idle" => a.id \in Of(ch)
  /\ a.pc \in {"deliver", "settle", "undelivered"} => a.id.kind = "reply"

Pcs == {"idle", "got", "did", "refused"} \cup Completing
Ads == [pc: Pcs, id: Ids]
Passes == [pc: {"idle", "topics", "replies", "archive"}, conv: Record, queued: SUBSET Inputs, runs: 0..MaxRuns,
           delivered: SUBSET (Runs \X Channels), todo: SUBSET Channels]

\* A conversation is reopened once for each time it was closed.
Ledger == conv.reopens + (IF conv.closed THEN 1 ELSE 0) <= closes

Typed ==
  /\ TypeOK /\ Ledger
  /\ \A ch \in Channels : queued[ch] \in Seq(Of(ch)) /\ Holds(ad[ch], ch)

LEMMA Bounds ==
  /\ MaxRuns \in Nat /\ MaxInputs \in Nat /\ MaxSaid \in Nat
  /\ MaxCloses \in Nat /\ MaxFaults \in Nat /\ MaxTrouble \in Nat
BY DeliveryBounds

LEMMA OfIds ==
  ASSUME NEW ch \in Channels
  PROVE  /\ Of(ch) \subseteq Ids /\ Seq(Of(ch)) \subseteq Seq(Ids) /\ <<>> \in Seq(Of(ch))
         /\ \A r \in Runs : RunReply(ch, r) \in Of(ch)
         /\ \A i \in Inputs : InputCard(ch, i) \in Of(ch)
         /\ \A n \in 0..MaxCloses : EnsureTopic(ch, n) \in Of(ch)
         /\ CloseTopic(ch) \in Of(ch)
<1>1. Of(ch) \subseteq Ids
  BY DEF Of
<1>2. Seq(Of(ch)) \subseteq Seq(Ids) /\ <<>> \in Seq(Of(ch))
  <2> HIDE DEF Of
  <2> QED BY <1>1
<1> QED BY <1>1, <1>2, Bounds DEF Of, Ids, Said, RunReply, InputCard, EnsureTopic, CloseTopic, Runs, Inputs

LEMMA IdleIs == ASSUME NEW ch \in Channels PROVE Idle \in Ads /\ Idle.pc = "idle" /\ Holds(Idle, ch)
<1>1. (CHOOSE c \in Channels : TRUE) \in Channels
  OBVIOUS
<1> DEFINE c == CHOOSE d \in Channels : TRUE
<1>2. CloseTopic(c) \in Ids
  BY <1>1, OfIds DEF Of
<1> QED BY <1>2 DEF Idle, Ads, Pcs, Holds

LEMMA FreshIs == Fresh \in Record /\ NoPass \in Passes
<1>1. Fresh \in Record
  BY Bounds DEF Fresh, Record
<1> QED BY <1>1, Bounds DEF NoPass, Passes

\* What enqueue does to the queues: it adds, to its channel, what it does not know.
Grows ==
  /\ UNCHANGED <<claimed, recent>> /\ queued' \in [Channels -> Seq(Ids)]
  /\ \A ch \in Channels :
       /\ queued'[ch] \in Seq(Of(ch)) /\ Elems(queued[ch]) \subseteq Elems(queued'[ch])
       /\ \A id \in Elems(queued'[ch]) : id \in Elems(queued[ch]) \/ id \notin recent

LEMMA EnqueueOf ==
  ASSUME Typed, NEW ids, \A ch \in Channels : ids[ch] \in Seq(Of(ch)), Enqueue(ids)
  PROVE  Grows
<1>1. queued' = [ch \in Channels |-> queued[ch] \o Without(ids[ch], Known)] /\ UNCHANGED <<claimed, recent>>
  BY DEF Enqueue
<1>2. ASSUME NEW ch \in Channels
      PROVE  /\ queued'[ch] \in Seq(Of(ch)) /\ Elems(queued[ch]) \subseteq Elems(queued'[ch])
             /\ \A id \in Elems(queued'[ch]) : id \in Elems(queued[ch]) \/ id \notin recent
  <2> DEFINE new == Without(ids[ch], Known)
  <2>1. new \in Seq(Of(ch)) /\ Elems(new) \subseteq Elems(ids[ch]) \ Known
    BY WithoutOf
  <2>2. queued[ch] \in Seq(Of(ch)) /\ queued'[ch] = queued[ch] \o new
    BY <1>1 DEF Typed
  <2> HIDE DEF new
  <2>3. queued'[ch] \in Seq(Of(ch)) /\ Elems(queued'[ch]) = Elems(queued[ch]) \cup Elems(new)
    BY <2>1, <2>2, ElemsOf
  <2> QED BY <2>1, <2>3 DEF Known
<1>3. queued' \in [Channels -> Seq(Ids)]
  <2>1. \A ch \in Channels : queued'[ch] \in Seq(Ids)
    BY <1>2, OfIds
  <2>2. queued' = [ch \in Channels |-> queued'[ch]]
    BY <1>1
  <2> QED BY <2>1, <2>2
<1> QED BY <1>1, <1>2, <1>3 DEF Grows

LEMMA CardsOf ==
  ASSUME NEW ch \in Channels, NEW threads, NEW pending
  PROVE  Cards(ch, threads, pending) \in Seq(Of(ch))
<1>1. [i \in Inputs |-> InputCard(ch, i)] \in Seq(Of(ch))
  BY OfIds, Bounds DEF Inputs
<1> QED BY <1>1, WithoutOf, OfIds DEF Cards

LEMMA RepliesOf ==
  ASSUME Typed, NEW ch \in Channels
  PROVE  /\ OwedReplies(ch) \in Seq(Of(ch))
         /\ \A threads, pending : Cards(ch, threads, pending) \o OwedReplies(ch) \in Seq(Of(ch))
<1>1. pass.runs \in Nat /\ pass.runs <= MaxRuns
  BY Bounds DEF Typed, TypeOK
<1>2. 1..pass.runs \subseteq Runs
  BY <1>1, Bounds DEF Runs
<1>3. [r \in 1..pass.runs |-> RunReply(ch, r)] \in Seq(Of(ch))
  BY <1>1, <1>2, OfIds
<1>4. OwedReplies(ch) \in Seq(Of(ch))
  BY <1>3, WithoutOf, OfIds DEF OwedReplies
<1> QED BY <1>4, CardsOf, ElemsOf

LEMMA OwedOf ==
  ASSUME NEW ch \in Channels, NEW r \in Runs, NEW threads, NEW marks
  PROVE  Owed(r, threads, marks)[ch] \in Seq(Of(ch))
<1>1. <<RunReply(ch, r)>> \in Seq(Of(ch))
  BY OfIds
<1> QED BY <1>1, OfIds DEF Owed


\* Who enqueues.
LEMMA WhoGrows ==
  ASSUME Typed
  PROVE  /\ (RouterDelivers => Grows) /\ (FanOutRunReply => Grows)
         /\ (PassDelivers => Grows) /\ (PassArchives => Grows)
         /\ \A ch \in Channels : PassEnsuresTopic(ch) => Grows \/ UNCHANGED queue
<1>1. ASSUME RouterDelivers PROVE Grows
  <2> DEFINE ids == [ch \in Channels |-> Cards(ch, conv.threads, inputs.queued)]
  <2>1. \A ch \in Channels : ids[ch] \in Seq(Of(ch))
    BY CardsOf
  <2>2. Enqueue(ids)
    BY <1>1 DEF RouterDelivers
  <2> HIDE DEF ids
  <2> QED BY <2>1, <2>2, EnqueueOf
<1>2. ASSUME FanOutRunReply PROVE Grows
  <2> DEFINE ids == Owed(fast.run, fast.threads, delivered)
  <2>1. fast.run \in Runs
    BY <1>2, Bounds DEF FanOutRunReply, Typed, TypeOK, Runs
  <2>2. \A ch \in Channels : ids[ch] \in Seq(Of(ch))
    BY <2>1, OwedOf
  <2>3. Enqueue(ids)
    BY <1>2 DEF FanOutRunReply
  <2> HIDE DEF ids
  <2> QED BY <2>2, <2>3, EnqueueOf
<1>3. ASSUME PassDelivers PROVE Grows
  <2> DEFINE ids == [ch \in Channels |-> Cards(ch, pass.conv.threads, pass.queued) \o OwedReplies(ch)]
  <2>1. \A ch \in Channels : ids[ch] \in Seq(Of(ch))
    BY RepliesOf
  <2>2. Enqueue(ids)
    BY <1>3 DEF PassDelivers
  <2> HIDE DEF ids
  <2> QED BY <2>1, <2>2, EnqueueOf
<1>4. ASSUME PassArchives PROVE Grows
  <2> DEFINE ids == [ch \in Channels |-> IF ch \in pass.conv.threads \ pass.conv.archived THEN <<CloseTopic(ch)>> ELSE <<>>]
  <2>1. \A ch \in Channels : ids[ch] \in Seq(Of(ch))
    BY OfIds
  <2>2. Enqueue(ids)
    BY <1>4 DEF PassArchives
  <2> HIDE DEF ids
  <2> QED BY <2>1, <2>2, EnqueueOf
<1>5. ASSUME NEW ch \in Channels, PassEnsuresTopic(ch) PROVE Grows \/ UNCHANGED queue
  <2> DEFINE id == EnsureTopic(ch, pass.conv.reopens)
             ids == [c \in Channels |-> IF c = id.ch THEN <<id>> ELSE <<>>]
  <2>1. id \in Of(ch) /\ id.ch = ch
    <3>1. pass.conv.reopens \in 0..MaxCloses
      BY DEF Typed, TypeOK, Record
    <3> QED BY <3>1, OfIds DEF EnsureTopic
  <2> HIDE DEF id
  <2>2. \A c \in Channels : ids[c] \in Seq(Of(c))
    BY <2>1, OfIds
  <2>3. Enqueue(ids) \/ UNCHANGED queue
    BY <1>5 DEF PassEnsuresTopic, EnqueueOne, id
  <2> HIDE DEF ids
  <2> QED BY <2>2, <2>3, EnqueueOf
<1> QED BY <1>1, <1>2, <1>3, <1>4, <1>5

\* The parts of the type, each of which an action leaves alone or keeps.
RecordTyped == /\ conv \in Record /\ recorded \in 0..MaxRuns /\ delivered \subseteq Runs \X Channels
               /\ inputs \in [arrived: 0..MaxInputs, queued: SUBSET Inputs, answered: SUBSET Inputs]
QueueTyped == /\ queued \in [Channels -> Seq(Ids)] /\ claimed \subseteq Ids /\ recent \subseteq Ids
              /\ \A ch \in Channels : queued[ch] \in Seq(Of(ch))
HandlersTyped == /\ router \in BOOLEAN /\ fast \in [run: 0..MaxRuns, threads: SUBSET Channels] /\ pass \in Passes
AdTyped == ad \in [Channels -> Ads] /\ \A ch \in Channels : Holds(ad[ch], ch)
WorldTyped == /\ completed \in [Channels -> SUBSET Ids] /\ surface \in [Channels -> {"none", "open", "archived"}]
              /\ posted \in [Said -> Nat]
CountsTyped == closes \in 0..MaxCloses /\ faults \in 0..MaxFaults

LEMMA Parts ==
  /\ Typed <=> RecordTyped /\ QueueTyped /\ HandlersTyped /\ AdTyped /\ WorldTyped /\ CountsTyped /\ Ledger
  /\ RecordTyped' /\ QueueTyped' /\ HandlersTyped' /\ AdTyped' /\ WorldTyped' /\ CountsTyped' /\ Ledger' => Typed'
BY DEF Typed, TypeOK, RecordTyped, QueueTyped, HandlersTyped, AdTyped, WorldTyped, CountsTyped, Passes, Ads, Pcs

LEMMA QueueKept ==
  ASSUME QueueTyped, Grows \/ UNCHANGED queue
  PROVE  QueueTyped'
BY DEF QueueTyped, Grows, queue

LEMMA InputsTyped == ASSUME Typed, InputArrives \/ RunRecorded \/ RouterDelivers \/ FanOutRunReply PROVE Typed'
<1> USE Parts, Bounds
<1>1. QueueTyped'
  BY QueueKept, WhoGrows DEF InputArrives, RunRecorded
<1>2. CASE InputArrives
  <2>1. inputs' \in [arrived: 0..MaxInputs, queued: SUBSET Inputs, answered: SUBSET Inputs]
    <3>1. inputs.arrived + 1 \in 0..MaxInputs /\ inputs.arrived + 1 \in Inputs
      BY <1>2 DEF InputArrives, RecordTyped, Inputs
    <3>2. inputs.queued \cup {inputs.arrived + 1} \in SUBSET Inputs
      BY <3>1 DEF RecordTyped
    <3>3. inputs' = [inputs EXCEPT !.arrived = inputs.arrived + 1, !.queued = inputs.queued \cup {inputs.arrived + 1}]
      BY <1>2 DEF InputArrives
    <3> QED BY <3>1, <3>2, <3>3 DEF RecordTyped
  <2> QED BY <1>1, <1>2, <2>1
        DEF InputArrives, RecordTyped, HandlersTyped, AdTyped, WorldTyped, CountsTyped, Ledger, world
<1>3. CASE RunRecorded
  <2>1. recorded' \in 0..MaxRuns /\ fast' \in [run: 0..MaxRuns, threads: SUBSET Channels]
    BY <1>3 DEF RunRecorded, RecordTyped, Record
  <2>2. inputs' \in [arrived: 0..MaxInputs, queued: SUBSET Inputs, answered: SUBSET Inputs]
    <3>1. PICK batch \in SUBSET (inputs.queued \ inputs.answered) : inputs' = [inputs EXCEPT !.answered = @ \cup batch]
      BY <1>3 DEF RunRecorded
    <3>2. inputs.queued \subseteq Inputs /\ inputs.answered \subseteq Inputs
      BY DEF RecordTyped
    <3>3. inputs.answered \cup batch \in SUBSET Inputs
      BY <3>2
    <3> QED BY <3>1, <3>3 DEF RecordTyped
  <2> QED BY <1>1, <1>3, <2>1, <2>2
        DEF RunRecorded, RecordTyped, HandlersTyped, AdTyped, WorldTyped, CountsTyped, Ledger, world
<1>4. CASE RouterDelivers
  BY <1>1, <1>4 DEF RouterDelivers, RecordTyped, HandlersTyped, AdTyped, WorldTyped, CountsTyped, Ledger, world, record
<1>5. CASE FanOutRunReply
  BY <1>1, <1>5 DEF FanOutRunReply, RecordTyped, HandlersTyped, AdTyped, WorldTyped, CountsTyped, Ledger, world, record
<1> QED BY <1>2, <1>3, <1>4, <1>5

LEMMA ConversationTyped ==
  ASSUME Typed, CloseConversation \/ ReopenConversation \/ \E ch \in Channels : ClaimExpires(ch)
  PROVE  Typed'
<1> USE Parts, Bounds
<1>1. QueueTyped' /\ HandlersTyped' /\ AdTyped' /\ WorldTyped'
  BY DEF CloseConversation, ReopenConversation, ClaimExpires, QueueTyped, HandlersTyped, AdTyped, WorldTyped, queue,
         handlers, world
<1>2. RecordTyped' /\ CountsTyped' /\ Ledger'
  <2>1. CASE CloseConversation
    <3>1. conv.reopens \in Nat /\ closes \in Nat /\ conv.reopens <= closes /\ closes + 1 <= MaxCloses
      BY <2>1 DEF CloseConversation, RecordTyped, CountsTyped, Ledger, Record
    <3>2. conv'.reopens = conv.reopens /\ conv'.closed = TRUE /\ conv' \in Record
      BY <2>1 DEF CloseConversation, RecordTyped, Record
    <3> QED BY <2>1, <3>1, <3>2 DEF CloseConversation, RecordTyped, CountsTyped, Ledger
  <2>2. CASE ReopenConversation
    <3>1. conv.reopens \in Nat /\ closes \in Nat /\ conv.reopens + 1 <= closes /\ closes <= MaxCloses
      BY <2>2 DEF ReopenConversation, RecordTyped, CountsTyped, Ledger, Record
    <3>2. conv'.reopens = conv.reopens + 1 /\ conv'.closed = FALSE /\ conv' \in Record
      <4>1. conv.reopens + 1 \in 0..MaxCloses
        BY <3>1
      <4>2. conv' = [conv EXCEPT !.closed = FALSE, !.reopens = conv.reopens + 1]
        BY <2>2 DEF ReopenConversation
      <4> QED BY <4>1, <4>2 DEF RecordTyped, Record
    <3> QED BY <2>2, <3>1, <3>2 DEF ReopenConversation, RecordTyped, CountsTyped, Ledger
  <2>3. CASE \E ch \in Channels : ClaimExpires(ch)
    BY <2>3 DEF ClaimExpires, RecordTyped, CountsTyped, Ledger, Record
  <2> QED BY <2>1, <2>2, <2>3
<1> QED BY <1>1, <1>2

LEMMA PassTyped == ASSUME Typed, Reconcile \/ PassIsHeld PROVE Typed'
<1> USE Parts, Bounds
<1>1. QueueTyped'
  BY QueueKept, WhoGrows DEF Reconcile, PassReads, PassIsHeld
<1>2. AdTyped' /\ WorldTyped' /\ CountsTyped'
  BY DEF Reconcile, PassReads, PassIsHeld, PassEnsuresTopic, PassDelivers, PassArchives, AdTyped, WorldTyped, CountsTyped, world
<1>3. RecordTyped' /\ Ledger' /\ HandlersTyped'
  <2>1. CASE PassReads
    <3>1. inputs' \in [arrived: 0..MaxInputs, queued: SUBSET Inputs, answered: SUBSET Inputs]
      BY <2>1 DEF PassReads, Prune, Unanswered, RecordTyped
    <3>2. Copy \in Record /\ Unanswered \in SUBSET Inputs
      BY DEF RecordTyped, Record, Copy, Unanswered
    <3>3. pass' \in Passes
      <4>1. [NoPass EXCEPT !.pc = "archive", !.conv = Copy] \in Passes
        BY <3>2, FreshIs DEF Passes
      <4>2. \A pc \in {"topics", "replies"} :
              [pc |-> pc, conv |-> Copy, queued |-> Unanswered, runs |-> recorded, delivered |-> delivered,
               todo |-> (Channels \ conv.threads) \cup conv.archived] \in Passes
        BY <3>2 DEF RecordTyped, Record, Passes
      <4> QED BY <2>1, <4>1, <4>2 DEF PassReads
    <3> QED BY <2>1, <3>1, <3>3 DEF PassReads, RecordTyped, Ledger, HandlersTyped, handlers
  <2>5. CASE PassIsHeld
    BY <2>5 DEF PassIsHeld, Prune, Unanswered, RecordTyped, Ledger, HandlersTyped, handlers
  <2>2. CASE \E ch \in Channels : PassEnsuresTopic(ch)
    <3>0. PICK ch \in Channels : PassEnsuresTopic(ch)
      BY <2>2
    <3>1. conv' \in Record /\ conv'.reopens = conv.reopens /\ conv'.closed = conv.closed
      <4>1. conv' = conv \/ conv' = [conv EXCEPT !.bound = @ \cup {ch}, !.claims = @ \cup {ch}]
        BY <3>0 DEF PassEnsuresTopic
      <4>2. conv.bound \cup {ch} \in SUBSET Channels /\ conv.claims \cup {ch} \in SUBSET Channels
        BY DEF RecordTyped, Record
      <4> QED BY <4>1, <4>2 DEF RecordTyped, Record
    <3>2. pass' \in Passes
      <4>1. /\ pass' = [pass EXCEPT !.todo = @ \ {ch}, !.pc = IF pass.todo = {ch} THEN "replies" ELSE @]
            /\ pass.pc = "topics" /\ pass.todo \ {ch} \subseteq Channels
        BY <3>0 DEF PassEnsuresTopic, HandlersTyped, Passes
      <4> QED BY <4>1 DEF HandlersTyped, Passes
    <3> QED BY <2>2, <3>1, <3>2 DEF PassEnsuresTopic, RecordTyped, Ledger, HandlersTyped, handlers
  <2>3. CASE PassDelivers
    <3>1. conv.note \in [Channels -> 0..MaxRuns]
      BY DEF RecordTyped, Record
    <3>2. Settled(conv.note) \in [Channels -> 0..MaxRuns]
      BY <3>1 DEF Settled
    <3>3. conv' = [conv EXCEPT !.note = Settled(conv.note)]
      BY <2>3 DEF PassDelivers
    <3>4. conv' \in Record /\ conv'.reopens = conv.reopens /\ conv'.closed = conv.closed
      BY <3>2, <3>3 DEF RecordTyped, Record
    <3> QED BY <2>3, <3>4, FreshIs DEF PassDelivers, RecordTyped, Ledger, HandlersTyped, handlers
  <2>4. CASE PassArchives
    BY <2>4, FreshIs DEF PassArchives, RecordTyped, Ledger, HandlersTyped, handlers, record
  <2> QED BY <2>1, <2>2, <2>3, <2>4, <2>5 DEF Reconcile
<1> QED BY <1>1, <1>2, <1>3

LEMMA ClaimTyped == ASSUME Typed, NEW ch \in Channels, Claim(ch) PROVE Typed'
<1> USE Parts, Bounds
<1>1. PICK id \in Ids :
        /\ \/ id \in claimed /\ id.ch = ch /\ UNCHANGED queued
           \/ /\ queued[ch] # <<>> /\ id = Head(queued[ch])
              /\ queued' = [queued EXCEPT ![ch] = Tail(@)]
        /\ claimed' = claimed \cup {id}
        /\ HandsOut(ch, id)
  BY DEF Claim
<1>2. id \in Of(ch)
  <2>1. queued[ch] \in Seq(Of(ch))
    BY DEF Typed
  <2>2. queued[ch] # <<>> => Head(queued[ch]) \in Of(ch)
    <3> HIDE DEF Of
    <3> QED BY <2>1
  <2> QED BY <1>1, <2>2 DEF Of
<1>3. QueueTyped'
  <2>1. queued[ch] \in Seq(Of(ch))
    BY DEF Typed
  <2>2. queued[ch] # <<>> => Tail(queued[ch]) \in Seq(Of(ch)) /\ Tail(queued[ch]) \in Seq(Ids)
    <3>1. queued[ch] # <<>> => Tail(queued[ch]) \in Seq(Of(ch))
      BY <2>1, ElemsOf
    <3> QED BY <3>1, OfIds
  <2>3. recent' = recent
    BY DEF Claim
  <2> QED BY <1>1, <2>2, <2>3 DEF QueueTyped
<1>4. AdTyped' /\ CountsTyped'
  <2>1. [pc |-> "got", id |-> id] \in Ads /\ Holds([pc |-> "got", id |-> id], ch)
    BY <1>2 DEF Ads, Pcs, Holds
  <2>2. faults' \in 0..MaxFaults
    BY <1>1 DEF HandsOut, Fault, CountsTyped
  <2>3. ad' = [ad EXCEPT ![ch] = [pc |-> "got", id |-> id]] \/ ad' = ad
    BY <1>1 DEF HandsOut
  <2>4. AdTyped'
    <3> HIDE DEF Holds, Ads
    <3> QED BY <2>1, <2>3 DEF AdTyped
  <2> QED BY <2>2, <2>4 DEF Claim, CountsTyped
<1>5. RecordTyped' /\ HandlersTyped' /\ WorldTyped' /\ Ledger'
  BY DEF Claim, RecordTyped, HandlersTyped, WorldTyped, Ledger, record, handlers, world
<1> QED BY <1>3, <1>4, <1>5

\* The adapter goes on with what it holds.
LEMMA AdMoves ==
  ASSUME AdTyped, NEW ch \in Channels, NEW a \in Ads, Holds(a, ch), ad' = [ad EXCEPT ![ch] = a]
  PROVE  AdTyped'
<1> HIDE DEF Holds, Ads
<1> QED BY DEF AdTyped

LEMMA HeldIs ==
  ASSUME Typed, NEW ch \in Channels, ad[ch].pc # "idle"
  PROVE  /\ ad[ch] \in Ads /\ ad[ch].id \in Of(ch) /\ ad[ch].id \in Ids /\ ad[ch].id.ch = ch
         /\ \A pc \in Pcs \ {"deliver", "settle", "undelivered"} :
              [ad[ch] EXCEPT !.pc = pc] \in Ads /\ Holds([ad[ch] EXCEPT !.pc = pc], ch)
         /\ ad[ch].id.kind = "reply" => \A pc \in Pcs : [ad[ch] EXCEPT !.pc = pc] \in Ads /\ Holds([ad[ch] EXCEPT !.pc = pc], ch)
<1>1. ad[ch] \in Ads /\ Holds(ad[ch], ch)
  BY Parts DEF AdTyped
<1>2. ad[ch].id \in Of(ch) /\ ad[ch].id \in Ids /\ ad[ch].id.ch = ch
  BY <1>1 DEF Holds, Of
<1>3. \A pc \in Pcs : [ad[ch] EXCEPT !.pc = pc] \in Ads /\ [ad[ch] EXCEPT !.pc = pc].pc = pc /\ [ad[ch] EXCEPT !.pc = pc].id = ad[ch].id
  BY <1>1 DEF Ads
<1> QED BY <1>1, <1>2, <1>3 DEF Holds

\* What an adapter does shows on its channel's thread.
Executes(id) == posted' = IF id \in Said THEN [posted EXCEPT ![id] = @ + 1] ELSE posted

LEMMA ExecuteTyped ==
  ASSUME WorldTyped, NEW ch \in Channels, NEW id \in Ids, Execute(ch, id)
  PROVE  /\ surface' \in [Channels -> {"none", "open", "archived"}] /\ posted' \in [Said -> Nat]
         /\ Executes(id)
BY DEF WorldTyped, Execute, Executes

LEMMA ActTyped == ASSUME Typed, NEW ch \in Channels, Act(ch) PROVE Typed'
<1> USE Parts, Bounds
<1> DEFINE id == ad[ch].id
<1>1. ad[ch].pc = "got" /\ id \in Ids
  BY HeldIs DEF Act
<1>2. PICK pc \in {"did", "refused"} : ad' = [ad EXCEPT ![ch].pc = pc]
  BY DEF Act
<1>3. AdTyped'
  <2>1. [ad[ch] EXCEPT !.pc = pc] \in Ads /\ Holds([ad[ch] EXCEPT !.pc = pc], ch)
    BY <1>1, HeldIs DEF Pcs, Completing, Writing
  <2>2. ad' = [ad EXCEPT ![ch] = [ad[ch] EXCEPT !.pc = pc]]
    BY <1>2
  <2> QED BY <2>1, <2>2, AdMoves
<1>4. WorldTyped' /\ faults' \in 0..MaxFaults
  <2>1. CASE UNCHANGED <<world, faults>>
    BY <2>1 DEF world, WorldTyped, CountsTyped
  <2>2. CASE Execute(ch, id) /\ Remembers(ch, id) /\ UNCHANGED faults
    <3>1. completed' \in [Channels -> SUBSET Ids]
      BY <1>1, <2>2 DEF WorldTyped, Remembers
    <3> QED BY <1>1, <2>2, <3>1, ExecuteTyped DEF WorldTyped, CountsTyped
  <2>3. CASE Fault /\ (Execute(ch, id) \/ UNCHANGED <<surface, posted>>) /\ UNCHANGED completed
    <3>1. faults' \in 0..MaxFaults
      BY <2>3 DEF Fault, CountsTyped
    <3> QED BY <1>1, <2>3, <3>1, ExecuteTyped DEF WorldTyped
  <2> QED BY <2>1, <2>2, <2>3 DEF Act
<1>5. RecordTyped' /\ QueueTyped' /\ HandlersTyped' /\ Ledger' /\ closes' \in 0..MaxCloses
  BY DEF Act, RecordTyped, QueueTyped, HandlersTyped, Ledger, CountsTyped, record, queue, handlers
<1> QED BY <1>3, <1>4, <1>5 DEF CountsTyped

LEMMA CompleteTyped == ASSUME Typed, NEW ch \in Channels, Complete(ch) PROVE Typed'
<1> USE Parts
<1> DEFINE id == ad[ch].id
<1>1. ad[ch].pc \in {"did", "refused"} /\ id \in Ids
  BY HeldIs DEF Complete
<1>2. AdTyped'
  <2>1. ad' = [ad EXCEPT ![ch] = [ad[ch] EXCEPT !.pc = Marks(ch)]] \/ ad' = [ad EXCEPT ![ch] = Idle]
    BY DEF Complete
  <2>2. Marks(ch) \in Pcs /\ (Marks(ch) \in {"deliver", "settle", "undelivered"} => id.kind = "reply")
    BY DEF Marks, Writes, Pcs, Completing, Writing
  <2>3. [ad[ch] EXCEPT !.pc = Marks(ch)] \in Ads /\ Holds([ad[ch] EXCEPT !.pc = Marks(ch)], ch)
    BY <1>1, <2>2, HeldIs
  <2> QED BY <2>1, <2>3, AdMoves, IdleIs
<1>3. QueueTyped'
  <2> DEFINE t == Without(queued[ch], {id})
  <2>1. queued[ch] \in Seq(Of(ch))
    BY DEF Typed
  <2>2. t \in Seq(Of(ch))
    BY <2>1, WithoutOf
  <2>3. t \in Seq(Ids)
    BY <2>2, OfIds
  <2>4. queued' = [queued EXCEPT ![ch] = t] /\ claimed' = claimed \ {id} /\ recent' \subseteq recent \cup {id}
    BY DEF Complete
  <2> HIDE DEF t, id
  <2> QED BY <1>1, <2>2, <2>3, <2>4 DEF QueueTyped
<1>4. RecordTyped' /\ HandlersTyped' /\ WorldTyped' /\ CountsTyped' /\ Ledger'
  BY DEF Complete, RecordTyped, HandlersTyped, WorldTyped, CountsTyped, Ledger, record, handlers, world
<1> QED BY <1>2, <1>3, <1>4

\* The handler of a completion goes on, or is done.
LEMMA NextMarkTyped ==
  ASSUME Typed, NEW ch \in Channels, ad[ch].pc # "idle", NEW pc \in {"idle", "settle", "undelivered", "unclaim"},
         pc \in {"settle", "undelivered"} => ad[ch].id.kind = "reply", NextMark(ch, pc)
  PROVE  AdTyped'
<1>1. [ad[ch] EXCEPT !.pc = pc] \in Ads /\ Holds([ad[ch] EXCEPT !.pc = pc], ch)
  BY HeldIs DEF Pcs, Completing, Writing
<1>2. ad' = [ad EXCEPT ![ch] = Idle] \/ ad' = [ad EXCEPT ![ch] = [ad[ch] EXCEPT !.pc = pc]]
  BY DEF NextMark
<1> QED BY <1>1, <1>2, IdleIs, AdMoves, Parts

LEMMA MarkingTyped == ASSUME Typed, NEW ch \in Channels, Marking(ch) PROVE Typed'
<1> USE Parts
<1>1. AdTyped' /\ RecordTyped' /\ conv'.reopens = conv.reopens /\ conv'.closed = conv.closed
  <2>1. CASE MarkDelivered(ch)
    <3>1. ad[ch].pc # "idle" /\ ad[ch].id.kind = "reply" /\ ad[ch].id \in Ids
      BY <2>1, HeldIs DEF MarkDelivered, AdTyped, Holds
    <3>2. ad[ch].id.n \in Runs
      BY <3>1 DEF Ids, Said
    <3>3. PICK pc \in {"idle", "settle"} : NextMark(ch, pc)
      BY <2>1 DEF MarkDelivered
    <3>4. AdTyped'
      BY <3>1, <3>3, NextMarkTyped
    <3>5. conv' = conv /\ RecordTyped'
      BY <2>1, <3>2 DEF MarkDelivered, RecordTyped
    <3> QED BY <3>4, <3>5
  <2>2. CASE ClearUndeliveredNote(ch)
    <3>1. conv' \in Record /\ conv'.reopens = conv.reopens /\ conv'.closed = conv.closed
      <4>1. conv' = conv \/ conv' = [conv EXCEPT !.note[ch] = 0]
        BY <2>2 DEF ClearUndeliveredNote
      <4>2. [conv.note EXCEPT ![ch] = 0] \in [Channels -> 0..MaxRuns]
        BY Bounds DEF RecordTyped, Record
      <4> QED BY <4>1, <4>2 DEF RecordTyped, Record
    <3>2. AdTyped'
      BY <2>2, NextMarkTyped DEF ClearUndeliveredNote
    <3> QED BY <2>2, <3>1, <3>2 DEF ClearUndeliveredNote, RecordTyped
  <2>3. CASE MarkUndelivered(ch)
    <3>1. ad[ch].pc # "idle" /\ ad[ch].id.kind = "reply" /\ ad[ch].id \in Ids
      BY <2>3, HeldIs DEF MarkUndelivered, AdTyped, Holds
    <3>2. ad[ch].id.n \in 0..MaxRuns
      BY <3>1, Bounds DEF Ids, Said, Runs
    <3>3. conv' \in Record /\ conv'.reopens = conv.reopens /\ conv'.closed = conv.closed
      <4>1. conv' = [conv EXCEPT !.note[ch] = ad[ch].id.n]
        BY <2>3 DEF MarkUndelivered
      <4>2. [conv.note EXCEPT ![ch] = ad[ch].id.n] \in [Channels -> 0..MaxRuns]
        BY <3>2 DEF RecordTyped, Record
      <4> QED BY <4>1, <4>2 DEF RecordTyped, Record
    <3>4. AdTyped'
      BY <2>3, NextMarkTyped DEF MarkUndelivered
    <3> QED BY <2>3, <3>3, <3>4 DEF MarkUndelivered, RecordTyped
  <2>4. CASE FinishEnsureTopic(ch)
    <3>1. conv' \in Record /\ conv'.reopens = conv.reopens /\ conv'.closed = conv.closed
      <4>1. \/ conv' = [conv EXCEPT !.bound = @ \cup {ch}, !.threads = @ \cup {ch}, !.claims = @ \ {ch}, !.archived = @ \ {ch}]
            \/ conv' = [conv EXCEPT !.claims = @ \ {ch}]
        BY <2>4 DEF FinishEnsureTopic
      <4>2. /\ conv.bound \cup {ch} \in SUBSET Channels /\ conv.threads \cup {ch} \in SUBSET Channels
            /\ conv.claims \ {ch} \in SUBSET Channels /\ conv.archived \ {ch} \in SUBSET Channels
        BY DEF RecordTyped, Record
      <4> QED BY <4>1, <4>2 DEF RecordTyped, Record
    <3>2. AdTyped'
      BY <2>4, NextMarkTyped DEF FinishEnsureTopic
    <3> QED BY <2>4, <3>1, <3>2 DEF FinishEnsureTopic, RecordTyped
  <2>5. CASE MarkThreadArchived(ch)
    <3>1. conv' \in Record /\ conv'.reopens = conv.reopens /\ conv'.closed = conv.closed
      <4>1. conv' = [conv EXCEPT !.archived = @ \cup {ch}] /\ conv.archived \cup {ch} \in SUBSET Channels
        BY <2>5 DEF MarkThreadArchived, RecordTyped, Record
      <4> QED BY <4>1 DEF RecordTyped, Record
    <3>2. AdTyped'
      BY <2>5, NextMarkTyped DEF MarkThreadArchived
    <3> QED BY <2>5, <3>1, <3>2 DEF MarkThreadArchived, RecordTyped
  <2>6. CASE ReleaseRefused(ch)
    <3>1. PICK pc \in {"idle", "undelivered", "unclaim"} : NextMark(ch, pc) /\ (pc = "undelivered" => ad[ch].id.kind = "reply")
      BY <2>6 DEF ReleaseRefused
    <3>2. AdTyped' /\ UNCHANGED record
      BY <2>6, <3>1, NextMarkTyped DEF ReleaseRefused
    <3> QED BY <3>2 DEF RecordTyped, record
  <2> QED BY <2>1, <2>2, <2>3, <2>4, <2>5, <2>6 DEF Marking
<1>2. QueueTyped' /\ HandlersTyped' /\ WorldTyped' /\ CountsTyped' /\ UNCHANGED closes
  BY DEF Marking, ReleaseRefused, Releases, MarkDelivered, ClearUndeliveredNote, MarkUndelivered, FinishEnsureTopic, MarkThreadArchived,
         QueueTyped, HandlersTyped, WorldTyped, CountsTyped, queue, handlers, world
<1>3. Ledger'
  BY <1>1, <1>2 DEF Ledger
<1> QED BY <1>1, <1>2, <1>3

LEMMA NobodyHandles == [run |-> 0, threads |-> {}] \in [run: 0..MaxRuns, threads: SUBSET Channels] /\ NoPass \in Passes
BY Bounds, FreshIs

LEMMA FaultsTyped ==
  ASSUME Typed, RecentForgets \/ ManagerRestarts \/ \E ch \in Channels : AdapterGivesUp(ch) \/ MarkFails(ch)
  PROVE  Typed'
<1> USE Parts, Bounds
<1>1. CountsTyped' /\ RecordTyped' /\ WorldTyped' /\ Ledger'
  BY DEF RecentForgets, ManagerRestarts, AdapterGivesUp, MarkFails, Fault, CountsTyped, RecordTyped, WorldTyped, Ledger, record, world
<1>2. QueueTyped'
  <2>1. CASE ManagerRestarts
    BY <2>1, OfIds DEF ManagerRestarts, QueueTyped
  <2>2. CASE RecentForgets \/ \E ch \in Channels : AdapterGivesUp(ch) \/ MarkFails(ch)
    BY <2>2 DEF RecentForgets, AdapterGivesUp, MarkFails, QueueTyped, queue
  <2> QED BY <2>1, <2>2
<1>3. HandlersTyped'
  <2>1. CASE ManagerRestarts
    BY <2>1, NobodyHandles DEF ManagerRestarts, HandlersTyped
  <2>2. CASE RecentForgets \/ \E ch \in Channels : AdapterGivesUp(ch) \/ MarkFails(ch)
    BY <2>2 DEF RecentForgets, AdapterGivesUp, MarkFails, HandlersTyped, handlers
  <2> QED BY <2>1, <2>2
<1>4. AdTyped'
  <2>1. CASE RecentForgets
    BY <2>1 DEF RecentForgets, AdTyped
  <2>2. CASE ManagerRestarts
    <3>1. \A ch \in Channels : ad'[ch] \in {ad[ch], Idle}
      BY <2>2 DEF ManagerRestarts
    <3>2. \A ch \in Channels : ad'[ch] \in Ads /\ Holds(ad'[ch], ch)
      BY <3>1, IdleIs DEF AdTyped
    <3>3. ad' = [ch \in Channels |-> ad'[ch]]
      BY <2>2 DEF ManagerRestarts
    <3> QED BY <3>2, <3>3 DEF AdTyped
  <2>3. CASE \E ch \in Channels : AdapterGivesUp(ch) \/ MarkFails(ch)
    <3>1. PICK ch \in Channels : AdapterGivesUp(ch) \/ MarkFails(ch)
      BY <2>3
    <3>2. ad' = [ad EXCEPT ![ch] = Idle]
      BY <3>1 DEF AdapterGivesUp, MarkFails, NextMark
    <3> QED BY <3>2, IdleIs, AdMoves
  <2> QED BY <2>1, <2>2, <2>3
<1> QED BY <1>1, <1>2, <1>3, <1>4

LEMMA TypedNext == Typed /\ [Next]_vars => Typed'
<1> SUFFICES ASSUME Typed, [Next]_vars PROVE Typed'
  OBVIOUS
<1>1. CASE UNCHANGED vars
  BY <1>1, Parts DEF vars, record, queue, handlers, world, RecordTyped, QueueTyped, HandlersTyped, AdTyped, WorldTyped,
                     CountsTyped, Ledger
<1>2. CASE \E ch \in Channels : Adapter(ch)
  BY <1>2, ClaimTyped, ActTyped, CompleteTyped, MarkingTyped DEF Adapter
<1> QED BY <1>1, <1>2, InputsTyped, ConversationTyped, PassTyped, FaultsTyped DEF Next

LEMMA TypedInit == Init => Typed
<1> SUFFICES ASSUME Init PROVE Typed
  OBVIOUS
<1> USE Bounds DEF Init
<1>1. RecordTyped /\ Ledger
  BY FreshIs DEF RecordTyped, Ledger, Fresh
<1>2. QueueTyped
  BY OfIds DEF QueueTyped
<1>3. HandlersTyped
  BY NobodyHandles DEF HandlersTyped
<1>4. WorldTyped /\ CountsTyped
  BY DEF WorldTyped, CountsTyped
<1>5. AdTyped
  BY IdleIs DEF AdTyped
<1> QED BY <1>1, <1>2, <1>3, <1>4, <1>5, Parts

\* Every variable stays inside its shape, for any number of channels, runs, inputs,
\* closes and faults.
THEOREM TypeCorrect == Spec => []TypeOK
<1>1. Typed => TypeOK
  BY DEF Typed
<1> QED BY <1>1, TypedInit, TypedNext, PTL DEF Spec

-----------------------------------------------------------------------------
(* What is marked is posted. *)

\* What an adapter remembers to have done, or is on its way to report, people can see.
Seen ==
  \A ch \in Channels, id \in Said :
    id \in completed[ch] \/ (ad[ch].pc \in {"did", "deliver", "settle"} /\ ad[ch].id = id) => posted[id] > 0

Marked == Seen /\ MarksAreTrue

\* Nothing that has to do with marks.
Aside == UNCHANGED <<completed, posted, ad, delivered, recent>>

LEMMA WhoIsAside ==
  ASSUME Typed,
         \/ InputArrives \/ RouterDelivers \/ RunRecorded \/ FanOutRunReply \/ CloseConversation \/ ReopenConversation
         \/ Reconcile \/ PassIsHeld \/ (\E ch \in Channels : ClaimExpires(ch)) \/ UNCHANGED vars
  PROVE  Aside
BY WhoGrows DEF Aside, Grows, InputArrives, RouterDelivers, RunRecorded, FanOutRunReply, CloseConversation, ReopenConversation,
  Reconcile, PassReads, PassIsHeld, PassDelivers, PassArchives, PassEnsuresTopic, EnqueueOne, Enqueue, ClaimExpires, vars, record, queue,
  world, handlers

\* An adapter that takes up or drops an operation reports nothing.
LEMMA MarkedIdle ==
  ASSUME Typed, Marked, NEW ch \in Channels, NEW a \in Ads, a.pc \notin {"did", "deliver", "settle"},
         ad' = [ad EXCEPT ![ch] = a], UNCHANGED <<completed, posted, delivered>>,
         recent' \subseteq recent, \A r \in Runs : ad[ch].pc \in {"deliver", "release"} /\ ad[ch].id = RunReply(ch, r) => RunReply(ch, r) \notin recent'
  PROVE  Marked'
<1>1. ad'[ch] = a /\ \A c \in Channels \ {ch} : ad'[c] = ad[c]
  BY Parts DEF AdTyped
<1>2. Seen'
  BY <1>1 DEF Seen, Marked
<1>3. DeliveredIsPosted'
  BY DEF DeliveredIsPosted, Marked, MarksAreTrue
<1>4. SuppressedIsDelivered'
  BY <1>1 DEF SuppressedIsDelivered, Marked, MarksAreTrue
<1> QED BY <1>2, <1>3, <1>4 DEF Marked, MarksAreTrue

LEMMA MarkedClaim == ASSUME Typed, Marked, NEW ch \in Channels, Claim(ch) PROVE Marked'
<1>1. PICK id \in Ids : HandsOut(ch, id)
  BY DEF Claim
<1>2. ad[ch].pc = "idle" /\ UNCHANGED <<completed, posted, delivered, recent>>
  BY DEF Claim, record, world
<1>3. CASE ad' = [ad EXCEPT ![ch] = [pc |-> "got", id |-> id]]
  <2>1. [pc |-> "got", id |-> id] \in Ads
    BY DEF Ads, Pcs
  <2> QED BY <1>2, <1>3, <2>1, MarkedIdle
<1>4. CASE ad' = ad
  BY <1>2, <1>4 DEF Marked, Seen, MarksAreTrue, DeliveredIsPosted, SuppressedIsDelivered
<1> QED BY <1>1, <1>3, <1>4 DEF HandsOut

LEMMA MarkedAct == ASSUME Typed, Marked, NEW ch \in Channels, Act(ch) PROVE Marked'
<1> DEFINE id == ad[ch].id
<1>1. ad[ch].pc = "got" /\ id \in Ids /\ UNCHANGED <<delivered, recent>>
  BY HeldIs DEF Act, record, queue
<1>2. PICK pc \in {"did", "refused"} : ad' = [ad EXCEPT ![ch].pc = pc] /\ (pc = "did" => id \in completed[ch] \/ Execute(ch, id))
  BY DEF Act
<1>3. ad'[ch].pc = pc /\ ad'[ch].id = id /\ \A c \in Channels \ {ch} : ad'[c] = ad[c]
  BY <1>2, Parts DEF AdTyped, Ads
<1>4. posted \in [Said -> Nat]
  BY Parts DEF WorldTyped
<1>5. /\ posted' = posted \/ Executes(id)
      /\ Execute(ch, id) => Executes(id)
  BY DEF Act, Execute, Executes, world
<1>6. \A i \in Said : posted[i] > 0 => posted'[i] > 0
  BY <1>4, <1>5 DEF Executes
<1>7. Execute(ch, id) /\ id \in Said => posted'[id] > 0
  BY <1>4, <1>5 DEF Executes
<1>8. \A c \in Channels : completed'[c] \subseteq completed[c] \/ (c = ch /\ completed'[c] = completed[c] \cup {id} /\ Execute(ch, id))
  BY Parts DEF Act, Remembers, WorldTyped, world
<1>9. Seen'
  <2> SUFFICES ASSUME NEW c \in Channels, NEW i \in Said,
                      i \in completed'[c] \/ (ad'[c].pc \in {"did", "deliver", "settle"} /\ ad'[c].id = i)
               PROVE  posted'[i] > 0
    BY DEF Seen
  <2> HIDE DEF id
  <2>1. CASE i \in completed'[c]
    BY <1>6, <1>7, <1>8, <2>1 DEF Seen, Marked
  <2>2. CASE ad'[c].pc \in {"did", "deliver", "settle"} /\ ad'[c].id = i
    BY <1>2, <1>3, <1>6, <1>7, <2>2 DEF Seen, Marked
  <2> QED BY <2>1, <2>2
<1>10. DeliveredIsPosted'
  <2>1. \A r \in Runs, c \in Channels : RunReply(c, r) \in Said
    BY DEF RunReply, Said
  <2> QED BY <1>1, <1>6, <2>1 DEF DeliveredIsPosted, Marked, MarksAreTrue
<1>11. SuppressedIsDelivered'
  BY <1>1, <1>3 DEF SuppressedIsDelivered, Marked, MarksAreTrue
<1> QED BY <1>9, <1>10, <1>11 DEF Marked, MarksAreTrue

LEMMA MarkedComplete == ASSUME Typed, Marked, NEW ch \in Channels, Complete(ch) PROVE Marked'
<1> DEFINE id == ad[ch].id
           known == id \in Outstanding
<1>1. /\ ad[ch].pc \in {"did", "refused"} /\ id \in Ids /\ id.ch = ch /\ ad[ch] \in Ads
      /\ UNCHANGED <<delivered, completed, posted>>
  BY HeldIs DEF Complete, record, world
<1>2. /\ recent' = IF known THEN recent \cup {id} ELSE recent
      /\ ad' = [ad EXCEPT ![ch] = IF known /\ Marks(ch) # "idle" THEN [ad[ch] EXCEPT !.pc = Marks(ch)] ELSE Idle]
  BY DEF Complete
<1>3. Marks(ch) \in {"deliver", "settle"} <=> id.kind = "reply" /\ ad[ch].pc = "did"
  BY <1>1 DEF Marks, Writes
<1>4. /\ \A c \in Channels \ {ch} : ad'[c] = ad[c]
      /\ (known /\ Marks(ch) # "idle") => ad'[ch].pc = Marks(ch) /\ ad'[ch].id = id
      /\ ~(known /\ Marks(ch) # "idle") => ad'[ch].pc = "idle"
  BY <1>1, <1>2, IdleIs, Parts DEF AdTyped, Ads
<1> HIDE DEF id, known
<1>5. Seen'
  BY <1>1, <1>3, <1>4 DEF Seen, Marked, id, Marks, Writes
<1>6. DeliveredIsPosted'
  BY <1>1 DEF DeliveredIsPosted, Marked, MarksAreTrue
<1>7. SuppressedIsDelivered'
  <2> SUFFICES ASSUME NEW r \in Runs, NEW c \in Channels, RunReply(c, r) \in recent'
               PROVE  <<r, c>> \in delivered' \/ (ad'[c].pc \in {"deliver", "release"} /\ ad'[c].id = RunReply(c, r))
    BY DEF SuppressedIsDelivered
  <2>1. CASE RunReply(c, r) \in recent
    BY <1>1, <1>4, <2>1 DEF SuppressedIsDelivered, Marked, MarksAreTrue
  <2>2. CASE RunReply(c, r) = id /\ known
    <3>1. c = ch /\ id.kind = "reply"
      BY <1>1, <2>2 DEF RunReply
    <3>2. Marks(ch) \in {"deliver", "release"}
      BY <3>1 DEF Marks, Writes, id
    <3> QED BY <1>4, <2>2, <3>1, <3>2
  <2> QED BY <1>2, <2>1, <2>2
<1> QED BY <1>5, <1>6, <1>7 DEF Marked, MarksAreTrue

LEMMA MarkedMarking == ASSUME Typed, Marked, NEW ch \in Channels, Marking(ch) PROVE Marked'
<1> DEFINE id == ad[ch].id
<1>1. ad[ch].pc \in Completing /\ ad[ch].pc # "idle" /\ UNCHANGED <<completed, posted>>
  BY DEF Marking, ReleaseRefused, MarkDelivered, ClearUndeliveredNote, MarkUndelivered, FinishEnsureTopic, MarkThreadArchived,
         Completing, Writing, world
<1>2. id \in Of(ch) /\ ad[ch] \in Ads
  BY <1>1, HeldIs
<1>3. CASE MarkDelivered(ch)
  <2>1. ad[ch].pc = "deliver" /\ id.kind = "reply"
    BY <1>3, Parts DEF MarkDelivered, AdTyped, Holds
  <2>2. id.n \in Runs /\ id = RunReply(ch, id.n) /\ id \in Said
    BY <1>2, <2>1 DEF Of, Ids, Said, RunReply
  <2>3. delivered' = delivered \cup {<<id.n, ch>>} /\ recent' = recent
    BY <1>3 DEF MarkDelivered, queue
  <2>4. /\ \A c \in Channels \ {ch} : ad'[c] = ad[c]
        /\ ad'[ch].pc = "idle" \/ (ad'[ch].pc = "settle" /\ ad'[ch].id = id)
    BY <1>2, <1>3, IdleIs, Parts DEF MarkDelivered, NextMark, AdTyped, Ads
  <2> HIDE DEF id
  <2>5. posted[id] > 0
    BY <2>1, <2>2 DEF Seen, Marked, id
  <2>6. Seen'
    BY <1>1, <2>4, <2>5 DEF Seen, Marked
  <2>7. DeliveredIsPosted'
    BY <1>1, <2>2, <2>3, <2>5 DEF DeliveredIsPosted, Marked, MarksAreTrue
  <2>8. SuppressedIsDelivered'
    <3> SUFFICES ASSUME NEW r \in Runs, NEW c \in Channels, RunReply(c, r) \in recent
                 PROVE  <<r, c>> \in delivered' \/ (ad'[c].pc \in {"deliver", "release"} /\ ad'[c].id = RunReply(c, r))
      BY <2>3 DEF SuppressedIsDelivered
    <3>1. <<r, c>> \in delivered \/ (ad[c].pc \in {"deliver", "release"} /\ ad[c].id = RunReply(c, r))
      BY DEF SuppressedIsDelivered, Marked, MarksAreTrue
    <3>2. CASE c = ch /\ id = RunReply(c, r)
      BY <2>3, <3>2 DEF RunReply
    <3> QED BY <2>3, <2>4, <3>1, <3>2 DEF id
  <2> QED BY <2>6, <2>7, <2>8 DEF Marked, MarksAreTrue
<1>4. CASE ReleaseRefused(ch)
  <2>1. PICK pc \in {"idle", "undelivered", "unclaim"} : NextMark(ch, pc)
    BY <1>4 DEF ReleaseRefused
  <2>2. PICK a \in Ads : a.pc \in {"idle", "undelivered", "unclaim"} /\ ad' = [ad EXCEPT ![ch] = a]
    <3>1. [ad[ch] EXCEPT !.pc = pc] \in Ads /\ [ad[ch] EXCEPT !.pc = pc].pc = pc
      BY <1>2 DEF Ads, Pcs, Completing, Writing
    <3>2. ad' = [ad EXCEPT ![ch] = Idle] \/ ad' = [ad EXCEPT ![ch] = [ad[ch] EXCEPT !.pc = pc]]
      BY <2>1 DEF NextMark
    <3> QED BY <3>1, <3>2, IdleIs
  <2>3. recent' = recent \ {id} /\ delivered' = delivered
    BY <1>4 DEF ReleaseRefused, Releases, record
  <2>4. recent' \subseteq recent /\ \A r \in Runs : ad[ch].id = RunReply(ch, r) => RunReply(ch, r) \notin recent'
    BY <2>3
  <2> QED BY <1>1, <2>2, <2>3, <2>4, MarkedIdle
<1>5. CASE ~MarkDelivered(ch) /\ ~ReleaseRefused(ch)
  <2>1. ad[ch].pc \notin {"deliver", "release"} /\ ad' = [ad EXCEPT ![ch] = Idle] /\ UNCHANGED <<delivered, recent>>
    BY <1>5 DEF Marking, ClearUndeliveredNote, MarkUndelivered, FinishEnsureTopic, MarkThreadArchived, NextMark, queue
  <2> QED BY <1>1, <2>1, IdleIs, MarkedIdle
<1> QED BY <1>3, <1>4, <1>5

LEMMA MarkedFaults ==
  ASSUME Typed, Marked, RecentForgets \/ ManagerRestarts \/ \E ch \in Channels : AdapterGivesUp(ch) \/ MarkFails(ch)
  PROVE  Marked'
<1>1. CASE RecentForgets
  BY <1>1 DEF RecentForgets, Marked, Seen, MarksAreTrue, DeliveredIsPosted, SuppressedIsDelivered, record, world
<1>2. CASE ManagerRestarts
  <2>1. /\ \A ch \in Channels : ad'[ch] = ad[ch] \/ ad'[ch].pc = "idle"
        /\ recent' = {} /\ UNCHANGED <<completed, posted, delivered>>
    BY <1>2, IdleIs DEF ManagerRestarts, record, world
  <2> QED BY <2>1 DEF Marked, Seen, MarksAreTrue, DeliveredIsPosted, SuppressedIsDelivered
<1>3. ASSUME NEW ch \in Channels, AdapterGivesUp(ch) \/ MarkFails(ch) PROVE Marked'
  <2>1. /\ ad' = [ad EXCEPT ![ch] = Idle] /\ UNCHANGED <<completed, posted, delivered>>
        /\ recent' \subseteq recent /\ (ad[ch].pc \in {"deliver", "release"} => ad[ch].id \notin recent')
    BY <1>3 DEF AdapterGivesUp, MarkFails, Writing, NextMark, record, world, queue
  <2> QED BY <2>1, IdleIs, MarkedIdle
<1> QED BY <1>1, <1>2, <1>3

\* Neither mark claims what was not done: what is marked delivered people can see, and the
\* completed window suppresses only what is marked or what a completion under way marks or
\* takes out, however the attempts, their completions and the restarts interleave
\* (markDelivered, Complete).
THEOREM NeitherMarkLies == Spec => []MarksAreTrue
<1>1. Init => Typed /\ Marked
  <2>1. Init => Marked
    BY IdleIs DEF Init, Marked, Seen, MarksAreTrue, DeliveredIsPosted, SuppressedIsDelivered, Said
  <2> QED BY <2>1, TypedInit
<1>2. Typed /\ Marked /\ [Next]_vars => Typed' /\ Marked'
  <2> SUFFICES ASSUME Typed, Marked, [Next]_vars PROVE Marked'
    BY TypedNext
  <2>1. CASE Aside
    BY <2>1 DEF Aside, Marked, Seen, MarksAreTrue, DeliveredIsPosted, SuppressedIsDelivered
  <2>2. CASE \E ch \in Channels : Adapter(ch)
    BY <2>2, MarkedClaim, MarkedAct, MarkedComplete, MarkedMarking DEF Adapter
  <2> QED BY <2>1, <2>2, WhoIsAside, MarkedFaults DEF Next
<1>3. Marked => MarksAreTrue
  BY DEF Marked
<1> QED BY <1>1, <1>2, <1>3, PTL DEF Spec

-----------------------------------------------------------------------------
(* Nothing is said twice but for a fault. *)

\* The completed window and what may still be handed out have nothing in common.
Apart == recent \cap Outstanding = {}

\* How often an operation may still be posted if nothing fails: once by the adapter that
\* holds it, and once more if it is neither queued nor remembered when that is over, or
\* remembered only until its failure is taken note of.
Chance(a, id, out, rec) ==
  IF a.id = id /\ a.pc = "got" THEN (IF id \in out THEN 1 ELSE 2)
  ELSE IF a.id = id /\ a.pc = "did" THEN (IF id \in out THEN 0 ELSE 1)
  ELSE IF id \in rec /\ ~(a.id = id /\ a.pc = "release") THEN 0 ELSE 1

Earned == \A id \in Said : posted[id] + Chance(ad[id.ch], id, Outstanding, recent) <= 1 + faults

LEMMA ChanceIs ==
  ASSUME NEW a, NEW id, NEW out, NEW rec
  PROVE  /\ Chance(a, id, out, rec) \in 0..2
         /\ a.id = id /\ a.pc = "got" => Chance(a, id, out, rec) = IF id \in out THEN 1 ELSE 2
         /\ a.id = id /\ a.pc = "did" => Chance(a, id, out, rec) = IF id \in out THEN 0 ELSE 1
         /\ a.id = id /\ a.pc = "release" => Chance(a, id, out, rec) = 1
         /\ a.id # id \/ a.pc \notin {"got", "did", "release"} => Chance(a, id, out, rec) = IF id \in rec THEN 0 ELSE 1
BY DEF Chance

LEMMA SaidIs == ASSUME NEW id \in Said PROVE id \in Ids /\ id.ch \in Channels
BY DEF Said, Ids

\* Chances are counted in naturals.
LEMMA CountsAre ==
  ASSUME Typed, Typed', NEW id \in Said
  PROVE  posted[id] \in Nat /\ posted'[id] \in Nat /\ faults \in Nat /\ faults' \in Nat
<1>1. posted \in [Said -> Nat] /\ posted' \in [Said -> Nat]
  BY DEF Typed, TypeOK
<1>2. faults \in 0..MaxFaults /\ faults' \in 0..MaxFaults
  BY DEF Typed, TypeOK
<1> QED BY <1>1, <1>2, Bounds

\* A step is paid for if what it adds to a count it takes from the chance, or from a fault.
LEMMA PaidFor ==
  ASSUME Typed, Typed', Earned,
         \A id \in Said :
           posted'[id] + Chance(ad'[id.ch], id, Outstanding', recent') + faults
             <= posted[id] + Chance(ad[id.ch], id, Outstanding, recent) + faults'
  PROVE  Earned'
<1> SUFFICES ASSUME NEW id \in Said
             PROVE  posted'[id] + Chance(ad'[id.ch], id, Outstanding', recent') <= 1 + faults'
  BY DEF Earned
<1> DEFINE x == Chance(ad[id.ch], id, Outstanding, recent)
           y == Chance(ad'[id.ch], id, Outstanding', recent')
<1>1. x \in Nat /\ y \in Nat
  BY ChanceIs
<1>2. posted[id] \in Nat /\ posted'[id] \in Nat /\ faults \in Nat /\ faults' \in Nat
  BY CountsAre
<1>3. posted[id] + x <= 1 + faults /\ posted'[id] + y + faults <= posted[id] + x + faults'
  BY DEF Earned
<1> HIDE DEF x, y
<1>4. PICK p \in Nat, q \in Nat, f \in Nat, g \in Nat : p = posted[id] /\ q = posted'[id] /\ f = faults /\ g = faults'
  BY <1>2
<1>5. p + x <= 1 + f /\ q + y + f <= p + x + g
  BY <1>3, <1>4
<1>6. q + y <= 1 + g
  BY <1>1, <1>4, <1>5
<1> QED BY <1>4, <1>6 DEF y

\* It is enough to compare chances where nothing is posted.
LEMMA PaidInChance ==
  ASSUME Typed, Typed', Earned, UNCHANGED posted,
         faults' = faults \/ faults' = faults + 1,
         \A id \in Said : LET x == Chance(ad[id.ch], id, Outstanding, recent)
                              y == Chance(ad'[id.ch], id, Outstanding', recent')
                          IN y <= x \/ (y <= x + 1 /\ faults' = faults + 1)
  PROVE  Earned'
<1> SUFFICES ASSUME NEW id \in Said
             PROVE  posted'[id] + Chance(ad'[id.ch], id, Outstanding', recent') + faults
                      <= posted[id] + Chance(ad[id.ch], id, Outstanding, recent) + faults'
  BY PaidFor
<1> DEFINE x == Chance(ad[id.ch], id, Outstanding, recent)
           y == Chance(ad'[id.ch], id, Outstanding', recent')
<1>1. x \in Nat /\ y \in Nat
  BY ChanceIs
<1>2. y <= x \/ (y <= x + 1 /\ faults' = faults + 1)
  OBVIOUS
<1> HIDE DEF x, y
<1>3. PICK p \in Nat, f \in Nat, g \in Nat : p = posted[id] /\ p = posted'[id] /\ f = faults /\ g = faults'
  BY CountsAre
<1>4. (g = f \/ g = f + 1) /\ (y <= x \/ (y <= x + 1 /\ g = f + 1))
  BY <1>2, <1>3
<1>5. p + y + f <= p + x + g
  BY <1>1, <1>3, <1>4
<1> QED BY <1>3, <1>5 DEF x, y

\* Who queues more takes nothing from the window and adds to no chance.
LEMMA EarnedAside ==
  ASSUME Typed, Typed', Apart, Earned,
         \/ InputArrives \/ RouterDelivers \/ RunRecorded \/ FanOutRunReply \/ CloseConversation \/ ReopenConversation
         \/ Reconcile \/ PassIsHeld \/ (\E ch \in Channels : ClaimExpires(ch)) \/ UNCHANGED vars
  PROVE  Apart' /\ Earned'
<1>1. UNCHANGED <<posted, ad, faults>>
  BY DEF InputArrives, RouterDelivers, RunRecorded, FanOutRunReply, CloseConversation, ReopenConversation,
    Reconcile, PassReads, PassIsHeld, PassDelivers, PassArchives, PassEnsuresTopic, ClaimExpires, vars, world
<1>2. Grows \/ UNCHANGED queue
  BY WhoGrows DEF InputArrives, RunRecorded, CloseConversation, ReopenConversation, Reconcile, PassReads, PassIsHeld, ClaimExpires, vars
<1>3. /\ Outstanding \subseteq Outstanding' /\ recent' = recent
      /\ \A id \in Outstanding' : id \in Outstanding \/ id \notin recent
  BY <1>2 DEF Grows, Outstanding, queue
<1>4. Apart'
  BY <1>3 DEF Apart
<1>5. ASSUME NEW id \in Said
      PROVE  Chance(ad'[id.ch], id, Outstanding', recent') <= Chance(ad[id.ch], id, Outstanding, recent)
  BY <1>1, <1>3 DEF Chance
<1> QED BY <1>1, <1>4, <1>5, PaidInChance

\* What a step of one adapter does to the other channels' operations.
LEMMA OutstandingOf ==
  ASSUME Typed, NEW id \in Ids
  PROVE  id \in Outstanding <=> id \in claimed \/ id \in Elems(queued[id.ch])
<1>1. id.ch \in Channels
  BY DEF Ids, Said
<1>2. \A ch \in Channels : Elems(queued[ch]) \subseteq Of(ch)
  <2>1. \A ch \in Channels : queued[ch] \in Seq(Of(ch))
    BY DEF Typed
  <2> QED BY <2>1, ElemsOf
<1>3. \A ch \in Channels : id \in Elems(queued[ch]) => ch = id.ch
  BY <1>2 DEF Of
<1> QED BY <1>1, <1>3 DEF Outstanding

LEMMA EarnedClaim ==
  ASSUME Typed, Typed', Apart, Earned, NEW ch \in Channels, Claim(ch)
  PROVE  Apart' /\ Earned'
<1>1. PICK id \in Ids :
        /\ \/ id \in claimed /\ id.ch = ch /\ UNCHANGED queued
           \/ /\ queued[ch] # <<>> /\ id = Head(queued[ch])
              /\ queued' = [queued EXCEPT ![ch] = Tail(@)]
        /\ claimed' = claimed \cup {id}
        /\ HandsOut(ch, id)
  BY DEF Claim
<1>2. ad[ch].pc = "idle" /\ UNCHANGED <<recent, posted>>
  BY DEF Claim, world
<1>3. id \in Outstanding /\ Outstanding' = Outstanding
  <2>1. CASE id \in claimed /\ UNCHANGED queued
    BY <1>1, <2>1 DEF Outstanding
  <2>2. CASE queued[ch] # <<>> /\ id = Head(queued[ch]) /\ queued' = [queued EXCEPT ![ch] = Tail(@)]
    <3>1. queued[ch] \in Seq(Ids) /\ queued \in [Channels -> Seq(Ids)]
      BY Parts DEF QueueTyped
    <3>2. id \in Elems(queued[ch]) /\ Elems(queued[ch]) = {id} \cup Elems(queued'[ch])
      BY <2>2, <3>1, ElemsOf
    <3>3. \A c \in Channels \ {ch} : queued'[c] = queued[c]
      BY <2>2, <3>1
    <3> QED BY <1>1, <3>2, <3>3 DEF Outstanding
  <2> QED BY <1>1, <2>1, <2>2
<1>4. Apart'
  BY <1>2, <1>3 DEF Apart
<1>5. ad' = [ad EXCEPT ![ch] = [pc |-> "got", id |-> id]] \/ ad' = ad
  BY <1>1 DEF HandsOut
<1>6. faults' = faults \/ faults' = faults + 1
  BY <1>1 DEF HandsOut, Fault
<1>7. ASSUME NEW i \in Said
      PROVE  Chance(ad'[i.ch], i, Outstanding', recent') <= Chance(ad[i.ch], i, Outstanding, recent)
  <2>1. CASE ad'[i.ch] = ad[i.ch]
    BY <1>2, <1>3, <2>1, ChanceIs
  <2>2. CASE i.ch = ch /\ ad'[ch] = [pc |-> "got", id |-> id]
    <3>1. CASE i = id
      <4>1. i \notin recent
        BY <1>3, <3>1 DEF Apart
      <4> QED BY <1>2, <1>3, <2>2, <3>1, <4>1 DEF Chance
    <3>2. CASE i # id
      BY <1>2, <1>3, <2>2, <3>2 DEF Chance
    <3> QED BY <3>1, <3>2
  <2>3. i.ch # ch => ad'[i.ch] = ad[i.ch]
    BY <1>5, SaidIs, Parts DEF AdTyped
  <2>4. i.ch = ch => ad'[i.ch] = ad[i.ch] \/ ad'[ch] = [pc |-> "got", id |-> id]
    BY <1>5, SaidIs, Parts DEF AdTyped
  <2> QED BY <2>1, <2>2, <2>3, <2>4
<1> QED BY <1>2, <1>4, <1>6, <1>7, PaidInChance

LEMMA EarnedAct ==
  ASSUME Typed, Typed', Apart, Earned, NEW ch \in Channels, Act(ch)
  PROVE  Apart' /\ Earned'
<1> DEFINE id == ad[ch].id
<1>1. ad[ch].pc = "got" /\ id \in Ids /\ id.ch = ch /\ UNCHANGED queue
  BY HeldIs DEF Act
<1>2. Outstanding' = Outstanding /\ recent' = recent /\ Apart'
  BY <1>1 DEF Outstanding, queue, Apart
<1>3. PICK pc \in {"did", "refused"} :
        /\ ad' = [ad EXCEPT ![ch].pc = pc]
        /\ pc = "did" => faults' = faults /\ (posted' = posted \/ Executes(id))
        /\ pc = "refused" => faults' = faults + 1 /\ (posted' = posted \/ Executes(id))
  BY DEF Act, Execute, Executes, Fault, world
<1>4. ad'[ch].pc = pc /\ ad'[ch].id = id /\ \A c \in Channels \ {ch} : ad'[c] = ad[c]
  BY <1>3, Parts DEF AdTyped, Ads
<1>5. posted \in [Said -> Nat]
  BY Parts DEF WorldTyped
<1> SUFFICES ASSUME NEW i \in Said
             PROVE  posted'[i] + Chance(ad'[i.ch], i, Outstanding', recent') + faults
                      <= posted[i] + Chance(ad[i.ch], i, Outstanding, recent) + faults'
  BY <1>2, PaidFor
<1> DEFINE x == Chance(ad[i.ch], i, Outstanding, recent)
           y == Chance(ad'[i.ch], i, Outstanding', recent')
<1>6. x \in Nat /\ y \in Nat
  BY ChanceIs
<1>7. i.ch \in Channels
  BY SaidIs
<1>8. CASE i # id
  <2>1. posted'[i] = posted[i] /\ y <= x
    <3>1. posted'[i] = posted[i]
      BY <1>3, <1>5, <1>8 DEF Executes
    <3>2. ad'[i.ch] = ad[i.ch] \/ (ad[i.ch].id = id /\ ad'[i.ch].id = id)
      BY <1>4, <1>7
    <3> QED BY <1>2, <1>8, <3>1, <3>2, ChanceIs
  <2>2. faults' = faults \/ faults' = faults + 1
    BY <1>3
  <2> HIDE DEF x, y
  <2>3. PICK p \in Nat, f \in Nat, g \in Nat : p = posted[i] /\ p = posted'[i] /\ f = faults /\ g = faults'
    BY <2>1, CountsAre
  <2>4. g = f \/ g = f + 1
    BY <2>2, <2>3
  <2>5. p + y + f <= p + x + g
    BY <1>6, <2>1, <2>4
  <2> QED BY <2>3, <2>5 DEF x, y
<1>9. CASE i = id
  <2>1. i.ch = ch /\ x = (IF i \in Outstanding THEN 1 ELSE 2)
    BY <1>1, <1>9, ChanceIs
  <2>2. posted'[i] = posted[i] \/ posted'[i] = posted[i] + 1
    BY <1>3, <1>5, <1>9 DEF Executes
  <2>3. (y <= x - 1 /\ faults' = faults) \/ (y <= 1 /\ faults' = faults + 1)
    <3>1. CASE pc = "did"
      <4>1. y = IF i \in Outstanding THEN 0 ELSE 1
        BY <1>2, <1>4, <1>9, <2>1, <3>1 DEF Chance
      <4> QED BY <1>3, <2>1, <3>1, <4>1
    <3>2. CASE pc = "refused"
      BY <1>3, <1>4, <1>9, <2>1, <3>2 DEF Chance
    <3> QED BY <3>1, <3>2
  <2> HIDE DEF x, y, id
  <2>4. x \in {1, 2}
    BY <2>1
  <2>5. PICK p \in Nat, q \in Nat, f \in Nat, g \in Nat : p = posted[i] /\ q = posted'[i] /\ f = faults /\ g = faults'
    BY CountsAre
  <2>6. (q = p \/ q = p + 1) /\ ((y <= x - 1 /\ g = f) \/ (y <= 1 /\ g = f + 1))
    BY <2>2, <2>3, <2>5
  <2>7. q + y + f <= p + x + g
    BY <1>6, <2>4, <2>6
  <2> QED BY <2>5, <2>7 DEF x, y
<1> QED BY <1>8, <1>9

\* What was done and is completed leaves the queue for the window, at once.
LEMMA EarnedComplete ==
  ASSUME Typed, Typed', Apart, Earned, NEW ch \in Channels, Complete(ch)
  PROVE  Apart' /\ Earned'
<1> DEFINE id == ad[ch].id
           known == id \in Outstanding
<1>1. /\ ad[ch].pc \in {"did", "refused"} /\ id \in Ids /\ id.ch = ch /\ ad[ch] \in Ads
      /\ UNCHANGED <<posted, faults>>
  BY HeldIs DEF Complete, world
<1>2. /\ recent' = IF known THEN recent \cup {id} ELSE recent
      /\ ad' = [ad EXCEPT ![ch] = IF known /\ Marks(ch) # "idle" THEN [ad[ch] EXCEPT !.pc = Marks(ch)] ELSE Idle]
      /\ claimed' = claimed \ {id} /\ queued' = [queued EXCEPT ![ch] = Without(queued[ch], {id})]
  BY DEF Complete
<1>3. Outstanding' \subseteq Outstanding \ {id}
  <2>1. queued[ch] \in Seq(Of(ch)) /\ queued \in [Channels -> Seq(Ids)]
    BY Parts DEF QueueTyped
  <2>2. Elems(Without(queued[ch], {id})) \subseteq Elems(queued[ch]) \ {id}
    BY <2>1, WithoutOf
  <2>3. \A c \in Channels \ {ch} : queued'[c] = queued[c] /\ id \notin Elems(queued[c])
    <3>1. \A c \in Channels : Elems(queued[c]) \subseteq Of(c)
      <4>1. \A c \in Channels : queued[c] \in Seq(Of(c))
        BY DEF Typed
      <4> QED BY <4>1, ElemsOf
    <3> QED BY <1>1, <1>2, <2>1, <3>1 DEF Of
  <2>4. queued'[ch] = Without(queued[ch], {id})
    BY <1>2, <2>1
  <2> HIDE DEF id
  <2> QED BY <1>2, <2>2, <2>3, <2>4 DEF Outstanding
<1>4. Apart'
  BY <1>2, <1>3 DEF Apart
<1>5. /\ \A c \in Channels \ {ch} : ad'[c] = ad[c]
      /\ ad'[ch].pc \notin {"got", "did"}
      /\ ad'[ch].pc = "release" => known /\ ad'[ch].id = id
      /\ known /\ ad[ch].pc = "refused" => ad'[ch].pc = "release" /\ ad'[ch].id = id
      /\ ad[ch].pc = "did" => ad'[ch].pc # "release"
  <2>1. Marks(ch) \notin {"got", "did"} /\ (ad[ch].pc = "refused" <=> Marks(ch) = "release")
    BY <1>1 DEF Marks, Writes
  <2> QED BY <1>1, <1>2, <2>1, IdleIs, Parts DEF AdTyped, Ads
<1>6. ASSUME NEW i \in Said
      PROVE  Chance(ad'[i.ch], i, Outstanding', recent') <= Chance(ad[i.ch], i, Outstanding, recent)
  <2>1. CASE i.ch # ch
    <3>1. ad'[i.ch] = ad[i.ch] /\ i # id
      BY <1>1, <1>5, <2>1, SaidIs
    <3>2. i \in recent' <=> i \in recent
      BY <1>2, <3>1
    <3>3. i \in Outstanding' <=> i \in Outstanding
      <4>1. queued'[i.ch] = queued[i.ch]
        BY <1>2, <2>1, SaidIs, Parts DEF QueueTyped
      <4>2. i \in claimed' <=> i \in claimed
        BY <1>2, <3>1
      <4>3. i \in Outstanding' <=> i \in claimed' \/ i \in Elems(queued'[i.ch])
        <5>1. \A c \in Channels : Elems(queued'[c]) \subseteq Of(c)
          <6>1. \A c \in Channels : queued'[c] \in Seq(Of(c))
            BY DEF Typed
          <6> QED BY <6>1, ElemsOf
        <5> QED BY <5>1, SaidIs DEF Outstanding, Of
      <4> QED BY <4>1, <4>2, <4>3, OutstandingOf, SaidIs
    <3> QED BY <3>1, <3>2, <3>3 DEF Chance
  <2>2. CASE i.ch = ch /\ i # id
    <3>1. i \in recent' <=> i \in recent
      BY <1>2, <2>2
    <3>2. Chance(ad'[i.ch], i, Outstanding', recent') = IF i \in recent' THEN 0 ELSE 1
      BY <1>5, <2>2, ChanceIs
    <3>3. Chance(ad[i.ch], i, Outstanding, recent) = IF i \in recent THEN 0 ELSE 1
      BY <2>2, ChanceIs
    <3> QED BY <3>1, <3>2, <3>3
  <2>3. CASE i = id
    <3>2. CASE ad[ch].pc = "refused"
      <4>1. Chance(ad[i.ch], i, Outstanding, recent) = IF i \in recent THEN 0 ELSE 1
        BY <1>1, <2>3, <3>2, ChanceIs
      <4>2. CASE known
        <5>1. i \notin recent
          BY <2>3, <4>2 DEF Apart
        <5>2. Chance(ad'[i.ch], i, Outstanding', recent') = 1
          BY <1>1, <1>5, <2>3, <3>2, <4>2, ChanceIs
        <5> QED BY <4>1, <5>1, <5>2
      <4>3. CASE ~known
        <5>1. recent' = recent /\ Chance(ad'[i.ch], i, Outstanding', recent') = IF i \in recent' THEN 0 ELSE 1
          BY <1>1, <1>2, <1>5, <2>3, <4>3, ChanceIs
        <5> QED BY <4>1, <5>1
      <4> QED BY <4>2, <4>3
    <3>3. CASE ad[ch].pc = "did"
      <4>0. Chance(ad'[i.ch], i, Outstanding', recent') = IF i \in recent' THEN 0 ELSE 1
        BY <1>1, <1>5, <2>3, <3>3, ChanceIs
      <4>1. Chance(ad[i.ch], i, Outstanding, recent) = IF known THEN 0 ELSE 1
        BY <1>1, <2>3, <3>3 DEF Chance
      <4> QED BY <1>2, <2>3, <3>3, <4>0, <4>1
    <3> QED BY <1>1, <3>2, <3>3
  <2> QED BY <2>1, <2>2, <2>3
<1> QED BY <1>1, <1>4, <1>6, PaidInChance

LEMMA EarnedMarking ==
  ASSUME Typed, Typed', Apart, Earned, NEW ch \in Channels, Marking(ch)
  PROVE  Apart' /\ Earned'
<1> DEFINE id == ad[ch].id
<1>1. UNCHANGED <<posted, faults, queued, claimed>> /\ ad[ch].pc \in Completing
  BY DEF Marking, ReleaseRefused, MarkDelivered, ClearUndeliveredNote, MarkUndelivered, FinishEnsureTopic, MarkThreadArchived,
         world, queue, Completing, Writing
<1>2. Outstanding' = Outstanding
  BY <1>1 DEF Outstanding
<1>3. PICK pc \in {"idle", "settle", "undelivered", "unclaim"} : NextMark(ch, pc)
  BY DEF Marking, ReleaseRefused, MarkDelivered, ClearUndeliveredNote, MarkUndelivered, FinishEnsureTopic, MarkThreadArchived
<1>4. \A c \in Channels : ad'[c] = ad[c] \/ (c = ch /\ ad'[c].pc \in {"idle", "settle", "undelivered", "unclaim"})
  BY <1>1, <1>3, IdleIs, HeldIs, Parts DEF NextMark, AdTyped, Ads, Completing, Writing
<1>5. recent' = recent \/ (ad[ch].pc = "release" /\ recent' = recent \ {id})
  BY DEF Marking, ReleaseRefused, Releases, MarkDelivered, ClearUndeliveredNote, MarkUndelivered, FinishEnsureTopic,
         MarkThreadArchived, queue
<1>6. Apart'
  BY <1>2, <1>5 DEF Apart
<1>7. ASSUME NEW i \in Said
      PROVE  Chance(ad'[i.ch], i, Outstanding', recent') <= Chance(ad[i.ch], i, Outstanding, recent)
  <2>1. CASE i = id /\ ad[ch].pc = "release"
    <3>1. i.ch = ch
      BY <1>1, <2>1, HeldIs DEF Completing, Writing
    <3>2. Chance(ad[i.ch], i, Outstanding, recent) = 1
      BY <2>1, <3>1, ChanceIs
    <3>3. Chance(ad'[i.ch], i, Outstanding', recent') \in {0, 1}
      BY <1>4, <2>1, <3>1, ChanceIs DEF Chance
    <3> QED BY <3>2, <3>3
  <2>2. CASE ~(i = id /\ ad[ch].pc = "release")
    <3>1. i \in recent' <=> i \in recent
      BY <1>5, <2>2
    <3>2. CASE ad'[i.ch] = ad[i.ch]
      BY <1>2, <3>1, <3>2 DEF Chance
    <3>3. CASE i.ch = ch /\ ad'[ch].pc \in {"idle", "settle", "undelivered", "unclaim"}
      <4>1. Chance(ad'[i.ch], i, Outstanding', recent') = IF i \in recent' THEN 0 ELSE 1
        BY <3>3, ChanceIs
      <4>2. Chance(ad[i.ch], i, Outstanding, recent) = IF i \in recent THEN 0 ELSE 1
        BY <1>1, <2>2, <3>3, ChanceIs DEF Completing, Writing
      <4> QED BY <3>1, <4>1, <4>2
    <3> QED BY <1>4, <3>2, <3>3, SaidIs
  <2> QED BY <2>1, <2>2
<1> QED BY <1>1, <1>6, <1>7, PaidInChance

LEMMA EarnedFaults ==
  ASSUME Typed, Typed', Apart, Earned, RecentForgets \/ ManagerRestarts \/ \E ch \in Channels : AdapterGivesUp(ch) \/ MarkFails(ch)
  PROVE  Apart' /\ Earned'
<1>1. faults' = faults + 1 /\ UNCHANGED posted
  BY DEF RecentForgets, ManagerRestarts, AdapterGivesUp, MarkFails, Fault, world
<1>2. CASE RecentForgets
  <2>1. /\ recent' \subseteq recent /\ Outstanding' = Outstanding /\ ad' = ad
    BY <1>2 DEF RecentForgets, Outstanding
  <2>2. \A i \in Said : Chance(ad'[i.ch], i, Outstanding', recent') <= Chance(ad[i.ch], i, Outstanding, recent) + 1
    BY <2>1 DEF Chance
  <2> QED BY <1>1, <2>1, <2>2, PaidInChance DEF Apart
<1>3. CASE ManagerRestarts
  <2>1. recent' = {} /\ Apart' /\ Outstanding' = {}
    <3>1. \A c \in Channels : queued'[c] = <<>> /\ Elems(queued'[c]) = {}
      BY <1>3 DEF ManagerRestarts, Elems
    <3> QED BY <1>3, <3>1 DEF ManagerRestarts, Apart, Outstanding
  <2>2. \A c \in Channels : ad'[c] = ad[c] \/ (ad[c].pc \in Completing /\ ad'[c].pc = "idle")
    BY <1>3, IdleIs DEF ManagerRestarts
  <2>3. ASSUME NEW i \in Said
        PROVE  Chance(ad'[i.ch], i, Outstanding', recent') <= Chance(ad[i.ch], i, Outstanding, recent) + 1
    BY <2>1, <2>2, SaidIs DEF Chance, Completing, Writing
  <2> QED BY <1>1, <2>1, <2>3, PaidInChance
<1>4. ASSUME NEW ch \in Channels, AdapterGivesUp(ch) \/ MarkFails(ch) PROVE Apart' /\ Earned'
  <2>1. /\ ad' = [ad EXCEPT ![ch] = Idle] /\ UNCHANGED <<queued, claimed>> /\ recent' \subseteq recent
        /\ \A i \in Ids : i \in recent /\ ~(ad[ch].pc \in Writing /\ ad[ch].id = i) => i \in recent'
    BY <1>4 DEF AdapterGivesUp, MarkFails, Writing, NextMark, queue
  <2>2. Outstanding' = Outstanding
    BY <2>1 DEF Outstanding
  <2>3. \A c \in Channels : ad'[c] = ad[c] \/ (c = ch /\ ad'[c].pc = "idle")
    BY <2>1, IdleIs, Parts DEF AdTyped
  <2>4. ASSUME NEW i \in Said
        PROVE  Chance(ad'[i.ch], i, Outstanding', recent') <= Chance(ad[i.ch], i, Outstanding, recent) + 1
    BY <2>1, <2>2, <2>3, SaidIs DEF Chance, Completing, Writing
  <2> QED BY <1>1, <2>1, <2>2, <2>4, PaidInChance DEF Apart
<1> QED BY <1>2, <1>3, <1>4

\* A reply or a card is posted once, and once more for each fault at the most, however the
\* two paths that queue it interleave with its attempts (enqueue, Claim, Complete).
THEOREM RepetitionsAreFaults == Spec => []RepeatsNeedFaults
<1>1. Init => Typed /\ Apart /\ Earned
  <2> SUFFICES ASSUME Init PROVE Apart /\ Earned
    BY TypedInit
  <2>1. recent = {} /\ faults = 0 /\ \A id \in Said : posted[id] = 0 /\ ad[id.ch].pc = "idle"
    BY IdleIs, SaidIs DEF Init
  <2>2. \A id \in Said : Chance(ad[id.ch], id, Outstanding, recent) = 1
    BY <2>1 DEF Chance
  <2> QED BY <2>1, <2>2 DEF Apart, Earned
<1>2. Typed /\ Apart /\ Earned /\ [Next]_vars => Typed' /\ Apart' /\ Earned'
  <2> SUFFICES ASSUME Typed, Apart, Earned, [Next]_vars PROVE Apart' /\ Earned'
    BY TypedNext
  <2>1. Typed'
    BY TypedNext
  <2>2. CASE \E ch \in Channels : Adapter(ch)
    BY <2>1, <2>2, EarnedClaim, EarnedAct, EarnedComplete, EarnedMarking DEF Adapter
  <2> QED BY <2>1, <2>2, EarnedAside, EarnedFaults DEF Next
<1>3. Typed /\ Earned => RepeatsNeedFaults
  <2> SUFFICES ASSUME Typed, Earned, NEW id \in Said PROVE posted[id] <= 1 + faults
    BY DEF RepeatsNeedFaults
  <2> DEFINE x == Chance(ad[id.ch], id, Outstanding, recent)
  <2>1. x \in Nat /\ posted[id] \in Nat /\ faults \in Nat
    <3>1. posted \in [Said -> Nat] /\ faults \in 0..MaxFaults
      BY DEF Typed, TypeOK
    <3> QED BY <3>1, ChanceIs, Bounds
  <2>2. posted[id] + x <= 1 + faults
    BY DEF Earned
  <2> HIDE DEF x
  <2> QED BY <2>1, <2>2
<1> QED BY <1>1, <1>2, <1>3, PTL DEF Spec

=============================================================================
