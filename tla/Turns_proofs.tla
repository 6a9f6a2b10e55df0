----------------------------- MODULE Turns_proofs -----------------------------
(***************************************************************************)
(* The turns of a root are judged, and judged by their own moves; its       *)
(* budget ends it; what a member answered is taken in once: proved for any   *)
(* number of requests, turns, runs, results and faults.                      *)
(***************************************************************************)
EXTENDS Turns, FiniteSetTheorems, WellFoundedInduction, TLAPS

-----------------------------------------------------------------------------
(* Least elements. *)

LEMMA NatMin ==
  ASSUME NEW S \in SUBSET Nat, S # {}
  PROVE  \E n \in S : \A k \in S : n <= k
<1>1. IsWellFoundedOn(OpToRel(<, Nat), Nat)
  BY NatLessThanWellFounded
<1>2. PICK n \in S : \A k \in S : ~(<<k, n>> \in OpToRel(<, Nat))
  BY ONLY <1>1, S \in SUBSET Nat, S # {}, WFMin
<1>3. \A k \in S : ~(k < n)
  BY <1>2 DEF OpToRel
<1> QED BY <1>3

LEMMA LeastIs ==
  ASSUME NEW S \in SUBSET Nat, S # {}
  PROVE  Least(S) \in S /\ \A k \in S : Least(S) <= k
BY NatMin DEF Least

-----------------------------------------------------------------------------
(* The queue without some of its inputs.  The function is what its body says, *)
(* which no prover here knows of a recursive one: a first number up to which   *)
(* there were none would be a contradiction.                                   *)

Step(s, D, kept, n) ==
  IF n = 0 THEN <<>> ELSE IF s[n] \in D THEN kept[n - 1] ELSE Append(kept[n - 1], s[n])

Filters(T, s, D, m) == \E kept \in [0..m -> Seq(T)] : \A n \in 0..m : kept[n] = Step(s, D, kept, n)

LEMMA KeptUpTo ==
  ASSUME NEW T, NEW s \in Seq(T), NEW D, NEW m \in 0..Len(s)
  PROVE  Filters(T, s, D, m)
<1> DEFINE Good(n) == Filters(T, s, D, n)
           Bad == {n \in 0..Len(s) : ~Good(n)}
<1>1. SUFFICES ASSUME Bad # {} PROVE FALSE
  OBVIOUS
<1>2. Bad \in SUBSET Nat
  OBVIOUS
<1>3. PICK n \in Bad : \A k \in Bad : n <= k
  BY <1>1, <1>2, NatMin
<1>4. CASE n = 0
  <2>1. [k \in 0..0 |-> <<>>] \in [0..0 -> Seq(T)]
    OBVIOUS
  <2>2. \A k \in 0..0 : [j \in 0..0 |-> <<>>][k] = Step(s, D, [j \in 0..0 |-> <<>>], k)
    BY DEF Step
  <2>3. Good(0)
    BY <2>1, <2>2 DEF Filters
  <2> QED BY <1>3, <1>4, <2>3
<1>5. CASE n # 0
  <2>0. n \in 0..Len(s) /\ Len(s) \in Nat
    BY <1>3
  <2>1. n - 1 \in 0..Len(s) /\ n - 1 \notin Bad /\ n \in 1..Len(s)
    <3>1. n - 1 \in 0..Len(s) /\ n \in 1..Len(s) /\ ~(n <= n - 1)
      BY <2>0, <1>5
    <3> QED BY <3>1, <1>3
  <2>2. PICK f \in [0..n - 1 -> Seq(T)] : \A k \in 0..n - 1 : f[k] = Step(s, D, f, k)
    BY <2>1 DEF Filters
  <2> DEFINE g == [k \in 0..n |-> IF k = n THEN Step(s, D, f, n) ELSE f[k]]
  <2>3. s[n] \in T /\ f[n - 1] \in Seq(T)
    BY <2>1
  <2>4. Step(s, D, f, n) \in Seq(T)
    BY <2>3, <1>5 DEF Step
  <2>5. g \in [0..n -> Seq(T)]
    BY <2>1, <2>4
  <2>6. \A k \in 0..n - 1 : g[k] = f[k]
    BY <2>1
  <2>7. g[n] = Step(s, D, f, n)
    BY <2>1
  <2> HIDE DEF g
  <2>8. ASSUME NEW k \in 0..n PROVE g[k] = Step(s, D, g, k)
    <3>1. CASE k = n
      <4>1. g[n - 1] = f[n - 1]
        BY <2>1, <2>6
      <4> QED BY <3>1, <2>7, <4>1, <1>5 DEF Step
    <3>2. CASE k # n
      <4>1. k \in 0..n - 1 /\ (k # 0 => k - 1 \in 0..n - 1)
        BY <3>2, <2>1
      <4>2. g[k] = Step(s, D, f, k) /\ (k # 0 => g[k - 1] = f[k - 1])
        BY <4>1, <2>2, <2>6
      <4> QED BY <4>2 DEF Step
    <3> QED BY <3>1, <3>2
  <2>9. Good(n)
    BY <2>5, <2>8 DEF Filters
  <2> QED BY <1>3, <2>9
<1> QED BY <1>4, <1>5

LEMMA WithoutIs ==
  ASSUME NEW T, NEW s \in Seq(T), NEW D
  PROVE  \E kept \in [0..Len(s) -> Seq(T)] :
           Without(s, D) = kept[Len(s)] /\ \A n \in 0..Len(s) : kept[n] = Step(s, D, kept, n)
<1>1. Len(s) \in 0..Len(s)
  OBVIOUS
<1>m. Filters(T, s, D, Len(s))
  BY <1>1, KeptUpTo
<1>2. PICK f \in [0..Len(s) -> Seq(T)] : \A n \in 0..Len(s) : f[n] = Step(s, D, f, n)
  BY <1>m DEF Filters
<1> DEFINE Rec(k) == k = [n \in 0..Len(s) |->
                            IF n = 0 THEN <<>> ELSE IF s[n] \in D THEN k[n - 1] ELSE Append(k[n - 1], s[n])]
           g == CHOOSE k : Rec(k)
<1>3. f = [n \in 0..Len(s) |-> f[n]]
  OBVIOUS
<1>4. Rec(f)
  BY <1>2, <1>3 DEF Step
<1>5. Rec(g)
  BY <1>4
<1>6. Without(s, D) = g[Len(s)]
  BY DEF Without
<1> HIDE DEF g
<1>7. \A n \in 0..Len(s) : g[n] = Step(s, D, g, n)
  BY <1>5 DEF Step
<1>8. \A n \in 0..Len(s) : g[n] \in Seq(T)
  <2> DEFINE Bad == {n \in 0..Len(s) : g[n] \notin Seq(T)}
  <2>1. SUFFICES ASSUME Bad # {} PROVE FALSE
    OBVIOUS
  <2>a. Bad \in SUBSET Nat
    OBVIOUS
  <2>2. PICK n \in Bad : \A k \in Bad : n <= k
    BY <2>1, <2>a, NatMin
  <2>b. n \in 0..Len(s) /\ Len(s) \in Nat /\ g[n] \notin Seq(T)
    BY <2>2
  <2>c. g[n] = Step(s, D, g, n)
    BY <2>b, <1>7
  <2>3. n # 0
    BY <2>b, <2>c DEF Step
  <2>d. n - 1 \in 0..Len(s) /\ ~(n <= n - 1) /\ n \in 1..Len(s)
    BY <2>b, <2>3
  <2>4. g[n - 1] \in Seq(T) /\ s[n] \in T
    BY <2>2, <2>d
  <2>5. g[n] \in Seq(T)
    BY <2>c, <2>3, <2>4 DEF Step
  <2> QED BY <2>b, <2>5
<1>9. g \in [0..Len(s) -> Seq(T)]
  <2>1. g = [n \in 0..Len(s) |->
              IF n = 0 THEN <<>> ELSE IF s[n] \in D THEN g[n - 1] ELSE Append(g[n - 1], s[n])]
    BY <1>5
  <2>2. DOMAIN g = 0..Len(s) /\ g = [n \in 0..Len(s) |-> g[n]]
    BY <2>1
  <2> QED BY <1>8, <2>2
<1> QED BY <1>6, <1>7, <1>9

LEMMA AppendIs ==
  ASSUME NEW T, NEW s \in Seq(T), NEW e \in T
  PROVE  Append(s, e) \in Seq(T) /\ Range(Append(s, e)) = Range(s) \cup {e} /\ Range(s) \subseteq T
<1>1. /\ Append(s, e) \in Seq(T) /\ DOMAIN Append(s, e) = 1..Len(s) + 1 /\ DOMAIN s = 1..Len(s) /\ Len(s) \in Nat
      /\ Append(s, e)[Len(s) + 1] = e /\ \A k \in 1..Len(s) : Append(s, e)[k] = s[k] /\ s[k] \in T
  OBVIOUS
<1> DEFINE t == Append(s, e)
<1> HIDE DEF t
<1>2. Range(t) = Range(s) \cup {e}
  BY <1>1 DEF Range, t
<1> QED BY <1>1, <1>2 DEF Range, t

\* What is left is what was there and is not among the done.
LEMMA WithoutKeeps ==
  ASSUME NEW T, NEW s \in Seq(T), NEW D
  PROVE  Without(s, D) \in Seq(T) /\ Range(Without(s, D)) = Range(s) \ D
<1>1. PICK kept \in [0..Len(s) -> Seq(T)] :
        Without(s, D) = kept[Len(s)] /\ \A n \in 0..Len(s) : kept[n] = Step(s, D, kept, n)
  BY WithoutIs
<1> DEFINE Bad == {n \in 0..Len(s) : Range(kept[n]) # {s[k] : k \in 1..n} \ D}
<1>2. Bad = {}
  <2>1. SUFFICES ASSUME Bad # {} PROVE FALSE
    OBVIOUS
  <2>a. Bad \in SUBSET Nat
    OBVIOUS
  <2>2. PICK n \in Bad : \A k \in Bad : n <= k
    BY <2>1, <2>a, NatMin
  <2>b. n \in 0..Len(s) /\ Len(s) \in Nat
    BY <2>2
  <2>3. n # 0
    <3>1. kept[0] = <<>>
      BY <1>1 DEF Step
    <3>2. Range(<<>>) = {} /\ 1..0 = {}
      BY DEF Range
    <3> QED BY <2>2, <3>1, <3>2
  <2>4. n - 1 \in 0..Len(s) /\ n \in 1..Len(s) /\ n - 1 \notin Bad
    <3>1. n - 1 \in 0..Len(s) /\ n \in 1..Len(s) /\ ~(n <= n - 1)
      BY <2>b, <2>3
    <3> QED BY <3>1, <2>2
  <2>5. kept[n - 1] \in Seq(T) /\ s[n] \in T /\ Range(kept[n - 1]) = {s[k] : k \in 1..(n - 1)} \ D
    BY <2>4
  <2>6. 1..n = 1..(n - 1) \cup {n}
    BY <2>4
  <2>7. {s[k] : k \in 1..n} = {s[k] : k \in 1..(n - 1)} \cup {s[n]}
    BY <2>6
  <2>8. kept[n] = IF s[n] \in D THEN kept[n - 1] ELSE Append(kept[n - 1], s[n])
    BY <1>1, <2>2, <2>3 DEF Step
  <2>9. Range(Append(kept[n - 1], s[n])) = Range(kept[n - 1]) \cup {s[n]}
    BY <2>5, AppendIs
  <2>10. Range(kept[n]) = {s[k] : k \in 1..n} \ D
    BY <2>5, <2>7, <2>8, <2>9
  <2> QED BY <2>2, <2>10
<1>3. Len(s) \in 0..Len(s) /\ Range(s) = {s[k] : k \in 1..Len(s)}
  BY DEF Range
<1> QED BY <1>1, <1>2, <1>3

-----------------------------------------------------------------------------
(* The shapes. *)

Inputs == {"signal", "message", "manager", "result"} \X Nat
Units == [run : Nat, ids : SUBSET Inputs, moved : BOOLEAN]
Roots == [open : BOOLEAN, inputs : Seq(Inputs), done : Seq(Inputs), inflight : Units,
          runs : SUBSET Nat, turns : Nat, escalated : BOOLEAN]
Agents == [st : {"idle", "busy", "report"}, run : Nat, ok : BOOLEAN]
Pcs == {"idle", "get", "act", "record", "mark", "close", "answer"}
Verdicts == {"ended", "first", "second"}
Requests == [pc : Pcs, run : Nat, verdict : Verdicts]
Members == [st : {"none", "open", "closed"}, runs : Nat, routed : SUBSET Nat]
Routings == [pc : {"idle", "append", "mark"}, todo : SUBSET Nat]
Pasts == [made : BOOLEAN, excused : BOOLEAN, misjudged : BOOLEAN, undecided : BOOLEAN, lost : BOOLEAN,
          abandoned : BOOLEAN, reached : SUBSET Nat]

Typed ==
  /\ root \in Roots /\ agent \in Agents /\ verb \in Nat
  /\ hs \in [Handlers -> Requests]
  /\ member \in Members /\ fast \in Routings /\ back \in Routings
  /\ sent \in [message : Nat, run : Nat] /\ faults \in Nat /\ past \in Pasts

\* What a routing has to do, it has runs of the member for.
Routes ==
  /\ member.routed \subseteq 1..member.runs
  /\ fast.todo \subseteq 1..member.runs /\ (fast.pc # "idle" => fast.todo # {})
  /\ back.todo \subseteq 1..member.runs /\ (back.pc # "idle" => back.todo # {})

LEMMA InitTyped == Init => Typed /\ Routes
<1> SUFFICES ASSUME Init PROVE Typed /\ Routes
  OBVIOUS
<1>1. <<"signal", 1>> \in Inputs
  BY DEF Inputs
<1>2. NoUnit \in Units /\ NoRouting \in Routings /\ NoReport \in Requests
  BY DEF NoUnit, Units, NoRouting, Routings, NoReport, Requests, Pcs, Verdicts
<1>3. root \in Roots
  BY <1>1, <1>2 DEF Init, Roots
<1>4. agent \in Agents /\ member \in Members /\ sent \in [message : Nat, run : Nat] /\ past \in Pasts
  BY DEF Init, Agents, Members, Pasts
<1>5. Typed
  BY <1>2, <1>3, <1>4 DEF Init, Typed
<1> QED BY <1>5 DEF Init, Routes, NoRouting

\* Where an input goes, when it is appended.
LEMMA AppendedIs ==
  ASSUME NEW c \in Roots, NEW i \in Inputs
  PROVE  LET d == Appended(c, i) IN
         /\ d \in Roots
         /\ d.open = c.open /\ d.done = c.done /\ d.inflight = c.inflight /\ d.runs = c.runs
         /\ d.turns = c.turns /\ d.escalated = c.escalated
         /\ Range(c.inputs) \subseteq Range(d.inputs) /\ Range(d.inputs) \subseteq Range(c.inputs) \cup {i}
         /\ c.open => i \in Range(d.inputs)
<1>1. c.inputs \in Seq(Inputs)
  BY DEF Roots
<1>2. PICK s \in Seq(Inputs) : s = Append(c.inputs, i) /\ Range(s) = Range(c.inputs) \cup {i}
  BY <1>1, AppendIs
<1>3. CASE c.open /\ i \notin Range(c.inputs)
  <2>1. Appended(c, i) = [c EXCEPT !.inputs = s]
    BY <1>2, <1>3 DEF Appended
  <2> QED BY <2>1, <1>2 DEF Roots
<1>4. CASE ~(c.open /\ i \notin Range(c.inputs))
  BY <1>4 DEF Appended
<1> QED BY <1>3, <1>4

\* What the record keeps of what was worked on.
LEMMA ProcessedIs ==
  ASSUME NEW c \in Roots
  PROVE  Processed(c) \subseteq Range(c.done) /\ Range(c.done) \subseteq Inputs
BY DEF Processed, Range, Roots

LEMMA ProcessedGrows ==
  ASSUME NEW c, c.done \in Seq(Inputs), NEW s \in Seq(Inputs), NEW d, d.done = c.done \o s
  PROVE  Processed(d) \subseteq Processed(c) \cup Range(s)
<1> SUFFICES ASSUME NEW j \in DOMAIN d.done, j + ProcessedKept > Len(d.done)
             PROVE  d.done[j] \in Processed(c) \cup Range(s)
  BY DEF Processed
<1>1. /\ Len(c.done) \in Nat /\ Len(s) \in Nat /\ DOMAIN s = 1..Len(s) /\ DOMAIN c.done = 1..Len(c.done)
      /\ Len(d.done) = Len(c.done) + Len(s) /\ j \in 1..(Len(c.done) + Len(s)) /\ ProcessedKept \in Nat
  BY TurnBounds
<1>2. CASE j > Len(c.done)
  <2>1. j - Len(c.done) \in 1..Len(s) /\ d.done[j] = s[j - Len(c.done)]
    BY <1>1, <1>2
  <2> QED BY <1>1, <2>1 DEF Range
<1>3. CASE j <= Len(c.done)
  <2>1. j \in DOMAIN c.done /\ d.done[j] = c.done[j] /\ j + ProcessedKept > Len(c.done)
    BY <1>1, <1>3
  <2> QED BY <2>1 DEF Processed
<1> QED BY <1>1, <1>2, <1>3

SameDone == root'.done = root.done /\ Processed(root') = Processed(root)

LEMMA DoneStays == ASSUME root'.done = root.done PROVE SameDone
BY DEF SameDone, Processed

\* The inputs of a unit, in order.
LEMMA OrderedIs ==
  ASSUME NEW c \in Roots, NEW ids
  PROVE  InOrder(c, ids) \in Seq(Inputs) /\ Range(InOrder(c, ids)) \subseteq ids
<1>1. c.inputs \in Seq(Inputs)
  BY DEF Roots
<1>2. Without(c.inputs, Range(c.inputs) \ ids) \in Seq(Inputs)
  BY <1>1, WithoutKeeps
<1>3. Range(Without(c.inputs, Range(c.inputs) \ ids)) = Range(c.inputs) \ (Range(c.inputs) \ ids)
  BY <1>1, WithoutKeeps
<1> QED BY <1>2, <1>3 DEF InOrder

\* What is given to the agent is not empty, and was pending.
LEMMA PendingIs ==
  ASSUME NEW c \in Roots
  PROVE  /\ PendingInputs(c) \in Seq(Inputs)
         /\ Range(PendingInputs(c)) = Range(c.inputs) \ (Processed(c) \cup c.inflight.ids)
BY WithoutKeeps DEF PendingInputs, Roots

LEMMA UnitIs ==
  ASSUME NEW s \in Seq(Inputs), s # <<>>
  PROVE  Unit(s) \subseteq Range(s) /\ Unit(s) \subseteq Inputs
<1>1. Len(s) \in Nat /\ DOMAIN s = 1..Len(s) /\ 1 \in 1..Len(s) /\ \A k \in 1..Len(s) : s[k] \in Inputs
  OBVIOUS
<1> QED BY <1>1 DEF Unit, Range

\* What is left of a list of owed results, when the first was seen to.
LEMMA NextOwedIs ==
  ASSUME NEW b \in Routings, b.todo # {}
  PROVE  /\ NextOwed(b) \in Routings /\ NextOwed(b).pc # "mark"
         /\ NextOwed(b).todo = b.todo \ {Least(b.todo)}
         /\ NextOwed(b).pc # "idle" => NextOwed(b).todo # {}
<1>1. b.todo \ {Least(b.todo)} \in SUBSET Nat
  BY DEF Routings
<1>2. NoRouting \in Routings /\ NoRouting.pc = "idle" /\ NoRouting.todo = {}
  BY DEF NoRouting, Routings
<1>3. CASE b.todo \ {Least(b.todo)} = {}
  BY <1>2, <1>3 DEF NextOwed
<1>4. CASE b.todo \ {Least(b.todo)} # {}
  BY <1>1, <1>4 DEF NextOwed, Routings
<1> QED BY <1>3, <1>4

LEMMA HandlerMoves ==
  ASSUME hs \in [Handlers -> Requests], NEW h \in Handlers, NEW q \in Requests, hs' = [hs EXCEPT ![h] = q]
  PROVE  hs' \in [Handlers -> Requests] /\ hs'[h] = q /\ \A g \in Handlers \ {h} : hs'[g] = hs[g]
OBVIOUS

-----------------------------------------------------------------------------
(* What each action does. *)

LEMMA PersonTypesIs ==
  ASSUME Typed, PersonTypes
  PROVE  /\ sent' \in [message : Nat, run : Nat] /\ sent'.run = sent.run
         /\ \E n \in Nat : root' = Appended(root, <<"message", n>>)
<1>1. sent'.message \in Nat /\ sent'.run = sent.run /\ sent' \in [message : Nat, run : Nat]
  BY DEF PersonTypes, Typed
<1> QED BY <1>1 DEF PersonTypes

LEMMA DispatchIs ==
  ASSUME Typed, Dispatch
  PROVE  LET u == root'.inflight IN
         /\ root' = [root EXCEPT !.inflight = u] /\ u \in Units
         /\ u.run = sent.run + 1 /\ u.moved = FALSE /\ u.ids \subseteq Range(root.inputs) \ Processed(root)
         /\ agent' = [st |-> "busy", run |-> sent.run + 1, ok |-> TRUE]
         /\ sent' \in [message : Nat, run : Nat] /\ sent'.run = sent.run + 1
         /\ past' = [past EXCEPT !.made = FALSE, !.excused = FALSE, !.undecided = FALSE]
<1> DEFINE ids == Unit(PendingInputs(root))
           u == [run |-> sent.run + 1, ids |-> ids, moved |-> FALSE]
<1>1. root \in Roots /\ sent \in [message : Nat, run : Nat]
  BY DEF Typed
<1>2. PendingInputs(root) \in Seq(Inputs) /\ Range(PendingInputs(root)) \subseteq Range(root.inputs) \ Processed(root)
  BY <1>1, PendingIs
<1>3. ids \subseteq Range(root.inputs) \ Processed(root) /\ ids \subseteq Inputs
  BY <1>2, UnitIs DEF Dispatch
<1>4. root' = [root EXCEPT !.inflight = u]
  BY DEF Dispatch
<1>5. u \in Units
  BY <1>1, <1>3 DEF Units
<1>6. u.run = sent.run + 1 /\ u.moved = FALSE /\ u.ids \subseteq Range(root.inputs) \ Processed(root)
  BY <1>3
<1> HIDE DEF u
<1>7. root'.inflight = u
  BY <1>1, <1>4 DEF Roots
<1>8. sent' \in [message : Nat, run : Nat] /\ sent'.run = sent.run + 1
  BY <1>1 DEF Dispatch
<1> QED BY <1>4, <1>5, <1>6, <1>7, <1>8 DEF Dispatch

LEMMA PruneIs ==
  ASSUME Typed, Prune
  PROVE  \E s \in Seq(Inputs) : root' = [root EXCEPT !.inputs = s] /\ Range(s) = Range(root.inputs) \ Processed(root)
<1>1. root.inputs \in Seq(Inputs)
  BY DEF Typed, Roots
<1>2. Without(root.inputs, Processed(root)) \in Seq(Inputs)
  BY <1>1, WithoutKeeps
<1>3. Range(Without(root.inputs, Processed(root))) = Range(root.inputs) \ Processed(root)
  BY <1>1, WithoutKeeps
<1>4. root' = [root EXCEPT !.inputs = Without(root.inputs, Processed(root))]
  BY DEF Prune
<1> QED BY <1>2, <1>3, <1>4

LEMMA NoReportIs == NoReport \in Requests /\ NoReport.pc = "idle" /\ NoReport.run = 0
BY DEF NoReport, Requests, Pcs, Verdicts

LEMMA OrderIs ==
  /\ Order["get"] = "act" /\ Order["act"] = "record" /\ Order["record"] = "mark"
  /\ Order["mark"] = "answer" /\ Order["close"] = "answer"
BY DEF Order

LEMMA JudgesIs ==
  ASSUME Typed, NEW h \in Handlers, NEW run \in Nat, Judges(h, run)
  PROVE  /\ hs' \in [Handlers -> Requests]
         /\ hs'[h].pc = "act" /\ hs'[h].run = run /\ hs'[h].verdict = Verdict(run)
         /\ \A g \in Handlers \ {h} : hs'[g] = hs[g]
         /\ past' = [past EXCEPT !.misjudged = @ \/ (Misjudges(run, Verdict(run)) /\ ~past.excused)]
<1>1. Verdict(run) \in Verdicts
  BY DEF Verdict, Verdicts
<1>2. "act" \in Pcs
  BY DEF Pcs
<1> DEFINE q == [NoReport EXCEPT !.pc = "act", !.run = run, !.verdict = Verdict(run)]
<1>3. q \in Requests /\ q.pc = "act" /\ q.run = run /\ q.verdict = Verdict(run)
  BY <1>1, <1>2, NoReportIs DEF Requests
<1>4. hs' = [hs EXCEPT ![h] = q]
  BY OrderIs DEF Judges
<1> HIDE DEF q
<1>5. past' = [past EXCEPT !.misjudged = @ \/ (Misjudges(run, Verdict(run)) /\ ~past.excused)]
  BY ONLY Judges(h, run) DEF Judges
<1> QED BY <1>3, <1>4, <1>5, HandlerMoves DEF Typed

LEMMA JudgesPast ==
  ASSUME Typed, NEW h \in Handlers, NEW run \in Nat, Judges(h, run)
  PROVE  /\ past' \in Pasts /\ (past'.misjudged <=> past.misjudged \/ (Misjudges(run, Verdict(run)) /\ ~past.excused))
         /\ past'.made = past.made /\ past'.excused = past.excused /\ past'.undecided = past.undecided
         /\ past'.lost = past.lost /\ past'.abandoned = past.abandoned /\ past'.reached = past.reached
<1> DEFINE b == Misjudges(run, Verdict(run)) /\ ~past.excused
<1>1. b \in BOOLEAN
  OBVIOUS
<1>2. past' = [past EXCEPT !.misjudged = @ \/ b]
  BY JudgesIs
<1> HIDE DEF b
<1>3. /\ past' \in Pasts /\ (past'.misjudged <=> past.misjudged \/ b)
      /\ past'.made = past.made /\ past'.excused = past.excused /\ past'.undecided = past.undecided
      /\ past'.lost = past.lost /\ past'.abandoned = past.abandoned /\ past'.reached = past.reached
  BY <1>1, <1>2 DEF Typed, Pasts
<1> QED BY <1>3 DEF b

LEMMA ReportGetIs ==
  ASSUME Typed, NEW h \in Handlers, ReportGet(h)
  PROVE  \E run \in Nat :
           /\ Judges(h, run)
           /\ (At(h, "get") /\ run = hs[h].run) \/ (At(h, "idle") /\ agent.st = "report" /\ run = agent.run)
           /\ UNCHANGED <<root, agent, verb, member, fast, back, sent, faults>>
<1>1. hs[h].run \in Nat /\ agent.run \in Nat
  BY DEF Typed, Requests, Agents
<1> QED BY <1>1 DEF ReportGet, Takes

\* The next place of a report.
LEMMA GoesOn ==
  ASSUME Typed, NEW h \in Handlers, NEW pc \in Pcs, Goes(h, pc)
  PROVE  /\ hs' \in [Handlers -> Requests]
         /\ hs'[h].pc = pc /\ hs'[h].run = hs[h].run /\ hs'[h].verdict = hs[h].verdict
         /\ \A g \in Handlers \ {h} : hs'[g] = hs[g]
BY DEF Typed, Goes, Requests

-----------------------------------------------------------------------------
(* Every variable keeps its shape. *)

LEMMA TypedPerson == ASSUME Typed, PersonTypes \/ PersonCloses PROVE Typed'
<1>1. CASE PersonTypes
  <2>1. PICK n \in Nat : root' = Appended(root, <<"message", n>>)
    BY <1>1, PersonTypesIs
  <2>2. root' \in Roots
    <3>1. <<"message", n>> \in Inputs
      BY DEF Inputs
    <3> QED BY <2>1, <3>1, AppendedIs DEF Typed
  <2> QED BY <1>1, <2>2, PersonTypesIs DEF PersonTypes, Typed
<1>2. CASE PersonCloses
  <2>1. root' \in Roots /\ member' \in Members
    BY <1>2 DEF PersonCloses, Closed, Typed, Roots, Members
  <2> QED BY <1>2, <2>1 DEF PersonCloses, Typed
<1> QED BY <1>1, <1>2

LEMMA TypedDispatch == ASSUME Typed, Dispatch PROVE Typed'
<1>1. root' \in Roots
  BY DispatchIs DEF Typed, Roots
<1>2. agent' \in Agents /\ sent' \in [message : Nat, run : Nat]
  <2>1. sent.run + 1 \in Nat
    BY DEF Typed
  <2>2. [st |-> "busy", run |-> sent.run + 1, ok |-> TRUE] \in Agents
    BY <2>1 DEF Agents
  <2>3. agent' = [st |-> "busy", run |-> sent.run + 1, ok |-> TRUE]
    BY DispatchIs
  <2>4. sent' \in [message : Nat, run : Nat]
    BY DispatchIs
  <2> QED BY <2>2, <2>3, <2>4
<1>3. past' \in Pasts
  BY DispatchIs DEF Typed, Pasts
<1> QED BY <1>1, <1>2, <1>3 DEF Dispatch, Typed

LEMMA TypedPrune == ASSUME Typed, Prune PROVE Typed'
<1>1. root' \in Roots
  BY PruneIs DEF Typed, Roots
<1> QED BY <1>1 DEF Prune, Typed

LEMMA FreeIs ==
  ASSUME NEW a \in Agents
  PROVE  Free(a) \in Agents /\ Free(a).st = "idle" /\ Free(a).run = a.run
BY DEF Free, Agents

LEMMA NoUnitIs == NoUnit \in Units /\ NoUnit.run = 0 /\ NoUnit.ids = {} /\ NoUnit.moved = FALSE
BY DEF NoUnit, Units

LEMMA TypedAgentDies == ASSUME Typed, AgentDies PROVE Typed'
<1>1. root' \in Roots
  BY NoUnitIs DEF AgentDies, Typed, Roots
<1>2. agent' \in Agents
  BY FreeIs DEF AgentDies, Typed
<1>3. past' \in Pasts
  BY DEF AgentDies, Typed, Pasts
<1>4. faults' \in Nat
  BY DEF AgentDies, Typed, Fault
<1> QED BY <1>1, <1>2, <1>3, <1>4 DEF AgentDies, Typed

LEMMA ExcusedIs ==
  ASSUME Typed, NEW b \in BOOLEAN, Excused(b)
  PROVE  /\ past' \in Pasts /\ (past'.excused <=> past.excused \/ b)
         /\ past'.made = past.made /\ past'.undecided = past.undecided /\ past'.misjudged = past.misjudged
         /\ past'.lost = past.lost /\ past'.abandoned = past.abandoned /\ past'.reached = past.reached
BY DEF Typed, Excused, Pasts

LEMMA FaultIs == ASSUME Typed, Fault PROVE faults' \in Nat /\ faults' = faults + 1
BY DEF Typed, Fault

LEMMA TypedVerb == ASSUME Typed, VerbCarriedOut \/ VerbStamps \/ VerbFails PROVE Typed'
<1>1. CASE VerbCarriedOut
  <2>1. root' \in Roots /\ member' \in Members
    BY <1>1 DEF VerbCarriedOut, Invokes, Closes, Escalates, Closed, Typed, Roots, Members
  <2>2. past' \in Pasts /\ verb' \in Nat
    BY <1>1 DEF VerbCarriedOut, Typed, Pasts, Agents
  <2> QED BY <1>1, <2>1, <2>2 DEF VerbCarriedOut, Typed
<1>2. CASE VerbStamps
  <2>1. root' \in Roots
    BY <1>2 DEF VerbStamps, Typed, Roots, Units
  <2>2. past' \in Pasts
    BY <1>2, ExcusedIs DEF VerbStamps
  <2> QED BY <1>2, <2>1, <2>2 DEF VerbStamps, Typed
<1>3. CASE VerbFails
  <2>1. past' \in Pasts
    BY <1>3, ExcusedIs DEF VerbFails
  <2>2. faults' \in Nat
    BY <1>3, FaultIs DEF VerbFails
  <2> QED BY <1>3, <2>1, <2>2 DEF VerbFails, Typed
<1> QED BY <1>1, <1>2, <1>3

LEMMA TypedAgentFinishes == ASSUME Typed, AgentFinishes PROVE Typed'
<1>1. agent' \in Agents
  BY DEF AgentFinishes, Typed, Agents
<1>2. past' \in Pasts
  BY ExcusedIs DEF AgentFinishes, Typed
<1>3. faults' \in Nat
  BY FaultIs DEF AgentFinishes, Typed
<1> QED BY <1>1, <1>2, <1>3 DEF AgentFinishes, Typed

LEMMA TypedRepeated == ASSUME Typed, NEW h \in Handlers, ReportRepeated(h) PROVE Typed'
<1>1. [NoReport EXCEPT !.pc = "get", !.run = agent.run] \in Requests
  BY NoReportIs DEF Typed, Requests, Pcs, Agents
<1>2. hs' \in [Handlers -> Requests]
  BY <1>1 DEF ReportRepeated, Typed
<1>3. faults' \in Nat
  BY DEF ReportRepeated, Fault, Typed
<1> QED BY <1>2, <1>3 DEF ReportRepeated, Typed

LEMMA TypedGet == ASSUME Typed, NEW h \in Handlers, ReportGet(h) PROVE Typed'
<1>1. PICK run \in Nat : Judges(h, run) /\ UNCHANGED <<root, agent, verb, member, fast, back, sent, faults>>
  BY ReportGetIs
<1>2. hs' \in [Handlers -> Requests]
  BY <1>1, JudgesIs
<1>3. past' \in Pasts
  BY <1>1, JudgesPast
<1> QED BY <1>1, <1>2, <1>3 DEF Typed

\* What acting on a verdict does.
LEMMA ReportActsIs ==
  ASSUME Typed, NEW h \in Handlers, ReportActs(h)
  PROVE  /\ hs' \in [Handlers -> Requests] /\ hs'[h].pc = "record" /\ hs'[h].run = hs[h].run
         /\ \A g \in Handlers \ {h} : hs'[g] = hs[g]
         /\ faults' \in Nat /\ faults <= faults'
         /\ \/ hs[h].verdict = "first" /\ root' = Appended(root, <<"manager", hs[h].run>>) /\ UNCHANGED <<faults, past>>
            \/ hs[h].verdict = "second" /\ root' = [root EXCEPT !.escalated = TRUE] /\ UNCHANGED <<faults, past>>
            \/ hs[h].verdict = "ended" /\ UNCHANGED <<root, faults, past>>
            \/ hs[h].verdict # "ended" /\ faults' = faults + 1 /\ past' = [past EXCEPT !.lost = TRUE] /\ UNCHANGED root
<1>1. hs' = [hs EXCEPT ![h].pc = "record", ![h].verdict = "ended"]
  BY OrderIs DEF ReportActs
<1>2. /\ hs' \in [Handlers -> Requests] /\ hs'[h].pc = "record" /\ hs'[h].run = hs[h].run
      /\ \A g \in Handlers \ {h} : hs'[g] = hs[g]
  BY <1>1 DEF Typed, Requests, Pcs, Verdicts
<1>3. hs[h].verdict \in Verdicts /\ faults \in Nat
  BY DEF Typed, Requests
<1>4. \/ hs[h].verdict = "first" /\ root' = Appended(root, <<"manager", hs[h].run>>) /\ UNCHANGED <<faults, past>>
      \/ hs[h].verdict = "second" /\ root' = [root EXCEPT !.escalated = TRUE] /\ UNCHANGED <<faults, past>>
      \/ hs[h].verdict = "ended" /\ UNCHANGED <<root, faults, past>>
      \/ hs[h].verdict # "ended" /\ faults' = faults + 1 /\ past' = [past EXCEPT !.lost = TRUE] /\ UNCHANGED root
  BY <1>3 DEF ReportActs, Verdicts, Fault
<1>5. faults' \in Nat /\ faults <= faults'
  BY <1>3, <1>4
<1> QED BY <1>2, <1>4, <1>5

LEMMA TypedActs == ASSUME Typed, NEW h \in Handlers, ReportActs(h) PROVE Typed'
<1>1. root' \in Roots
  <2>1. <<"manager", hs[h].run>> \in Inputs
    BY DEF Inputs, Typed, Requests
  <2>2. Appended(root, <<"manager", hs[h].run>>) \in Roots
    BY <2>1, AppendedIs DEF Typed
  <2>3. [root EXCEPT !.escalated = TRUE] \in Roots
    BY DEF Typed, Roots
  <2> QED BY <2>2, <2>3, ReportActsIs DEF Typed
<1>2. past' \in Pasts
  BY ReportActsIs DEF Typed, Pasts
<1> QED BY <1>1, <1>2, ReportActsIs DEF ReportActs, Typed

LEMMA TypedRecords == ASSUME Typed, NEW h \in Handlers, ReportRecords(h) PROVE Typed'
<1>1. "mark" \in Pcs
  BY DEF Pcs
<1>2. Goes(h, "mark")
  BY OrderIs DEF ReportRecords
<1>3. root' \in Roots
  BY DEF ReportRecords, Typed, Roots, Requests
<1> QED BY <1>1, <1>2, <1>3, GoesOn DEF ReportRecords, Typed

\* What marking does.
LEMMA ReportMarksIs ==
  ASSUME Typed, NEW h \in Handlers, ReportMarks(h)
  PROVE  LET mine == root.inflight.run = hs[h].run
             ids == IF mine THEN root.inflight.ids ELSE {}
             more == InOrder(root, ids) IN
         /\ hs' \in [Handlers -> Requests] /\ hs'[h].run = hs[h].run
         /\ hs'[h].pc = (IF root.turns + 1 >= MaxTurns THEN "close" ELSE "answer")
         /\ \A g \in Handlers \ {h} : hs'[g] = hs[g]
         /\ root' \in Roots /\ root'.open = root.open /\ root'.inputs = root.inputs /\ root'.runs = root.runs
         /\ root'.escalated = root.escalated /\ root'.turns = root.turns + 1
         /\ root'.done = root.done \o more /\ more \in Seq(Inputs) /\ Range(more) \subseteq ids
         /\ Processed(root') \subseteq Processed(root) \cup ids
         /\ root'.inflight = (IF mine THEN NoUnit ELSE root.inflight)
         /\ past' \in Pasts /\ past'.abandoned = FALSE /\ past'.made = past.made /\ past'.excused = past.excused
         /\ past'.misjudged = past.misjudged /\ past'.lost = past.lost /\ past'.reached = past.reached
         /\ past'.undecided <=> (IF mine THEN agent.ok /\ ~past.made /\ ~past.excused /\ ~AnsweredAPerson(ids)
                                 ELSE past.undecided)
<1> DEFINE mine == root.inflight.run = hs[h].run
           ids == IF mine THEN root.inflight.ids ELSE {}
           more == InOrder(root, ids)
           u == agent.ok /\ ~past.made /\ ~past.excused /\ ~AnsweredAPerson(ids)
<1>1. "close" \in Pcs /\ "answer" \in Pcs
  BY DEF Pcs
<1>2. Goes(h, IF root.turns + 1 >= MaxTurns THEN "close" ELSE "answer")
  BY OrderIs DEF ReportMarks, EndsBudget
<1>3. /\ hs' \in [Handlers -> Requests] /\ hs'[h].run = hs[h].run
      /\ hs'[h].pc = (IF root.turns + 1 >= MaxTurns THEN "close" ELSE "answer")
      /\ \A g \in Handlers \ {h} : hs'[g] = hs[g]
  BY <1>1, <1>2, GoesOn
<1>4. ids \in SUBSET Inputs /\ root.turns + 1 \in Nat
  BY DEF Typed, Roots, Units
<1>5. root' = [root EXCEPT !.done = @ \o more, !.turns = @ + 1, !.inflight = IF mine THEN NoUnit ELSE @]
  BY DEF ReportMarks
<1>6. past' = [past EXCEPT !.abandoned = FALSE, !.undecided = IF mine THEN u ELSE @]
  BY DEF ReportMarks
<1>a. more \in Seq(Inputs) /\ Range(more) \subseteq ids
  BY OrderedIs DEF Typed
<1> HIDE DEF ids, u, mine, more
<1>b. root.done \o more \in Seq(Inputs)
  BY <1>a DEF Typed, Roots
<1>7. /\ root' \in Roots /\ root'.open = root.open /\ root'.inputs = root.inputs /\ root'.runs = root.runs
      /\ root'.escalated = root.escalated /\ root'.turns = root.turns + 1
      /\ root'.done = root.done \o more
      /\ root'.inflight = (IF mine THEN NoUnit ELSE root.inflight)
  BY <1>4, <1>5, <1>b, NoUnitIs DEF Typed, Roots
<1>c. Processed(root') \subseteq Processed(root) \cup Range(more)
  BY <1>7, <1>a, ProcessedGrows DEF Typed, Roots
<1>8. u \in BOOLEAN
  BY DEF u, Typed, Agents, Pasts
<1>9. (IF mine THEN u ELSE past.undecided) \in BOOLEAN /\ past \in Pasts
  BY <1>8 DEF Typed, Pasts
<1>10. /\ past' \in Pasts /\ past'.abandoned = FALSE /\ past'.made = past.made /\ past'.excused = past.excused
      /\ past'.misjudged = past.misjudged /\ past'.lost = past.lost /\ past'.reached = past.reached
      /\ past'.undecided = (IF mine THEN u ELSE past.undecided)
  BY <1>6, <1>9 DEF Pasts
<1> QED BY <1>3, <1>7, <1>10, <1>a, <1>c DEF ids, u, mine, more

LEMMA TypedMarks == ASSUME Typed, NEW h \in Handlers, ReportMarks(h) PROVE Typed'
BY ReportMarksIs DEF ReportMarks, Typed

\* What ending the budget does.
LEMMA ReportClosesIs ==
  ASSUME Typed, NEW h \in Handlers, ReportCloses(h)
  PROVE  /\ hs' \in [Handlers -> Requests] /\ hs'[h].pc = "answer" /\ hs'[h].run = hs[h].run
         /\ \A g \in Handlers \ {h} : hs'[g] = hs[g]
         /\ member' \in Members /\ member'.runs = member.runs /\ member'.routed = member.routed
         /\ faults' \in Nat /\ faults <= faults'
         /\ \/ root' = [root EXCEPT !.escalated = TRUE] /\ UNCHANGED <<faults, past>>
            \/ faults' = faults + 1 /\ past' = [past EXCEPT !.lost = TRUE] /\ UNCHANGED root
<1>1. "answer" \in Pcs
  BY DEF Pcs
<1>2. Goes(h, "answer")
  BY OrderIs DEF ReportCloses
<1>3. member' \in Members /\ member'.runs = member.runs /\ member'.routed = member.routed
  BY DEF ReportCloses, Closed, Typed, Members
<1>4. \/ root' = [root EXCEPT !.escalated = TRUE] /\ UNCHANGED <<faults, past>>
      \/ Fault /\ past' = [past EXCEPT !.lost = TRUE] /\ UNCHANGED root
  BY DEF ReportCloses
<1>5. faults \in Nat
  BY DEF Typed
<1>6. faults' \in Nat /\ faults <= faults'
  BY <1>4, <1>5, FaultIs
<1> QED BY <1>1, <1>2, <1>3, <1>4, <1>6, GoesOn, FaultIs

LEMMA TypedCloses == ASSUME Typed, NEW h \in Handlers, ReportCloses(h) PROVE Typed'
<1>1. root' \in Roots
  BY ReportClosesIs DEF Typed, Roots
<1>2. past' \in Pasts
  BY ReportClosesIs DEF Typed, Pasts
<1> QED BY <1>1, <1>2, ReportClosesIs DEF ReportCloses, Typed

\* What answering does.
LEMMA ReportAnswersIs ==
  ASSUME Typed, NEW h \in Handlers, ReportAnswers(h)
  PROVE  /\ hs' \in [Handlers -> Requests] /\ hs'[h] = NoReport /\ \A g \in Handlers \ {h} : hs'[g] = hs[g]
         /\ agent' \in Agents /\ agent'.run = agent.run
         /\ \/ agent.st = "report" /\ agent.run = hs[h].run /\ agent'.st = "idle" /\ faults' = faults
            \/ ~(agent.st = "report" /\ agent.run = hs[h].run) /\ agent' = agent /\ faults' = faults
            \/ agent' = agent /\ faults' = faults + 1
         /\ faults' \in Nat
<1>1. hs' \in [Handlers -> Requests] /\ hs'[h] = NoReport /\ \A g \in Handlers \ {h} : hs'[g] = hs[g]
  BY NoReportIs DEF ReportAnswers, Typed
<1>2. \/ agent' = (IF agent.st = "report" /\ agent.run = hs[h].run THEN Free(agent) ELSE agent) /\ faults' = faults
      \/ agent' = agent /\ Fault
  BY DEF ReportAnswers
<1>3. agent \in Agents /\ faults \in Nat
  BY DEF Typed
<1> QED BY <1>1, <1>2, <1>3, FreeIs, FaultIs

LEMMA TypedAnswers == ASSUME Typed, NEW h \in Handlers, ReportAnswers(h) PROVE Typed'
BY ReportAnswersIs DEF ReportAnswers, Typed

LEMMA ReportCutIs ==
  ASSUME Typed, NEW h \in Handlers, ReportCut(h)
  PROVE  /\ hs' \in [Handlers -> Requests] /\ hs'[h] = NoReport /\ \A g \in Handlers \ {h} : hs'[g] = hs[g]
         /\ faults' \in Nat /\ faults' = faults + 1
         /\ past' \in Pasts /\ (past'.abandoned <=> past.abandoned \/ (At(h, "close") /\ ~ComesAgain(h)))
         /\ past'.made = past.made /\ past'.undecided = past.undecided /\ past'.misjudged = past.misjudged
         /\ past'.lost = past.lost /\ past'.excused = past.excused /\ past'.reached = past.reached
<1>1. hs' \in [Handlers -> Requests] /\ hs'[h] = NoReport /\ \A g \in Handlers \ {h} : hs'[g] = hs[g]
  BY NoReportIs DEF ReportCut, Typed
<1> DEFINE b == At(h, "close") /\ ~ComesAgain(h)
<1>2. b \in BOOLEAN
  OBVIOUS
<1>3. past' = [past EXCEPT !.abandoned = @ \/ b]
  BY DEF ReportCut
<1> HIDE DEF b
<1>4. /\ past' \in Pasts /\ (past'.abandoned <=> past.abandoned \/ b)
      /\ past'.made = past.made /\ past'.undecided = past.undecided /\ past'.misjudged = past.misjudged
      /\ past'.lost = past.lost /\ past'.excused = past.excused /\ past'.reached = past.reached
  BY <1>2, <1>3 DEF Typed, Pasts
<1>5. Fault
  BY DEF ReportCut
<1> QED BY <1>1, <1>4, <1>5, FaultIs DEF b

LEMMA TypedCut == ASSUME Typed, NEW h \in Handlers, ReportCut(h) PROVE Typed'
BY ReportCutIs DEF ReportCut, Typed

\* What moves a result along.
LEMMA TypedRouting ==
  ASSUME Typed, Routes, MemberReports \/ Routing \/ BackstopFails \/ RoutingCut
  PROVE  Typed'
<1>0. /\ member \in Members /\ fast \in Routings /\ back \in Routings /\ NoRouting \in Routings
      /\ root \in Roots /\ past \in Pasts /\ member.runs \in Nat
  BY DEF Typed, NoRouting, Routings, Members
<1>1. \A n \in Nat : [pc |-> "append", todo |-> {n}] \in Routings
  BY DEF Routings
<1>2. CASE MemberReports
  <2>1. member' \in Members /\ member'.runs \in Nat
    BY <1>0, <1>2 DEF MemberReports, Members
  <2>2. fast' \in Routings
    BY <1>1, <1>2, <2>1 DEF MemberReports
  <2> QED BY <1>2, <2>1, <2>2 DEF MemberReports, Typed
<1>3. ASSUME NEW n \in Nat, Routed(n) PROVE root' \in Roots /\ past' \in Pasts
  <2>1. <<"result", n>> \in Inputs
    BY DEF Inputs
  <2>2. root' \in Roots
    BY <1>0, <1>3, <2>1, AppendedIs DEF Routed
  <2>3. past' \in Pasts
    BY <1>0, <1>3 DEF Routed, Pasts
  <2> QED BY <2>2, <2>3
<1>4. CASE FastAppends
  <2>1. Least(fast.todo) \in Nat /\ fast.pc # "idle"
    BY <1>0, <1>4, LeastIs DEF Routes, Routings, FastAppends
  <2>2. root' \in Roots /\ past' \in Pasts
    BY <1>3, <1>4, <2>1 DEF FastAppends
  <2>3. fast' \in Routings
    BY <1>0, <1>4 DEF FastAppends, Routings
  <2> QED BY <1>4, <2>2, <2>3 DEF FastAppends, Typed
<1>5. CASE FastMarks
  <2>1. member' \in Members
    BY <1>0, <1>5 DEF FastMarks, Members, Routings
  <2> QED BY <1>0, <1>5, <2>1 DEF FastMarks, Typed
<1>6. CASE BackstopReads
  <2>1. Owed \in SUBSET Nat
    BY <1>0 DEF Owed
  <2>2. back' \in Routings
    BY <1>6, <2>1 DEF BackstopReads, Routings
  <2> QED BY <1>6, <2>2 DEF BackstopReads, Typed
<1>7. CASE BackstopAppends
  <2>1. Least(back.todo) \in Nat /\ back.pc # "idle"
    BY <1>0, <1>7, LeastIs DEF Routes, Routings, BackstopAppends
  <2>2. root' \in Roots /\ past' \in Pasts
    BY <1>3, <1>7, <2>1 DEF BackstopAppends
  <2>3. back' \in Routings
    BY <1>0, <1>7 DEF BackstopAppends, Routings
  <2> QED BY <1>7, <2>2, <2>3 DEF BackstopAppends, Typed
<1>8. CASE BackstopMarks
  <2>1. Least(back.todo) \in Nat
    BY <1>0, <1>8, LeastIs DEF Routes, Routings, BackstopMarks
  <2>2. member' \in Members
    BY <1>0, <1>8, <2>1 DEF BackstopMarks, Members
  <2>3. back' \in Routings
    BY <1>0, <1>8, NextOwedIs DEF Routes, BackstopMarks, Routings
  <2> QED BY <1>8, <2>2, <2>3 DEF BackstopMarks, Typed
<1>9. CASE RoutingCut
  BY <1>0, <1>9, FaultIs DEF RoutingCut, Typed
<1>10. CASE BackstopFails
  <2>1. back.pc # "idle"
    BY <1>10, <1>0 DEF BackstopFails
  <2>2. back' \in Routings
    BY <1>0, <1>10, <2>1, NextOwedIs DEF Routes, BackstopFails, AfterFailure
  <2> QED BY <1>10, <2>2, FaultIs DEF BackstopFails, Typed
<1> QED BY <1>2, <1>4, <1>5, <1>6, <1>7, <1>8, <1>9, <1>10 DEF Routing

\* No step but these of the routings touches a run of the member, or closes more than it.
LEMMA RoutesKept ==
  ASSUME Typed, Routes, [Next]_vars
  PROVE  Routes'
<1>0. /\ member \in Members /\ fast \in Routings /\ back \in Routings /\ member.runs \in Nat
      /\ NoRouting.pc = "idle" /\ NoRouting.todo = {}
  BY DEF Typed, Members, NoRouting
<1>1. ASSUME member'.runs = member.runs, member'.routed = member.routed, fast' = fast, back' = back PROVE Routes'
  BY <1>1 DEF Routes
<1>2. CASE MemberReports
  <2>1. member'.runs = member.runs + 1 /\ member'.routed = member.routed
    BY <1>0, <1>2 DEF MemberReports, Members
  <2>2. fast'.pc = "append" /\ fast'.todo = {member'.runs} /\ back' = back
    BY <1>2 DEF MemberReports
  <2>3. 1..member.runs \subseteq 1..member'.runs /\ member'.runs \in 1..member'.runs
    BY <1>0, <2>1
  <2> QED BY <2>1, <2>2, <2>3 DEF Routes
<1>3. CASE FastAppends
  <2>1. fast'.pc = "mark" /\ fast'.todo = fast.todo /\ fast.pc # "idle" /\ member' = member /\ back' = back
    BY <1>0, <1>3 DEF FastAppends, Routings
  <2> QED BY <2>1 DEF Routes
<1>4. CASE FastMarks
  <2>1. member'.runs = member.runs /\ member'.routed = member.routed \cup fast.todo /\ fast' = NoRouting /\ back' = back
    BY <1>0, <1>4 DEF FastMarks, Members
  <2> QED BY <1>0, <2>1 DEF Routes
<1>5. CASE BackstopReads
  BY <1>5 DEF BackstopReads, Owed, Routes
<1>6. CASE BackstopAppends
  <2>1. back'.pc = "mark" /\ back'.todo = back.todo /\ back.pc # "idle" /\ member' = member /\ fast' = fast
    BY <1>0, <1>6 DEF BackstopAppends, Routings
  <2> QED BY <2>1 DEF Routes
<1>7. CASE BackstopMarks
  <2>1. back.todo # {} /\ back.todo \in SUBSET Nat
    BY <1>0, <1>7 DEF BackstopMarks, Routes, Routings
  <2>2. PICK n \in back.todo : n = Least(back.todo)
    BY <2>1, LeastIs
  <2>3. member'.runs = member.runs /\ member'.routed = member.routed \cup {n} /\ fast' = fast
    BY <1>0, <1>7, <2>2 DEF BackstopMarks, Members
  <2>4. back'.todo = back.todo \ {n} /\ (back'.pc # "idle" => back'.todo # {})
    BY <1>0, <1>7, <2>1, <2>2, NextOwedIs DEF BackstopMarks
  <2> QED BY <2>3, <2>4 DEF Routes
<1>8. CASE RoutingCut
  BY <1>0, <1>8 DEF RoutingCut, Routes
<1>9. CASE PersonCloses \/ VerbCarriedOut
  <2>1. member'.runs = member.runs /\ member'.routed = member.routed /\ fast' = fast /\ back' = back
    BY <1>0, <1>9 DEF PersonCloses, VerbCarriedOut, Invokes, Closes, Escalates, Closed, Members
  <2> QED BY <1>1, <2>1
<1>10. CASE \E h \in Handlers : ReportCloses(h)
  <2>1. member'.runs = member.runs /\ member'.routed = member.routed /\ fast' = fast /\ back' = back
    BY <1>10, ReportClosesIs DEF ReportCloses
  <2> QED BY <1>1, <2>1
<1>11. CASE \/ PersonTypes \/ Dispatch \/ Prune \/ AgentDies \/ AgentFinishes \/ VerbStamps \/ VerbFails \/ UNCHANGED vars
            \/ \E h \in Handlers : \/ ReportRepeated(h) \/ ReportGet(h) \/ ReportActs(h) \/ ReportRecords(h) \/ ReportMarks(h)
                                   \/ ReportAnswers(h) \/ ReportCut(h)
  <2>1. member' = member /\ fast' = fast /\ back' = back
    BY <1>11 DEF PersonTypes, Dispatch, Prune, AgentDies, AgentFinishes, VerbStamps, VerbFails, vars, ReportRepeated,
                 ReportGet, ReportActs, ReportRecords, ReportMarks, ReportAnswers, ReportCut
  <2> QED BY <1>1, <2>1
<1>12. CASE BackstopFails
  <2>1. back.pc # "idle"
    BY <1>12 DEF BackstopFails
  <2>2. back'.todo \subseteq back.todo /\ (back'.pc # "idle" => back'.todo # {})
    BY <1>0, <1>12, <2>1, NextOwedIs DEF BackstopFails, AfterFailure, Routes
  <2> QED BY <1>12, <2>2 DEF BackstopFails, Routes
<1> QED
  BY <1>2, <1>3, <1>4, <1>5, <1>6, <1>7, <1>8, <1>9, <1>10, <1>11, <1>12 DEF Next, Routing, ReportGoesOn

LEMMA TypedKept ==
  ASSUME Typed, Routes, [Next]_vars
  PROVE  Typed'
<1>1. CASE UNCHANGED vars
  BY <1>1 DEF vars, Typed
<1>2. ASSUME NEW h \in Handlers, ReportRepeated(h) \/ ReportGoesOn(h) \/ ReportCut(h) PROVE Typed'
  BY <1>2, TypedRepeated, TypedGet, TypedActs, TypedRecords, TypedMarks, TypedCloses, TypedAnswers, TypedCut
     DEF ReportGoesOn
<1> QED
  BY <1>1, <1>2, TypedPerson, TypedDispatch, TypedPrune, TypedAgentDies, TypedAgentFinishes, TypedVerb, TypedRouting
     DEF Next

-----------------------------------------------------------------------------
(* The steps, as the invariants see them.  Most leave the turn alone: the agent, *)
(* the verb, the reports, and of the root all but its queue and whether it is     *)
(* open.                                                                          *)

LeavesTurn ==
  /\ root'.inflight = root.inflight /\ SameDone /\ root'.runs = root.runs
  /\ root'.turns = root.turns /\ root'.escalated = root.escalated /\ (root'.open => root.open)
  /\ Range(root.inputs) \ Processed(root) \subseteq Range(root'.inputs)
  /\ \A n \in Nat : <<"manager", n>> \in Range(root'.inputs) => <<"manager", n>> \in Range(root.inputs)
  /\ sent'.run = sent.run /\ faults <= faults'
  /\ past' = [past EXCEPT !.reached = past'.reached]
  /\ UNCHANGED <<agent, verb, hs>>

LEMMA RootLeft ==
  ASSUME root' = root, past' = past, sent' = sent, faults <= faults', Typed, UNCHANGED <<agent, verb, hs>>
  PROVE  LeavesTurn
BY DoneStays DEF LeavesTurn, Typed, Pasts, SameDone

LEMMA RootAppends ==
  ASSUME Typed, NEW i \in Inputs, i[1] # "manager", root' = Appended(root, i), sent'.run = sent.run, faults' = faults,
         past' = [past EXCEPT !.reached = past'.reached], UNCHANGED <<agent, verb, hs>>
  PROVE  LeavesTurn
<1>1. /\ root'.open = root.open /\ SameDone /\ root'.inflight = root.inflight
      /\ root'.runs = root.runs /\ root'.turns = root.turns /\ root'.escalated = root.escalated
      /\ Range(root.inputs) \subseteq Range(root'.inputs) /\ Range(root'.inputs) \subseteq Range(root.inputs) \cup {i}
  BY AppendedIs, DoneStays DEF Typed, SameDone
<1>2. \A n \in Nat : <<"manager", n>> # i
  OBVIOUS
<1>3. faults \in Nat
  BY DEF Typed
<1> QED BY <1>1, <1>2, <1>3 DEF LeavesTurn

LEMMA StepCases ==
  ASSUME Typed, Routes, [Next]_vars
  PROVE  \/ LeavesTurn \/ Dispatch \/ AgentDies \/ AgentFinishes \/ VerbCarriedOut \/ VerbStamps \/ VerbFails
         \/ \E h \in Handlers : ReportRepeated(h) \/ ReportGoesOn(h) \/ ReportCut(h)
<1>0. faults \in Nat /\ past \in Pasts /\ root \in Roots /\ past = [past EXCEPT !.reached = past.reached]
  BY DEF Typed, Pasts
<1>1. CASE PersonTypes
  <2>1. PICK n \in Nat : root' = Appended(root, <<"message", n>>)
    BY <1>1, PersonTypesIs
  <2>2. sent'.run = sent.run
    BY <1>1, PersonTypesIs
  <2>3. past' = [past EXCEPT !.reached = past'.reached] /\ faults' = faults /\ UNCHANGED <<agent, verb, hs>>
    BY <1>0, <1>1 DEF PersonTypes
  <2>4. <<"message", n>> \in Inputs /\ <<"message", n>>[1] # "manager"
    BY DEF Inputs
  <2> QED BY <2>1, <2>2, <2>3, <2>4, RootAppends
<1>2. CASE PersonCloses
  <2>1. /\ root'.inflight = root.inflight /\ SameDone /\ root'.runs = root.runs
        /\ root'.turns = root.turns /\ root'.escalated = root.escalated /\ root'.inputs = root.inputs
        /\ root'.open = FALSE
    BY <1>0, <1>2, DoneStays DEF PersonCloses, Roots, SameDone
  <2>2. past' = past /\ sent' = sent /\ faults' = faults /\ UNCHANGED <<agent, verb, hs>>
    BY <1>2 DEF PersonCloses
  <2> QED BY <1>0, <2>1, <2>2 DEF LeavesTurn
<1>3. CASE Prune
  <2>1. PICK s \in Seq(Inputs) : root' = [root EXCEPT !.inputs = s] /\ Range(s) = Range(root.inputs) \ Processed(root)
    BY <1>3, PruneIs
  <2>2. /\ root'.inflight = root.inflight /\ SameDone /\ root'.runs = root.runs
        /\ root'.turns = root.turns /\ root'.escalated = root.escalated /\ root'.inputs = s
        /\ root'.open = root.open
    BY <1>0, <2>1, DoneStays DEF Roots, SameDone
  <2>3. past' = past /\ sent' = sent /\ faults' = faults /\ UNCHANGED <<agent, verb, hs>>
    BY <1>3 DEF Prune
  <2> QED BY <1>0, <2>1, <2>2, <2>3 DEF LeavesTurn
<1>4. ASSUME NEW n \in Nat, Routed(n), UNCHANGED <<sent, faults, agent, verb, hs>> PROVE LeavesTurn
  <2>1. past' = [past EXCEPT !.reached = past'.reached]
    BY <1>0, <1>4 DEF Routed, Pasts
  <2>2. <<"result", n>> \in Inputs /\ <<"result", n>>[1] # "manager"
    BY DEF Inputs
  <2> QED BY <1>4, <2>1, <2>2, RootAppends DEF Routed
<1>5. CASE FastAppends
  <2>1. Least(fast.todo) \in Nat
    BY <1>5, LeastIs DEF Typed, Routes, Routings, FastAppends
  <2> QED BY <1>4, <1>5, <2>1 DEF FastAppends
<1>6. CASE BackstopAppends
  <2>1. Least(back.todo) \in Nat
    BY <1>6, LeastIs DEF Typed, Routes, Routings, BackstopAppends
  <2> QED BY <1>4, <1>6, <2>1 DEF BackstopAppends
<1>7. CASE MemberReports \/ FastMarks \/ BackstopReads \/ BackstopMarks \/ UNCHANGED vars
  <2>1. root' = root /\ past' = past /\ sent' = sent /\ faults' = faults /\ UNCHANGED <<agent, verb, hs>>
    BY <1>7 DEF MemberReports, FastMarks, BackstopReads, BackstopMarks, vars
  <2>2. faults <= faults'
    BY <1>0, <2>1
  <2> QED BY <2>1, <2>2, RootLeft
<1>8. CASE BackstopFails \/ RoutingCut
  <2>1. root' = root /\ past' = past /\ sent' = sent /\ Fault /\ UNCHANGED <<agent, verb, hs>>
    BY <1>8 DEF BackstopFails, RoutingCut
  <2>2. faults <= faults'
    BY <1>0, <2>1, FaultIs
  <2> QED BY <2>1, <2>2, RootLeft
<1> QED BY <1>1, <1>2, <1>3, <1>5, <1>6, <1>7, <1>8 DEF Next, Routing

SameBooks == SameDone /\ root'.runs = root.runs /\ root'.turns = root.turns
SameDoor == root'.open = root.open /\ root'.inputs = root.inputs /\ root'.escalated = root.escalated
SamePast ==
  /\ past'.made = past.made /\ past'.undecided = past.undecided /\ past'.misjudged = past.misjudged
  /\ past'.lost = past.lost /\ past'.abandoned = past.abandoned

LEMMA DispatchDoes ==
  ASSUME Typed, Dispatch
  PROVE  /\ agent.st = "idle" /\ root.inflight = NoUnit /\ sent.run < MaxRuns
         /\ SameBooks /\ SameDoor /\ root'.inflight.run = sent.run + 1 /\ root'.inflight.moved = FALSE
         /\ root'.inflight.ids \subseteq Range(root.inputs) \ Processed(root)
         /\ agent'.st = "busy" /\ agent'.run = sent.run + 1 /\ agent'.ok = TRUE /\ sent'.run = sent.run + 1
         /\ past'.made = FALSE /\ past'.excused = FALSE /\ past'.undecided = FALSE
         /\ past'.misjudged = past.misjudged /\ past'.lost = past.lost /\ past'.abandoned = past.abandoned
         /\ UNCHANGED <<verb, hs, faults>>
<1>1. PICK u \in Units :
        /\ root' = [root EXCEPT !.inflight = u]
        /\ u.run = sent.run + 1 /\ u.moved = FALSE /\ u.ids \subseteq Range(root.inputs) \ Processed(root)
  BY DispatchIs
<1>2. SameBooks /\ SameDoor /\ root'.inflight = u
  BY <1>1, DoneStays DEF Typed, Roots, SameBooks, SameDoor, SameDone
<1>3. agent'.st = "busy" /\ agent'.run = sent.run + 1 /\ agent'.ok = TRUE /\ sent'.run = sent.run + 1
  BY DispatchIs
<1>4. /\ past'.made = FALSE /\ past'.excused = FALSE /\ past'.undecided = FALSE
      /\ past'.misjudged = past.misjudged /\ past'.lost = past.lost /\ past'.abandoned = past.abandoned
  BY DispatchIs DEF Typed, Pasts
<1> QED BY <1>1, <1>2, <1>3, <1>4 DEF Dispatch

LEMMA AgentDiesDoes ==
  ASSUME Typed, AgentDies
  PROVE  /\ agent.st # "idle" /\ agent'.st = "idle" /\ agent'.run = agent.run
         /\ SameBooks /\ SameDoor
         /\ root'.inflight = (IF root.inflight.run = agent.run THEN NoUnit ELSE root.inflight)
         /\ past'.made = past.made /\ past'.undecided = past.undecided /\ past'.misjudged = past.misjudged
         /\ past'.lost = past.lost /\ past'.excused = past.excused
         /\ (past'.abandoned <=> past.abandoned \/ agent.st = "report")
         /\ faults' = faults + 1 /\ UNCHANGED <<verb, hs, sent>>
<1>1. agent'.st = "idle" /\ agent'.run = agent.run /\ agent.st # "idle"
  BY FreeIs DEF AgentDies, Typed
<1>2. /\ SameBooks /\ SameDoor
      /\ root'.inflight = (IF root.inflight.run = agent.run THEN NoUnit ELSE root.inflight)
  BY DoneStays DEF AgentDies, Typed, Roots, SameBooks, SameDoor, SameDone
<1>3. /\ past'.made = past.made /\ past'.undecided = past.undecided /\ past'.misjudged = past.misjudged
      /\ past'.lost = past.lost /\ past'.excused = past.excused
      /\ (past'.abandoned <=> past.abandoned \/ agent.st = "report")
  BY DEF AgentDies, Typed, Pasts
<1> QED BY <1>1, <1>2, <1>3, FaultIs DEF AgentDies

LEMMA AgentFinishesDoes ==
  ASSUME Typed, AgentFinishes
  PROVE  /\ agent.st = "busy" /\ agent'.st = "report" /\ agent'.run = agent.run
         /\ SamePast /\ (past.excused => past'.excused) /\ (verb = agent.run => past'.excused)
         /\ (verb # agent.run => past'.excused = past.excused)
         /\ faults <= faults' /\ UNCHANGED <<root, verb, hs, sent>>
<1>0. faults \in Nat
  BY DEF Typed
<1>1. agent.st = "busy" /\ agent'.st = "report" /\ agent'.run = agent.run
  BY DEF AgentFinishes, Typed, Agents
<1>2. CASE verb # agent.run /\ UNCHANGED <<faults, past>>
  BY <1>0, <1>1, <1>2 DEF AgentFinishes, SamePast
<1>3. CASE verb = agent.run /\ Fault /\ Excused(TRUE)
  <2>1. past'.excused /\ SamePast
    BY <1>3, ExcusedIs DEF SamePast
  <2>2. faults <= faults'
    BY <1>0, <1>3, FaultIs
  <2> QED BY <1>1, <1>3, <2>1, <2>2 DEF AgentFinishes
<1> QED BY <1>2, <1>3 DEF AgentFinishes

LEMMA VerbCarriedOutDoes ==
  ASSUME Typed, VerbCarriedOut
  PROVE  /\ agent.st = "busy" /\ verb = 0 /\ ~past.made /\ verb' = agent.run
         /\ SameBooks /\ root'.inflight = root.inflight /\ root'.open = root.open /\ root'.inputs = root.inputs
         /\ (root.escalated => root'.escalated)
         /\ past'.made = TRUE /\ past'.excused = past.excused /\ past'.undecided = past.undecided
         /\ past'.misjudged = past.misjudged /\ past'.lost = past.lost /\ past'.abandoned = past.abandoned
         /\ UNCHANGED <<agent, hs, sent, faults>>
<1>1. root' = root \/ root' = [root EXCEPT !.escalated = TRUE]
  BY DEF VerbCarriedOut, Invokes, Closes, Escalates
<1>2. /\ SameBooks /\ root'.inflight = root.inflight /\ root'.open = root.open /\ root'.inputs = root.inputs
      /\ (root.escalated => root'.escalated)
  BY <1>1, DoneStays DEF Typed, Roots, SameBooks, SameDone
<1>3. /\ past'.made = TRUE /\ past'.excused = past.excused /\ past'.undecided = past.undecided
      /\ past'.misjudged = past.misjudged /\ past'.lost = past.lost /\ past'.abandoned = past.abandoned
  BY DEF VerbCarriedOut, Typed, Pasts
<1> QED BY <1>2, <1>3 DEF VerbCarriedOut

LEMMA VerbStampsDoes ==
  ASSUME Typed, VerbStamps
  PROVE  /\ verb # 0 /\ verb' = 0
         /\ SameBooks /\ SameDoor /\ root'.inflight.run = root.inflight.run /\ root'.inflight.ids = root.inflight.ids
         /\ root.inflight = NoUnit => root'.inflight = NoUnit
         /\ root.inflight # NoUnit => root'.inflight.moved
         /\ SamePast /\ (past'.excused <=> past.excused \/ verb # agent.run)
         /\ UNCHANGED <<agent, hs, sent, faults>>
<1>1. CASE root.inflight = NoUnit
  BY <1>1, ExcusedIs, DoneStays DEF VerbStamps, SameBooks, SameDoor, SamePast, SameDone
<1>2. CASE root.inflight # NoUnit
  <2>1. root' = [root EXCEPT !.inflight.moved = TRUE]
    BY <1>2 DEF VerbStamps
  <2>2. /\ SameBooks /\ SameDoor /\ root'.inflight.run = root.inflight.run /\ root'.inflight.ids = root.inflight.ids
        /\ root'.inflight.moved
    BY <2>1, DoneStays DEF Typed, Roots, Units, SameBooks, SameDoor, SameDone
  <2> QED BY <1>2, <2>2, ExcusedIs DEF VerbStamps, SamePast
<1> QED BY <1>1, <1>2

LEMMA VerbFailsDoes ==
  ASSUME Typed, VerbFails
  PROVE  /\ verb # 0 /\ verb' = 0 /\ SamePast /\ (past'.excused <=> past.excused \/ verb = agent.run)
         /\ faults <= faults' /\ UNCHANGED <<root, agent, hs, sent>>
<1>1. SamePast /\ (past'.excused <=> past.excused \/ verb = agent.run)
  BY ExcusedIs DEF VerbFails, SamePast
<1>2. faults <= faults'
  BY FaultIs DEF VerbFails, Typed
<1> QED BY <1>1, <1>2 DEF VerbFails

LEMMA ReportRecordsDoes ==
  ASSUME Typed, NEW h \in Handlers, ReportRecords(h)
  PROVE  /\ At(h, "record") /\ hs' \in [Handlers -> Requests] /\ hs'[h].pc = "mark" /\ hs'[h].run = hs[h].run
         /\ \A g \in Handlers \ {h} : hs'[g] = hs[g]
         /\ SameDoor /\ root'.inflight = root.inflight /\ SameDone /\ root'.turns = root.turns
         /\ root'.runs = root.runs \cup {hs[h].run}
         /\ UNCHANGED <<agent, verb, sent, faults, past>>
<1>1. "mark" \in Pcs
  BY DEF Pcs
<1>2. Goes(h, "mark")
  BY OrderIs DEF ReportRecords
<1>3. /\ SameDoor /\ root'.inflight = root.inflight /\ SameDone /\ root'.turns = root.turns
      /\ root'.runs = root.runs \cup {hs[h].run}
  BY DoneStays DEF ReportRecords, Typed, Roots, SameDoor, SameDone
<1> QED BY <1>1, <1>2, <1>3, GoesOn DEF ReportRecords

\* What acting and ending the budget leave of the root.
LEMMA ReportActsDoes ==
  ASSUME Typed, NEW h \in Handlers, ReportActs(h)
  PROVE  /\ At(h, "act") /\ hs[h].verdict \in Verdicts
         /\ SameBooks /\ root'.inflight = root.inflight /\ root'.open = root.open
         /\ (root.escalated => root'.escalated) /\ (past.lost => past'.lost)
         /\ Range(root.inputs) \subseteq Range(root'.inputs)
         /\ Range(root'.inputs) \subseteq Range(root.inputs) \cup {<<"manager", hs[h].run>>}
         /\ hs[h].verdict = "first" => \/ past'.lost \/ ~root.open \/ <<"manager", hs[h].run>> \in Range(root'.inputs)
         /\ hs[h].verdict = "second" => past'.lost \/ root'.escalated
         /\ past'.made = past.made /\ past'.excused = past.excused /\ past'.undecided = past.undecided
         /\ past'.misjudged = past.misjudged /\ past'.abandoned = past.abandoned
         /\ UNCHANGED <<agent, verb, sent>>
<1>0. <<"manager", hs[h].run>> \in Inputs /\ hs[h].verdict \in Verdicts /\ root \in Roots /\ past \in Pasts
  BY DEF Typed, Requests, Inputs
<1>1. /\ SameBooks /\ root'.inflight = root.inflight /\ root'.open = root.open
      /\ (root.escalated => root'.escalated)
      /\ Range(root.inputs) \subseteq Range(root'.inputs)
      /\ Range(root'.inputs) \subseteq Range(root.inputs) \cup {<<"manager", hs[h].run>>}
  <2>1. CASE root' = Appended(root, <<"manager", hs[h].run>>)
    BY <1>0, <2>1, AppendedIs, DoneStays DEF SameBooks, SameDone
  <2>2. CASE root' = [root EXCEPT !.escalated = TRUE]
    BY <1>0, <2>2, DoneStays DEF Roots, SameBooks, SameDone
  <2>3. CASE root' = root
    BY <2>3, DoneStays DEF SameBooks, SameDone
  <2> QED BY <2>1, <2>2, <2>3, ReportActsIs
<1>2. /\ past'.made = past.made /\ past'.excused = past.excused /\ past'.undecided = past.undecided
      /\ past'.misjudged = past.misjudged /\ past'.abandoned = past.abandoned /\ (past.lost => past'.lost)
  BY <1>0, ReportActsIs DEF Pasts
<1>3. hs[h].verdict = "first" => \/ past'.lost \/ ~root.open \/ <<"manager", hs[h].run>> \in Range(root'.inputs)
  <2> SUFFICES ASSUME hs[h].verdict = "first" PROVE past'.lost \/ ~root.open \/ <<"manager", hs[h].run>> \in Range(root'.inputs)
    OBVIOUS
  <2>1. CASE root' = Appended(root, <<"manager", hs[h].run>>)
    BY <1>0, <2>1, AppendedIs
  <2>2. CASE past' = [past EXCEPT !.lost = TRUE]
    BY <1>0, <2>2 DEF Pasts
  <2> QED BY <2>1, <2>2, ReportActsIs
<1>4. hs[h].verdict = "second" => past'.lost \/ root'.escalated
  BY <1>0, ReportActsIs DEF Pasts, Roots
<1> QED BY <1>0, <1>1, <1>2, <1>3, <1>4 DEF ReportActs

LEMMA ReportClosesDoes ==
  ASSUME Typed, NEW h \in Handlers, ReportCloses(h)
  PROVE  /\ At(h, "close") /\ SameBooks /\ root'.inflight = root.inflight /\ root'.open = root.open
         /\ root'.inputs = root.inputs /\ (root.escalated => root'.escalated) /\ (past.lost => past'.lost)
         /\ root'.escalated \/ past'.lost
         /\ past'.made = past.made /\ past'.excused = past.excused /\ past'.undecided = past.undecided
         /\ past'.misjudged = past.misjudged /\ past'.abandoned = past.abandoned
         /\ UNCHANGED <<agent, verb, sent>>
<1>0. root \in Roots /\ past \in Pasts
  BY DEF Typed
<1>1. /\ SameBooks /\ root'.inflight = root.inflight /\ root'.open = root.open
      /\ root'.inputs = root.inputs /\ (root.escalated => root'.escalated)
  BY <1>0, ReportClosesIs, DoneStays DEF Roots, SameBooks, SameDone
<1>2. /\ past'.made = past.made /\ past'.excused = past.excused /\ past'.undecided = past.undecided
      /\ past'.misjudged = past.misjudged /\ past'.abandoned = past.abandoned /\ (past.lost => past'.lost)
  BY <1>0, ReportClosesIs DEF Pasts
<1>3. root'.escalated \/ past'.lost
  BY <1>0, ReportClosesIs DEF Pasts, Roots
<1> QED BY <1>1, <1>2, <1>3 DEF ReportCloses

-----------------------------------------------------------------------------
(* One turn at a time: what is in flight is the run the agent was last given,   *)
(* and a report is of it or of one before; one that has marked its turn has      *)
(* nothing in flight any more.                                                   *)

OneTurn ==
  /\ agent.run = sent.run /\ sent.run <= MaxRuns
  /\ root.inflight = NoUnit \/ (root.inflight.run = agent.run /\ agent.st # "idle" /\ agent.run # 0)
  /\ agent.st # "idle" => agent.run # 0
  /\ agent.st = "busy" => root.inflight.run = agent.run
  /\ verb <= agent.run
  /\ root.runs \subseteq 1..agent.run

ReportOf(q) ==
  /\ q.pc = "idle" => q = NoReport
  /\ q.pc # "idle" => q.run \in 1..agent.run /\ (agent.st = "busy" => q.run # agent.run)
  /\ q.pc \in {"mark", "close", "answer"} => q.run \in root.runs
  /\ q.pc \in {"close", "answer"} => root.inflight.run # q.run

Reports == \A h \in Handlers : ReportOf(hs[h])

Turned == OneTurn /\ Reports

LEMMA InitTurned == Init => Turned
<1> SUFFICES ASSUME Init PROVE Turned
  OBVIOUS
<1>1. agent.run = 0 /\ agent.st = "idle" /\ sent.run = 0 /\ root.inflight = NoUnit /\ root.runs = {} /\ verb = 0
  BY DEF Init
<1>2. \A h \in Handlers : hs[h] = NoReport
  BY DEF Init
<1>3. OneTurn
  BY <1>1, TurnBounds DEF OneTurn
<1>4. Reports
  BY <1>2, NoReportIs DEF Reports, ReportOf
<1> QED BY <1>3, <1>4 DEF Turned

\* A step of the root or its agent that leaves the reports alone.
LEMMA ReportsLeft ==
  ASSUME Reports, hs' = hs, \A n \in 1..agent.run : n \in 1..agent'.run,
         agent'.st = "busy" => agent.st = "busy" /\ agent'.run = agent.run, root.runs \subseteq root'.runs,
         \/ root'.inflight.run = root.inflight.run
         \/ root'.inflight = NoUnit
  PROVE  Reports'
<1> SUFFICES ASSUME NEW h \in Handlers PROVE ReportOf(hs[h])'
  BY DEF Reports
<1>1. ReportOf(hs[h]) /\ hs'[h] = hs[h] /\ ~(0 \in 1..agent.run)
  BY DEF Reports
<1> QED BY <1>1, NoUnitIs DEF ReportOf

LEMMA OneTurnOf ==
  ASSUME agent'.run = agent.run, sent'.run = sent.run, OneTurn, verb' \in {0, verb, agent.run}, Typed,
         root'.runs \subseteq root.runs \cup (1..agent.run),
         root'.inflight.run = root.inflight.run, root.inflight = NoUnit => root'.inflight = NoUnit,
         agent'.st = agent.st \/ (agent.st = "busy" /\ agent'.st = "report")
  PROVE  OneTurn'
<1>1. agent.run \in Nat /\ verb \in Nat
  BY DEF Typed, Agents
<1> QED BY <1>1 DEF OneTurn

LEMMA TurnedByAgent ==
  ASSUME Typed, Turned, LeavesTurn \/ Dispatch \/ AgentDies \/ AgentFinishes \/ VerbCarriedOut \/ VerbStamps \/ VerbFails
  PROVE  Turned'
<1>0. agent.run \in Nat /\ verb \in Nat /\ sent.run \in Nat /\ root \in Roots /\ root.runs \subseteq 1..agent.run
  BY DEF Typed, Agents, Turned, OneTurn
<1>1. CASE LeavesTurn
  <2>1. OneTurn'
    BY <1>0, <1>1, OneTurnOf DEF LeavesTurn, Turned
  <2>2. Reports'
    BY <1>1, ReportsLeft DEF LeavesTurn, Turned
  <2> QED BY <2>1, <2>2 DEF Turned
<1>2. CASE Dispatch
  <2>1. OneTurn'
    <3>1. /\ agent'.run = sent.run + 1 /\ sent'.run = sent.run + 1 /\ root'.inflight.run = sent.run + 1
          /\ agent'.st = "busy" /\ verb' = verb /\ root'.runs = root.runs /\ sent.run < MaxRuns /\ agent.run = sent.run
          /\ verb <= agent.run
      BY <1>2, DispatchDoes DEF SameBooks, Turned, OneTurn
    <3>2. MaxRuns \in Nat
      BY TurnBounds
    <3>3. 1..agent.run \subseteq 1..agent'.run
      BY <1>0, <3>1
    <3> QED BY <1>0, <3>1, <3>2, <3>3 DEF OneTurn
  <2>2. Reports'
    <3> SUFFICES ASSUME NEW h \in Handlers PROVE ReportOf(hs[h])'
      BY DEF Reports
    <3>1. ReportOf(hs[h]) /\ hs'[h] = hs[h]
      BY <1>2, DispatchDoes DEF Turned, Reports
    <3>2. /\ agent'.run = agent.run + 1 /\ root'.inflight.run = agent.run + 1 /\ root'.runs = root.runs
      BY <1>2, DispatchDoes DEF SameBooks, Turned, OneTurn
    <3>3. \A n \in 1..agent.run : n \in 1..agent'.run /\ n # agent'.run
      BY <1>0, <3>2
    <3>4. hs[h].pc \in {"mark", "close", "answer"} => hs[h].run \in 1..agent.run
      BY <1>0, <3>1 DEF ReportOf
    <3> QED BY <3>1, <3>2, <3>3, <3>4 DEF ReportOf
  <2> QED BY <2>1, <2>2 DEF Turned
<1>3. CASE AgentDies
  <2>1. root.inflight.run = agent.run \/ root.inflight = NoUnit
    BY DEF Turned, OneTurn
  <2>2. root'.inflight = NoUnit
    BY <1>3, <2>1, AgentDiesDoes
  <2>3. /\ agent'.run = agent.run /\ agent'.st = "idle" /\ root'.runs = root.runs /\ hs' = hs /\ verb' = verb /\ sent' = sent
    BY <1>3, AgentDiesDoes DEF SameBooks
  <2>4. OneTurn'
    BY <1>0, <2>2, <2>3 DEF OneTurn, Turned
  <2>5. Reports'
    BY <2>2, <2>3, ReportsLeft DEF Turned
  <2> QED BY <2>4, <2>5 DEF Turned
<1>4. CASE AgentFinishes
  <2>1. agent'.run = agent.run /\ agent.st = "busy" /\ agent'.st = "report" /\ UNCHANGED <<root, verb, hs, sent>>
    BY <1>4, AgentFinishesDoes
  <2>2. OneTurn'
    BY <1>0, <2>1, OneTurnOf DEF Turned
  <2>3. Reports'
    BY <2>1, ReportsLeft DEF Turned
  <2> QED BY <2>2, <2>3 DEF Turned
<1>5. CASE VerbCarriedOut
  <2>1. verb' = agent.run /\ root'.inflight = root.inflight /\ root'.runs = root.runs /\ UNCHANGED <<agent, hs, sent>>
    BY <1>5, VerbCarriedOutDoes DEF SameBooks
  <2>2. OneTurn'
    BY <1>0, <2>1, OneTurnOf DEF Turned
  <2>3. Reports'
    BY <2>1, ReportsLeft DEF Turned
  <2> QED BY <2>2, <2>3 DEF Turned
<1>6. CASE VerbStamps
  <2>1. /\ verb' = 0 /\ root'.inflight.run = root.inflight.run /\ root'.runs = root.runs /\ UNCHANGED <<agent, hs, sent>>
        /\ root.inflight = NoUnit => root'.inflight = NoUnit
    BY <1>6, VerbStampsDoes DEF SameBooks
  <2>2. OneTurn'
    BY <1>0, <2>1, OneTurnOf DEF Turned
  <2>3. Reports'
    BY <2>1, ReportsLeft DEF Turned
  <2> QED BY <2>2, <2>3 DEF Turned
<1>7. CASE VerbFails
  <2>1. verb' = 0 /\ UNCHANGED <<root, agent, hs, sent>>
    BY <1>7, VerbFailsDoes
  <2>2. OneTurn'
    BY <1>0, <2>1, OneTurnOf DEF Turned
  <2>3. Reports'
    BY <2>1, ReportsLeft DEF Turned
  <2> QED BY <2>2, <2>3 DEF Turned
<1> QED BY <1>1, <1>2, <1>3, <1>4, <1>5, <1>6, <1>7

\* A step of one report.
LEMMA ReportsOf ==
  ASSUME Reports, NEW h \in Handlers, ReportOf(hs[h])', \A g \in Handlers \ {h} : hs'[g] = hs[g],
         agent'.run = agent.run, agent'.st = "busy" => agent.st = "busy", root.runs \subseteq root'.runs,
         root'.inflight.run = root.inflight.run \/ root'.inflight = NoUnit
  PROVE  Reports'
<1> SUFFICES ASSUME NEW g \in Handlers, g # h PROVE ReportOf(hs[g])'
  BY DEF Reports
<1>1. ReportOf(hs[g]) /\ hs'[g] = hs[g] /\ ~(0 \in 1..agent.run)
  BY DEF Reports
<1> QED BY <1>1, NoUnitIs DEF ReportOf

LEMMA TurnedByReport ==
  ASSUME Typed, Turned, NEW h \in Handlers, ReportRepeated(h) \/ ReportGoesOn(h) \/ ReportCut(h)
  PROVE  Turned'
<1>0. /\ agent.run \in Nat /\ verb \in Nat /\ root \in Roots /\ root.runs \subseteq 1..agent.run /\ ReportOf(hs[h])
      /\ ReportOf(NoReport)'
  BY NoReportIs DEF Typed, Agents, Turned, OneTurn, Reports, ReportOf
<1>1. CASE ReportRepeated(h)
  <2> DEFINE q == [NoReport EXCEPT !.pc = "get", !.run = agent.run]
  <2>1. q.pc = "get" /\ q.run = agent.run
    BY NoReportIs DEF Requests
  <2>2. hs' = [hs EXCEPT ![h] = q] /\ UNCHANGED <<root, agent, verb, sent>> /\ agent.st = "report"
    BY <1>1 DEF ReportRepeated
  <2> HIDE DEF q
  <2>3. hs'[h] = q /\ \A g \in Handlers \ {h} : hs'[g] = hs[g]
    BY <2>2 DEF Typed
  <2>4. agent.run \in 1..agent.run
    BY <1>0, <2>2 DEF Turned, OneTurn
  <2>5. ReportOf(hs[h])'
    BY <2>1, <2>2, <2>3, <2>4 DEF ReportOf
  <2>6. OneTurn'
    BY <1>0, <2>2, OneTurnOf DEF Turned
  <2>7. Reports'
    BY <2>2, <2>3, <2>5, ReportsOf DEF Turned
  <2> QED BY <2>6, <2>7 DEF Turned
<1>2. CASE ReportGet(h)
  <2>1. PICK run \in Nat :
           /\ Judges(h, run)
           /\ (At(h, "get") /\ run = hs[h].run) \/ (At(h, "idle") /\ agent.st = "report" /\ run = agent.run)
           /\ UNCHANGED <<root, agent, verb, member, fast, back, sent, faults>>
    BY <1>2, ReportGetIs
  <2>2. hs'[h].pc = "act" /\ hs'[h].run = run /\ \A g \in Handlers \ {h} : hs'[g] = hs[g]
    BY <2>1, JudgesIs
  <2>3. run \in 1..agent.run /\ (agent.st = "busy" => run # agent.run)
    BY <1>0, <2>1 DEF At, ReportOf, Turned, OneTurn
  <2>4. ReportOf(hs[h])'
    BY <2>1, <2>2, <2>3 DEF ReportOf
  <2>5. OneTurn'
    BY <1>0, <2>1, OneTurnOf DEF Turned
  <2>6. Reports'
    BY <2>1, <2>2, <2>4, ReportsOf DEF Turned
  <2> QED BY <2>5, <2>6 DEF Turned
<1>3. CASE ReportActs(h)
  <2>1. /\ At(h, "act") /\ root'.inflight = root.inflight /\ root'.runs = root.runs /\ UNCHANGED <<agent, verb, sent>>
        /\ hs'[h].pc = "record" /\ hs'[h].run = hs[h].run /\ \A g \in Handlers \ {h} : hs'[g] = hs[g]
    BY <1>3, ReportActsDoes, ReportActsIs DEF SameBooks
  <2>2. ReportOf(hs[h])'
    BY <1>0, <2>1 DEF ReportOf, At
  <2>3. OneTurn'
    BY <1>0, <2>1, OneTurnOf DEF Turned
  <2>4. Reports'
    BY <2>1, <2>2, ReportsOf DEF Turned
  <2> QED BY <2>3, <2>4 DEF Turned
<1>4. CASE ReportRecords(h)
  <2>1. /\ At(h, "record") /\ root'.inflight = root.inflight /\ root'.runs = root.runs \cup {hs[h].run}
        /\ hs'[h].pc = "mark" /\ hs'[h].run = hs[h].run /\ \A g \in Handlers \ {h} : hs'[g] = hs[g]
        /\ UNCHANGED <<agent, verb, sent>>
    BY <1>4, ReportRecordsDoes
  <2>2. hs[h].run \in 1..agent.run /\ (agent.st = "busy" => hs[h].run # agent.run)
    BY <1>0, <2>1 DEF ReportOf, At
  <2>3. ReportOf(hs[h])'
    BY <2>1, <2>2 DEF ReportOf
  <2>4. OneTurn'
    BY <1>0, <2>1, <2>2, OneTurnOf DEF Turned
  <2>5. Reports'
    BY <2>1, <2>3, ReportsOf DEF Turned
  <2> QED BY <2>4, <2>5 DEF Turned
<1>5. CASE ReportMarks(h)
  <2>1. /\ At(h, "mark") /\ root'.runs = root.runs /\ hs'[h].run = hs[h].run /\ hs'[h].pc \in {"close", "answer"}
        /\ root'.inflight = (IF root.inflight.run = hs[h].run THEN NoUnit ELSE root.inflight)
        /\ \A g \in Handlers \ {h} : hs'[g] = hs[g]
        /\ UNCHANGED <<agent, verb, sent>>
    BY <1>5, ReportMarksIs DEF ReportMarks
  <2>2. /\ hs[h].run \in 1..agent.run /\ (agent.st = "busy" => hs[h].run # agent.run) /\ hs[h].run \in root.runs
        /\ hs[h].run # 0
    BY <1>0, <2>1 DEF ReportOf, At
  <2>3. ReportOf(hs[h])'
    BY <2>1, <2>2, NoUnitIs DEF ReportOf
  <2>4. OneTurn'
    <3>1. agent.st = "busy" => root'.inflight = root.inflight
      BY <2>1, <2>2 DEF Turned, OneTurn
    <3> QED BY <1>0, <2>1, <3>1 DEF Turned, OneTurn
  <2>5. Reports'
    BY <2>1, <2>3, ReportsOf DEF Turned
  <2> QED BY <2>4, <2>5 DEF Turned
<1>6. CASE ReportCloses(h)
  <2>1. /\ At(h, "close") /\ root'.inflight = root.inflight /\ root'.runs = root.runs /\ UNCHANGED <<agent, verb, sent>>
        /\ hs'[h].pc = "answer" /\ hs'[h].run = hs[h].run /\ \A g \in Handlers \ {h} : hs'[g] = hs[g]
    BY <1>6, ReportClosesDoes, ReportClosesIs DEF SameBooks
  <2>2. ReportOf(hs[h])'
    BY <1>0, <2>1 DEF ReportOf, At
  <2>3. OneTurn'
    BY <1>0, <2>1, OneTurnOf DEF Turned
  <2>4. Reports'
    BY <2>1, <2>2, ReportsOf DEF Turned
  <2> QED BY <2>3, <2>4 DEF Turned
<1>7. CASE ReportAnswers(h)
  <2>1. /\ At(h, "answer") /\ hs'[h] = NoReport /\ \A g \in Handlers \ {h} : hs'[g] = hs[g]
        /\ agent'.run = agent.run /\ UNCHANGED <<root, verb, sent>>
        /\ \/ agent.run = hs[h].run /\ agent'.st = "idle"
           \/ agent' = agent
    BY <1>7, ReportAnswersIs DEF ReportAnswers
  <2>2. OneTurn'
    <3>1. CASE agent' = agent
      BY <1>0, <2>1, <3>1, OneTurnOf DEF Turned
    <3>2. CASE agent.run = hs[h].run /\ agent'.st = "idle"
      <4>1. root.inflight = NoUnit
        BY <1>0, <2>1, <3>2 DEF ReportOf, At, Turned, OneTurn
      <4> QED BY <1>0, <2>1, <3>2, <4>1 DEF Turned, OneTurn
    <3> QED BY <2>1, <3>1, <3>2
  <2>3. Reports'
    BY <1>0, <2>1, ReportsOf DEF Turned
  <2> QED BY <2>2, <2>3 DEF Turned
<1>8. CASE ReportCut(h)
  <2>1. hs'[h] = NoReport /\ (\A g \in Handlers \ {h} : hs'[g] = hs[g]) /\ UNCHANGED <<root, agent, verb, sent>>
    BY <1>8, ReportCutIs DEF ReportCut
  <2>2. OneTurn'
    BY <1>0, <2>1, OneTurnOf DEF Turned
  <2>3. Reports'
    BY <1>0, <2>1, ReportsOf DEF Turned
  <2> QED BY <2>2, <2>3 DEF Turned
<1> QED BY <1>1, <1>2, <1>3, <1>4, <1>5, <1>6, <1>7, <1>8 DEF ReportGoesOn

LEMMA TurnedKept ==
  ASSUME Typed, Routes, Turned, [Next]_vars
  PROVE  Turned'
BY StepCases, TurnedByAgent, TurnedByReport

-----------------------------------------------------------------------------
(* The moves of a run: the mark is on what is in flight, or the verb has still to *)
(* be recorded, or something is excused.                                          *)

Moves ==
  /\ root.inflight.moved => past.made \/ past.excused
  /\ past.made /\ ~past.excused /\ root.inflight # NoUnit => root.inflight.moved \/ (verb = agent.run /\ agent.st = "busy")
  /\ verb # 0 /\ verb = agent.run => past.made

LEMMA InitMoves == Init => Moves
<1> SUFFICES ASSUME Init PROVE Moves
  OBVIOUS
<1>1. root.inflight = NoUnit /\ verb = 0
  BY DEF Init
<1> QED BY <1>1, NoUnitIs DEF Moves

LEMMA MovesLeft ==
  ASSUME Moves, root'.inflight \in {root.inflight, NoUnit}, past'.made = past.made, past.excused => past'.excused,
         UNCHANGED <<verb, agent>>
  PROVE  Moves'
BY NoUnitIs DEF Moves

LEMMA MovesKept ==
  ASSUME Typed, Routes, Turned, Moves, [Next]_vars
  PROVE  Moves'
<1>0. /\ agent.run \in Nat /\ verb \in Nat /\ sent.run \in Nat /\ verb <= agent.run /\ agent.run = sent.run
      /\ past.excused \in BOOLEAN /\ past.made \in BOOLEAN
  BY DEF Typed, Agents, Pasts, Turned, OneTurn
<1>1. CASE LeavesTurn
  <2>1. past'.made = past.made /\ past'.excused = past.excused
    BY <1>1 DEF LeavesTurn, Typed, Pasts
  <2> QED BY <1>1, <2>1, MovesLeft DEF LeavesTurn
<1>2. CASE Dispatch
  <2>1. /\ root'.inflight.moved = FALSE /\ past'.made = FALSE /\ verb' = verb /\ agent'.run = agent.run + 1
    BY <1>0, <1>2, DispatchDoes
  <2> QED BY <1>0, <2>1 DEF Moves
<1>3. CASE AgentDies
  <2>1. root.inflight.run = agent.run \/ root.inflight = NoUnit
    BY DEF Turned, OneTurn
  <2>2. root'.inflight = NoUnit /\ past'.made = past.made /\ agent'.run = agent.run /\ verb' = verb
    BY <1>3, <2>1, AgentDiesDoes
  <2> QED BY <2>2, NoUnitIs DEF Moves
<1>4. CASE AgentFinishes
  <2>1. /\ agent'.run = agent.run /\ UNCHANGED <<root, verb>> /\ past'.made = past.made
        /\ (past.excused => past'.excused) /\ (verb = agent.run => past'.excused)
    BY <1>4, AgentFinishesDoes DEF SamePast
  <2> QED BY <2>1 DEF Moves
<1>5. CASE VerbCarriedOut
  <2>1. /\ agent.st = "busy" /\ verb' = agent.run /\ root'.inflight = root.inflight /\ past'.made = TRUE /\ agent' = agent
    BY <1>5, VerbCarriedOutDoes
  <2> QED BY <2>1 DEF Moves
<1>6. CASE VerbStamps
  <2>1. /\ verb # 0 /\ verb' = 0 /\ past'.made = past.made /\ (past'.excused <=> past.excused \/ verb # agent.run)
        /\ agent' = agent /\ (root.inflight = NoUnit => root'.inflight = NoUnit)
        /\ (root.inflight # NoUnit => root'.inflight.moved)
    BY <1>6, VerbStampsDoes DEF SamePast
  <2>2. past'.made \/ past'.excused
    BY <2>1 DEF Moves
  <2> QED BY <2>1, <2>2, NoUnitIs DEF Moves
<1>7. CASE VerbFails
  <2>1. verb' = 0 /\ past'.made = past.made /\ (past'.excused <=> past.excused \/ verb = agent.run) /\ UNCHANGED <<root, agent>>
    BY <1>7, VerbFailsDoes DEF SamePast
  <2> QED BY <2>1 DEF Moves
<1>8. ASSUME NEW h \in Handlers, ReportRepeated(h) \/ ReportGoesOn(h) \/ ReportCut(h)
      PROVE  Moves'
  <2>1. CASE ReportRepeated(h)
    BY <2>1, MovesLeft DEF ReportRepeated
  <2>2. CASE ReportGet(h)
    <3>1. PICK run \in Nat : Judges(h, run) /\ UNCHANGED <<root, agent, verb>>
      BY <2>2, ReportGetIs
    <3>2. past'.made = past.made /\ past'.excused = past.excused
      BY <3>1, JudgesPast
    <3> QED BY <3>1, <3>2, MovesLeft
  <2>3. CASE ReportActs(h)
    BY <2>3, ReportActsDoes, MovesLeft
  <2>4. CASE ReportRecords(h)
    BY <2>4, ReportRecordsDoes, MovesLeft
  <2>5. CASE ReportMarks(h)
    BY <2>5, ReportMarksIs, MovesLeft DEF ReportMarks
  <2>6. CASE ReportCloses(h)
    BY <2>6, ReportClosesDoes, MovesLeft
  <2>7. CASE ReportAnswers(h)
    <3>1. /\ At(h, "answer") /\ UNCHANGED <<root, verb, past>> /\ agent'.run = agent.run
          /\ \/ agent.run = hs[h].run /\ agent'.st = "idle"
             \/ agent' = agent
      BY <2>7, ReportAnswersIs DEF ReportAnswers
    <3>2. CASE agent' = agent
      BY <3>1, <3>2, MovesLeft
    <3>3. CASE agent.run = hs[h].run
      <4>1. root.inflight = NoUnit
        BY <3>1, <3>3 DEF Turned, OneTurn, Reports, ReportOf, At
      <4> QED BY <3>1, <4>1 DEF Moves
    <3> QED BY <3>1, <3>2, <3>3
  <2>8. CASE ReportCut(h)
    BY <2>8, ReportCutIs, MovesLeft DEF ReportCut
  <2> QED BY <1>8, <2>1, <2>2, <2>3, <2>4, <2>5, <2>6, <2>7, <2>8 DEF ReportGoesOn
<1> QED BY <1>1, <1>2, <1>3, <1>4, <1>5, <1>6, <1>7, <1>8, StepCases

\* So a report is never judged by moves that are not its own.
LEMMA JudgedKept ==
  ASSUME Typed, Routes, Turned, Moves, JudgedByItsOwnMoves, [Next]_vars
  PROVE  JudgedByItsOwnMoves'
<1>0. ~past.misjudged
  BY DEF JudgedByItsOwnMoves
<1>1. CASE LeavesTurn
  <2>1. past'.misjudged = past.misjudged
    BY <1>1 DEF LeavesTurn, Typed, Pasts
  <2> QED BY <1>0, <2>1 DEF JudgedByItsOwnMoves
<1>2. CASE Dispatch \/ AgentDies \/ AgentFinishes \/ VerbCarriedOut \/ VerbStamps \/ VerbFails
  BY <1>0, <1>2, DispatchDoes, AgentDiesDoes, AgentFinishesDoes, VerbCarriedOutDoes, VerbStampsDoes, VerbFailsDoes
     DEF SamePast, JudgedByItsOwnMoves
<1>3. ASSUME NEW h \in Handlers, ReportGet(h)
      PROVE  ~past'.misjudged
  <2>1. PICK run \in Nat :
           /\ Judges(h, run)
           /\ (At(h, "get") /\ run = hs[h].run) \/ (At(h, "idle") /\ agent.st = "report" /\ run = agent.run)
    BY <1>3, ReportGetIs
  <2>2. past'.misjudged <=> past.misjudged \/ (Misjudges(run, Verdict(run)) /\ ~past.excused)
    BY <2>1, JudgesPast
  <2>3. run # 0 /\ (agent.st = "busy" => run # agent.run)
    BY <2>1 DEF At, ReportOf, Reports, Turned, OneTurn
  <2>4. Dispatched(run) => root.inflight # NoUnit /\ run = agent.run /\ agent.st # "busy"
    BY <2>3, NoUnitIs DEF Dispatched, Turned, OneTurn
  <2>5. Verdict(run) # "ended" => Dispatched(run) /\ ~root.inflight.moved
    BY DEF Verdict
  <2>6. Misjudges(run, Verdict(run)) => past.excused
    BY <2>4, <2>5 DEF Misjudges, Moves
  <2> QED BY <1>0, <2>2, <2>6
<1>4. ASSUME NEW h \in Handlers, ReportRepeated(h) \/ ReportGoesOn(h) \/ ReportCut(h)
      PROVE  JudgedByItsOwnMoves'
  <2>1. CASE ReportGet(h)
    BY <1>3, <2>1 DEF JudgedByItsOwnMoves
  <2>2. CASE ReportRepeated(h) \/ ReportRecords(h) \/ ReportAnswers(h)
    BY <1>0, <2>2 DEF ReportRepeated, ReportRecords, ReportAnswers, JudgedByItsOwnMoves
  <2>3. CASE ReportActs(h) \/ ReportMarks(h) \/ ReportCloses(h) \/ ReportCut(h)
    BY <1>0, <2>3, ReportActsDoes, ReportMarksIs, ReportClosesDoes, ReportCutIs DEF JudgedByItsOwnMoves
  <2> QED BY <1>4, <2>1, <2>2, <2>3 DEF ReportGoesOn
<1> QED BY <1>1, <1>2, <1>4, StepCases


-----------------------------------------------------------------------------
(* A corrective input bears the number of the run it is for: none is in hand, or *)
(* done, for the run the agent was last given, or one to come.                   *)

Numbered ==
  /\ \A n \in Nat : <<"manager", n>> \in Processed(root) \cup root.inflight.ids => n < agent.run
  /\ \A n \in Nat : <<"manager", n>> \in Range(root.inputs) => n <= agent.run

LEMMA InitNumbered == Init => Numbered
<1> SUFFICES ASSUME Init PROVE Numbered
  OBVIOUS
<1>1. Processed(root) = {} /\ root.inflight.ids = {} /\ root.inputs = <<<<"signal", 1>>>>
  <2>1. root.done = <<>> /\ DOMAIN <<>> = {}
    BY DEF Init
  <2> QED BY <2>1, NoUnitIs DEF Init, Processed
<1>2. \A n \in Nat : <<"manager", n>> # <<"signal", 1>>
  OBVIOUS
<1>3. Range(<<<<"signal", 1>>>>) = {<<"signal", 1>>}
  BY DEF Range
<1> QED BY <1>1, <1>2, <1>3 DEF Numbered

LEMMA NumberedLeft ==
  ASSUME Numbered, agent'.run = agent.run,
         Processed(root') \cup root'.inflight.ids \subseteq Processed(root) \cup root.inflight.ids,
         \A n \in Nat : <<"manager", n>> \in Range(root'.inputs) => <<"manager", n>> \in Range(root.inputs)
  PROVE  Numbered'
BY DEF Numbered

LEMMA NumberedKept ==
  ASSUME Typed, Routes, Turned, Numbered, [Next]_vars
  PROVE  Numbered'
<1>0. agent.run \in Nat /\ sent.run = agent.run /\ NoUnit.ids = {}
  BY NoUnitIs DEF Typed, Agents, Turned, OneTurn
<1>1. CASE LeavesTurn
  BY <1>1, NumberedLeft, DoneStays DEF LeavesTurn, SameDone
<1>2. CASE Dispatch
  <2>1. /\ SameDone /\ root'.inputs = root.inputs /\ agent'.run = agent.run + 1
        /\ root'.inflight.ids \subseteq Range(root.inputs)
    BY <1>0, <1>2, DispatchDoes DEF SameBooks, SameDoor
  <2>2. ASSUME NEW n \in Nat, <<"manager", n>> \in Processed(root') \cup root'.inflight.ids
        PROVE  n < agent'.run
    <3>1. n < agent.run \/ n <= agent.run
      BY <2>1, <2>2, DoneStays DEF Numbered, SameDone
    <3> QED BY <1>0, <2>1, <3>1
  <2>3. ASSUME NEW n \in Nat, <<"manager", n>> \in Range(root'.inputs)
        PROVE  n <= agent'.run
    <3>1. n <= agent.run
      BY <2>1, <2>3 DEF Numbered
    <3> QED BY <1>0, <2>1, <3>1
  <2> QED BY <2>2, <2>3 DEF Numbered
<1>3. CASE AgentDies
  BY <1>0, <1>3, AgentDiesDoes, NumberedLeft, DoneStays DEF SameBooks, SameDoor, SameDone
<1>4. CASE AgentFinishes
  BY <1>4, AgentFinishesDoes, NumberedLeft
<1>5. CASE VerbCarriedOut
  BY <1>5, VerbCarriedOutDoes, NumberedLeft, DoneStays DEF SameBooks, SameDone
<1>6. CASE VerbStamps
  BY <1>6, VerbStampsDoes, NumberedLeft, DoneStays DEF SameBooks, SameDoor, SameDone
<1>7. CASE VerbFails
  BY <1>7, VerbFailsDoes, NumberedLeft
<1>8. ASSUME NEW h \in Handlers, ReportRepeated(h) \/ ReportGoesOn(h) \/ ReportCut(h)
      PROVE  Numbered'
  <2>1. CASE ReportRepeated(h) \/ ReportGet(h) \/ ReportCut(h)
    BY <2>1, NumberedLeft DEF ReportRepeated, ReportGet, ReportCut
  <2>2. CASE ReportActs(h)
    <3>1. /\ SameDone /\ root'.inflight = root.inflight /\ agent' = agent
          /\ Range(root'.inputs) \subseteq Range(root.inputs) \cup {<<"manager", hs[h].run>>} /\ At(h, "act")
      BY <2>2, ReportActsDoes DEF SameBooks
    <3>2. hs[h].run \in 1..agent.run
      BY <3>1 DEF At, Turned, Reports, ReportOf
    <3>3. ASSUME NEW n \in Nat, <<"manager", n>> \in Range(root'.inputs)
          PROVE  n <= agent.run
      <4>1. <<"manager", n>> \in Range(root.inputs) \/ n = hs[h].run
        BY <3>1, <3>3
      <4> QED BY <1>0, <3>2, <4>1 DEF Numbered
    <3> QED BY <3>1, <3>3, DoneStays DEF Numbered, SameDone
  <2>3. CASE ReportRecords(h)
    BY <2>3, ReportRecordsDoes, NumberedLeft, DoneStays DEF SameDoor, SameDone
  <2>4. CASE ReportMarks(h)
    <3>1. agent' = agent
      BY <2>4 DEF ReportMarks
    <3>2. root'.inputs = root.inputs /\ Processed(root') \cup root'.inflight.ids \subseteq Processed(root) \cup root.inflight.ids
      BY <1>0, <2>4, ReportMarksIs
    <3> QED BY <3>1, <3>2, NumberedLeft
  <2>5. CASE ReportCloses(h)
    BY <2>5, ReportClosesDoes, NumberedLeft, DoneStays DEF SameBooks, SameDone
  <2>6. CASE ReportAnswers(h)
    BY <2>6, ReportAnswersIs, NumberedLeft DEF ReportAnswers
  <2> QED BY <1>8, <2>1, <2>2, <2>3, <2>4, <2>5, <2>6 DEF ReportGoesOn
<1> QED BY <1>1, <1>2, <1>3, <1>4, <1>5, <1>6, <1>7, <1>8, StepCases

-----------------------------------------------------------------------------
(* An undecided turn is taken up: once its report has acted, the corrective input *)
(* of the run waits in the queue, unless the root has ended, was escalated, or the *)
(* failure to hand back was logged.                                                *)

TakenUp ==
  \/ ~root.open \/ root.escalated \/ past.lost
  \/ <<"manager", agent.run>> \in Range(root.inputs) \ Processed(root)
Missed == agent.ok /\ ~past.made /\ ~past.excused /\ ~AnsweredAPerson(root.inflight.ids)
HasActed(q) == q.pc \in {"record", "mark"} \/ (q.pc = "act" /\ q.verdict = "ended")
UndecidedOf(q) == HasActed(q) /\ q.run = root.inflight.run /\ Missed => TakenUp \/ root.turns + 1 >= MaxTurns
Undecided ==
  /\ \A h \in Handlers : UndecidedOf(hs[h])
  /\ past.undecided => TakenUp \/ root.turns >= MaxTurns

LEMMA InitUndecided == Init => Undecided
<1> SUFFICES ASSUME Init PROVE Undecided
  OBVIOUS
<1>1. ~past.undecided /\ \A h \in Handlers : hs[h].pc = "idle"
  BY NoReportIs DEF Init
<1> QED BY <1>1 DEF Undecided, UndecidedOf, HasActed

LEMMA StaysTakenUp ==
  ASSUME Typed, Numbered, TakenUp, root'.open => root.open, root.escalated => root'.escalated, past.lost => past'.lost,
         agent'.run = agent.run, Range(root.inputs) \ Processed(root) \subseteq Range(root'.inputs),
         Processed(root') \subseteq Processed(root) \cup root.inflight.ids
  PROVE  TakenUp'
<1>1. <<"manager", agent.run>> \notin Processed(root) \cup root.inflight.ids
  <2>1. agent.run \in Nat /\ ~(agent.run < agent.run)
    BY DEF Typed, Agents
  <2> QED BY <2>1 DEF Numbered
<1> QED BY <1>1 DEF TakenUp

\* A step that neither ends the turn nor acts on it.
LEMMA UndecidedLeft ==
  ASSUME Typed, Undecided, TakenUp => TakenUp', root'.turns = root.turns, past'.undecided = past.undecided,
         Missed' => Missed,
         \A h \in Handlers : HasActed(hs'[h]) /\ hs'[h].run = root'.inflight.run
                             => HasActed(hs[h]) /\ hs[h].run = root.inflight.run
  PROVE  Undecided'
BY DEF Undecided, UndecidedOf

LEMMA UndecidedByAgent ==
  ASSUME Typed, Turned, Moves, Numbered, Undecided,
         LeavesTurn \/ Dispatch \/ AgentDies \/ AgentFinishes \/ VerbCarriedOut \/ VerbStamps \/ VerbFails
  PROVE  Undecided'
<1>0. /\ NoUnit.ids = {} /\ NoUnit.run = 0 /\ agent.run = sent.run /\ sent.run \in Nat
      /\ root.inflight = NoUnit \/ root.inflight.run = agent.run
      /\ Processed(root) \subseteq Processed(root) \cup root.inflight.ids
      /\ Range(root.inputs) \ Processed(root) \subseteq Range(root.inputs)
  BY NoUnitIs DEF Typed, Turned, OneTurn
<1>r. \A h \in Handlers : HasActed(hs[h]) => /\ hs[h].run \in 1..agent.run /\ hs[h].run # 0 /\ hs[h].run # agent.run + 1
                                             /\ (agent.st = "busy" => hs[h].run # agent.run)
  BY <1>0 DEF HasActed, Turned, Reports, ReportOf
<1>1. CASE LeavesTurn
  <2>1. /\ past'.made = past.made /\ past'.excused = past.excused /\ past'.undecided = past.undecided
        /\ past'.lost = past.lost
    BY <1>1 DEF LeavesTurn, Typed, Pasts
  <2>2. TakenUp => TakenUp'
    BY <1>0, <1>1, <2>1, StaysTakenUp, DoneStays DEF LeavesTurn, SameDone
  <2>3. Missed' => Missed
    BY <1>1, <2>1 DEF LeavesTurn, Missed
  <2> QED BY <1>1, <2>1, <2>2, <2>3, UndecidedLeft DEF LeavesTurn
<1>2. CASE Dispatch
  <2>1. ~past'.undecided /\ root'.inflight.run = agent.run + 1 /\ hs' = hs
    BY <1>0, <1>2, DispatchDoes
  <2> QED BY <1>r, <2>1 DEF Undecided, UndecidedOf
<1>3. CASE AgentDies
  <2>1. /\ root'.turns = root.turns /\ root'.inflight = NoUnit /\ hs' = hs /\ past'.undecided = past.undecided
        /\ root'.open = root.open /\ root'.inputs = root.inputs /\ root'.escalated = root.escalated
        /\ SameDone /\ agent'.run = agent.run /\ past'.lost = past.lost
    BY <1>0, <1>3, AgentDiesDoes DEF SameBooks, SameDoor
  <2>2. TakenUp => TakenUp'
    BY <1>0, <2>1, StaysTakenUp, DoneStays DEF SameDone
  <2> QED BY <1>0, <1>r, <2>1, <2>2 DEF Undecided, UndecidedOf
<1>4. CASE AgentFinishes
  <2>1. /\ UNCHANGED <<root, hs>> /\ agent'.run = agent.run /\ past'.undecided = past.undecided /\ past'.lost = past.lost
        /\ agent.st = "busy" /\ root.inflight.run = agent.run
    BY <1>4, AgentFinishesDoes DEF SamePast, Turned, OneTurn
  <2>2. TakenUp => TakenUp'
    BY <1>0, <2>1, StaysTakenUp
  <2> QED BY <1>r, <2>1, <2>2 DEF Undecided, UndecidedOf
<1>5. CASE VerbCarriedOut
  <2>1. /\ UNCHANGED <<agent, hs>> /\ past'.undecided = past.undecided /\ past'.lost = past.lost /\ past'.made
        /\ root'.open = root.open /\ root'.inputs = root.inputs /\ SameDone
        /\ root'.turns = root.turns /\ (root.escalated => root'.escalated)
    BY <1>5, VerbCarriedOutDoes DEF SameBooks
  <2>2. TakenUp => TakenUp'
    BY <1>0, <2>1, StaysTakenUp, DoneStays DEF SameDone
  <2>3. ~Missed'
    BY <2>1 DEF Missed
  <2> QED BY <2>1, <2>2, <2>3 DEF Undecided, UndecidedOf
<1>6. CASE VerbStamps
  <2>1. /\ UNCHANGED <<agent, hs>> /\ past'.undecided = past.undecided /\ past'.lost = past.lost /\ past'.made = past.made
        /\ root'.open = root.open /\ root'.inputs = root.inputs /\ SameDone
        /\ root'.turns = root.turns /\ (root.escalated => root'.escalated) /\ (past.excused => past'.excused)
        /\ root'.inflight.run = root.inflight.run /\ root'.inflight.ids = root.inflight.ids
    BY <1>6, VerbStampsDoes DEF SameBooks, SameDoor, SamePast
  <2>2. TakenUp => TakenUp'
    BY <1>0, <2>1, StaysTakenUp, DoneStays DEF SameDone
  <2>3. Missed' => Missed
    BY <2>1 DEF Missed
  <2> QED BY <2>1, <2>2, <2>3, UndecidedLeft
<1>7. CASE VerbFails
  <2>1. /\ UNCHANGED <<root, agent, hs>> /\ past'.undecided = past.undecided /\ past'.lost = past.lost
        /\ past'.made = past.made /\ (past.excused => past'.excused)
    BY <1>7, VerbFailsDoes DEF SamePast
  <2>2. TakenUp => TakenUp'
    BY <1>0, <2>1, StaysTakenUp
  <2>3. Missed' => Missed
    BY <2>1 DEF Missed
  <2> QED BY <2>1, <2>2, <2>3, UndecidedLeft
<1> QED BY <1>1, <1>2, <1>3, <1>4, <1>5, <1>6, <1>7

\* A report that judged the turn not to be handed back judged it ended, or made.
LEMMA VerdictIs ==
  ASSUME Typed, Moves, NEW run \in Nat, Verdict(run) = "ended", run = root.inflight.run, Missed
  PROVE  TakenUp \/ root.turns + 1 >= MaxTurns
<1>1. ~root.inflight.moved /\ agent.ok /\ ~AnsweredAPerson(root.inflight.ids)
  BY DEF Moves, Missed
<1>2. OnlyTheCorrective(root.inflight.ids) \in BOOLEAN
  BY DEF OnlyTheCorrective
<1> QED BY <1>1, <1>2 DEF Verdict, Dispatched, TakenUp

LEMMA UndecidedByReport ==
  ASSUME Typed, Turned, Moves, Numbered, Undecided,
         NEW h \in Handlers, ReportRepeated(h) \/ ReportGoesOn(h) \/ ReportCut(h)
  PROVE  Undecided'
<1>0. /\ NoUnit.ids = {} /\ NoUnit.run = 0 /\ agent.run \in Nat
      /\ root.inflight = NoUnit \/ root.inflight.run = agent.run
      /\ Processed(root) \subseteq Processed(root) \cup root.inflight.ids
      /\ Range(root.inputs) \ Processed(root) \subseteq Range(root.inputs)
      /\ UndecidedOf(hs[h])
  BY NoUnitIs DEF Typed, Agents, Turned, OneTurn, Undecided
<1>i. ~HasActed(NoReport)
  BY NoReportIs DEF HasActed
<1>r. \A g \in Handlers : hs[g].pc # "idle" => hs[g].run \in 1..agent.run /\ hs[g].run # 0
  BY <1>0 DEF Turned, Reports, ReportOf
<1>1. CASE ReportRepeated(h)
  <2> DEFINE q == [NoReport EXCEPT !.pc = "get", !.run = agent.run]
  <2>1. ~HasActed(q)
    BY NoReportIs DEF Requests, HasActed
  <2>2. hs' = [hs EXCEPT ![h] = q] /\ UNCHANGED <<root, agent, past>>
    BY <1>1 DEF ReportRepeated
  <2> HIDE DEF q
  <2>3. hs'[h] = q /\ \A g \in Handlers \ {h} : hs'[g] = hs[g]
    BY <2>2 DEF Typed
  <2>4. (TakenUp => TakenUp') /\ (Missed' => Missed)
    BY <2>2 DEF TakenUp, Missed
  <2>5. \A g \in Handlers : HasActed(hs'[g]) => hs'[g] = hs[g]
    BY <2>1, <2>3
  <2> QED BY <2>2, <2>4, <2>5, UndecidedLeft
<1>2. CASE ReportGet(h)
  <2>1. PICK run \in Nat : Judges(h, run) /\ UNCHANGED <<root, agent>>
    BY <1>2, ReportGetIs
  <2>2. /\ hs'[h].run = run /\ hs'[h].verdict = Verdict(run) /\ hs'[h].pc = "act"
        /\ \A g \in Handlers \ {h} : hs'[g] = hs[g]
    BY <2>1, JudgesIs
  <2>3. /\ past'.made = past.made /\ past'.excused = past.excused /\ past'.undecided = past.undecided
        /\ past'.lost = past.lost
    BY <2>1, JudgesPast
  <2>4. (TakenUp <=> TakenUp') /\ (Missed' <=> Missed) /\ root' = root
    BY <2>1, <2>3 DEF TakenUp, Missed
  <2>5. UndecidedOf(hs[h])'
    BY <2>2, <2>4, VerdictIs DEF UndecidedOf, HasActed
  <2>6. \A g \in Handlers \ {h} : UndecidedOf(hs[g])'
    BY <2>2, <2>4 DEF Undecided, UndecidedOf
  <2> QED BY <2>3, <2>4, <2>5, <2>6 DEF Undecided
<1>3. CASE ReportActs(h)
  <2>1. /\ At(h, "act") /\ hs[h].verdict \in Verdicts
        /\ root'.turns = root.turns /\ SameDone
        /\ root'.inflight = root.inflight /\ root'.open = root.open
        /\ (root.escalated => root'.escalated) /\ (past.lost => past'.lost)
        /\ Range(root.inputs) \subseteq Range(root'.inputs)
        /\ hs[h].verdict = "first" => \/ past'.lost \/ ~root.open \/ <<"manager", hs[h].run>> \in Range(root'.inputs)
        /\ hs[h].verdict = "second" => past'.lost \/ root'.escalated
        /\ past'.made = past.made /\ past'.excused = past.excused /\ past'.undecided = past.undecided
        /\ agent' = agent
    BY <1>3, ReportActsDoes DEF SameBooks
  <2>2. /\ hs'[h].pc = "record" /\ hs'[h].run = hs[h].run
        /\ \A g \in Handlers \ {h} : hs'[g] = hs[g]
    BY <1>3, ReportActsIs
  <2>3. (TakenUp => TakenUp') /\ (Missed' <=> Missed)
    BY <1>0, <2>1, StaysTakenUp, DoneStays DEF Missed, SameDone
  <2>4. UndecidedOf(hs[h])'
    <3> SUFFICES ASSUME hs[h].run = root.inflight.run, Missed PROVE TakenUp' \/ root.turns + 1 >= MaxTurns
      BY <2>1, <2>2, <2>3 DEF UndecidedOf
    <3>1. CASE hs[h].verdict = "ended"
      BY <1>0, <2>1, <2>3, <3>1 DEF UndecidedOf, HasActed, At
    <3>2. CASE hs[h].verdict = "first"
      <4>1. hs[h].run = agent.run
        BY <1>0, <1>r, <2>1 DEF At
      <4>2. <<"manager", agent.run>> \notin Processed(root')
        <5>1. ~(agent.run < agent.run)
          BY <1>0
        <5> QED BY <1>0, <2>1, <5>1, DoneStays DEF Numbered, SameDone
      <4> QED BY <2>1, <3>2, <4>1, <4>2 DEF TakenUp
    <3>3. CASE hs[h].verdict = "second"
      BY <2>1, <3>3 DEF TakenUp
    <3> QED BY <2>1, <3>1, <3>2, <3>3 DEF Verdicts
  <2>5. \A g \in Handlers \ {h} : UndecidedOf(hs[g])'
    BY <2>1, <2>2, <2>3 DEF Undecided, UndecidedOf
  <2> QED BY <2>1, <2>3, <2>4, <2>5 DEF Undecided
<1>4. CASE ReportRecords(h)
  <2>1. /\ At(h, "record") /\ hs'[h].run = hs[h].run /\ root'.inflight = root.inflight /\ root'.turns = root.turns
        /\ root'.open = root.open /\ root'.inputs = root.inputs /\ root'.escalated = root.escalated
        /\ SameDone /\ UNCHANGED <<agent, past>>
        /\ \A g \in Handlers \ {h} : hs'[g] = hs[g]
    BY <1>4, ReportRecordsDoes DEF SameDoor
  <2>2. (TakenUp => TakenUp') /\ (Missed' => Missed)
    BY <2>1, DoneStays DEF TakenUp, Missed, SameDone
  <2>3. HasActed(hs[h])
    BY <2>1 DEF At, HasActed
  <2> QED BY <2>1, <2>2, <2>3, UndecidedLeft
<1>5. CASE ReportMarks(h)
  <2>1. /\ At(h, "mark") /\ agent' = agent
    BY <1>5 DEF ReportMarks
  <2>2. /\ hs'[h].run = hs[h].run /\ hs'[h].pc \in {"close", "answer"} /\ \A g \in Handlers \ {h} : hs'[g] = hs[g]
        /\ root'.open = root.open /\ root'.inputs = root.inputs /\ root'.escalated = root.escalated
        /\ root'.turns = root.turns + 1 /\ root.turns \in Nat /\ MaxTurns \in Nat
        /\ Processed(root') \subseteq Processed(root) \cup root.inflight.ids
        /\ past'.made = past.made /\ past'.excused = past.excused /\ past'.lost = past.lost
    BY <1>5, ReportMarksIs, TurnBounds DEF Typed, Roots
  <2>3. TakenUp => TakenUp'
    BY <1>0, <2>1, <2>2, StaysTakenUp
  <2>4. root.turns >= MaxTurns => root'.turns >= MaxTurns
    BY <2>2
  <2>5. root.turns + 1 >= MaxTurns => root'.turns >= MaxTurns /\ root'.turns + 1 >= MaxTurns
    BY <2>2
  <2>6. CASE root.inflight.run = hs[h].run
    <3>1. root'.inflight = NoUnit /\ (past'.undecided <=> Missed)
      BY <1>5, <2>6, ReportMarksIs DEF Missed
    <3>2. past'.undecided => TakenUp' \/ root'.turns >= MaxTurns
      BY <1>0, <2>1, <2>3, <2>5, <2>6, <3>1 DEF At, UndecidedOf, HasActed
    <3>3. \A g \in Handlers : HasActed(hs'[g]) => hs'[g].run # 0
      BY <1>r, <2>1, <2>2 DEF HasActed, At
    <3> QED BY <1>0, <3>1, <3>2, <3>3 DEF Undecided, UndecidedOf
  <2>7. CASE root.inflight.run # hs[h].run
    <3>1. root'.inflight = root.inflight /\ (past'.undecided <=> past.undecided)
      BY <1>5, <2>7, ReportMarksIs
    <3>2. Missed' => Missed
      BY <2>1, <2>2, <3>1 DEF Missed
    <3>3. past'.undecided => TakenUp' \/ root'.turns >= MaxTurns
      BY <2>3, <2>4, <3>1 DEF Undecided
    <3>4. ASSUME NEW g \in Handlers, HasActed(hs'[g]), hs'[g].run = root'.inflight.run, Missed'
          PROVE  TakenUp' \/ root'.turns + 1 >= MaxTurns
      <4>1. hs'[g] = hs[g]
        BY <2>2, <2>7, <3>1, <3>4
      <4>2. UndecidedOf(hs[g])
        BY DEF Undecided
      <4> QED BY <2>3, <2>5, <3>1, <3>2, <3>4, <4>1, <4>2 DEF UndecidedOf
    <3> QED BY <3>3, <3>4 DEF Undecided, UndecidedOf
  <2> QED BY <2>6, <2>7
<1>6. CASE ReportCloses(h)
  <2>1. /\ root'.turns = root.turns /\ root'.inflight = root.inflight /\ root'.open = root.open
        /\ root'.inputs = root.inputs /\ SameDone /\ agent' = agent
        /\ (root.escalated => root'.escalated) /\ (past.lost => past'.lost)
        /\ past'.made = past.made /\ past'.excused = past.excused /\ past'.undecided = past.undecided
    BY <1>6, ReportClosesDoes DEF SameBooks
  <2>2. hs'[h].pc = "answer" /\ \A g \in Handlers \ {h} : hs'[g] = hs[g]
    BY <1>6, ReportClosesIs
  <2>3. (TakenUp => TakenUp') /\ (Missed' => Missed)
    BY <1>0, <2>1, StaysTakenUp, DoneStays DEF Missed, SameDone
  <2>4. \A g \in Handlers : HasActed(hs'[g]) => hs'[g] = hs[g]
    BY <2>2 DEF HasActed
  <2> QED BY <2>1, <2>3, <2>4, UndecidedLeft
<1>7. CASE ReportAnswers(h)
  <2>1. /\ At(h, "answer") /\ UNCHANGED <<root, past>> /\ agent'.run = agent.run /\ hs'[h] = NoReport
        /\ \A g \in Handlers \ {h} : hs'[g] = hs[g]
        /\ agent.run = hs[h].run \/ agent' = agent
    BY <1>7, ReportAnswersIs DEF ReportAnswers
  <2>2. TakenUp => TakenUp'
    BY <2>1 DEF TakenUp
  <2>3. \A g \in Handlers : HasActed(hs'[g]) => hs'[g] = hs[g]
    BY <1>i, <2>1
  <2>4. CASE agent' = agent
    <3>1. Missed' => Missed
      BY <2>1, <2>4 DEF Missed
    <3> QED BY <2>1, <2>2, <2>3, <3>1, UndecidedLeft
  <2>5. CASE agent.run = hs[h].run
    <3>1. root'.inflight = NoUnit
      BY <1>0, <2>1, <2>5 DEF At, Turned, Reports, ReportOf
    <3>2. \A g \in Handlers : HasActed(hs'[g]) => hs'[g].run # 0
      BY <1>r, <2>3 DEF HasActed
    <3> QED BY <1>0, <2>1, <2>2, <3>1, <3>2 DEF Undecided, UndecidedOf
  <2> QED BY <2>1, <2>4, <2>5
<1>8. CASE ReportCut(h)
  <2>1. /\ UNCHANGED <<root, agent>> /\ hs'[h] = NoReport /\ past'.undecided = past.undecided
        /\ past'.made = past.made /\ past'.excused = past.excused /\ past'.lost = past.lost
        /\ \A g \in Handlers \ {h} : hs'[g] = hs[g]
    BY <1>8, ReportCutIs DEF ReportCut
  <2>2. (TakenUp => TakenUp') /\ (Missed' => Missed)
    BY <2>1 DEF TakenUp, Missed
  <2>3. \A g \in Handlers : HasActed(hs'[g]) => hs'[g] = hs[g]
    BY <1>i, <2>1
  <2> QED BY <2>1, <2>2, <2>3, UndecidedLeft
<1> QED BY <1>1, <1>2, <1>3, <1>4, <1>5, <1>6, <1>7, <1>8 DEF ReportGoesOn

LEMMA UndecidedKept ==
  ASSUME Typed, Routes, Turned, Moves, Numbered, Undecided, [Next]_vars
  PROVE  Undecided'
BY StepCases, UndecidedByAgent, UndecidedByReport

\* With nothing left in the queue, what an undecided turn was taken up by is the rest.
LEMMA UndecidedIs ==
  ASSUME Typed, Turned, Undecided
  PROVE  UndecidedIsTakenUp
<1> SUFFICES ASSUME Quiet, root.open, Len(PendingInputs(root)) = 0, past.undecided
             PROVE  root.escalated \/ root.turns >= MaxTurns \/ past.lost
  BY DEF UndecidedIsTakenUp
<1>1. root.inflight.ids = {} /\ root \in Roots
  BY NoUnitIs DEF Quiet, Turned, OneTurn, Typed
<1>2. PendingInputs(root) \in Seq(Inputs) /\ Range(PendingInputs(root)) = Range(root.inputs) \ Processed(root)
  BY <1>1, PendingIs
<1>3. Range(PendingInputs(root)) = {}
  BY <1>2 DEF Range
<1> QED BY <1>2, <1>3 DEF Undecided, TakenUp

-----------------------------------------------------------------------------
(* A budget that is spent is ended by somebody: the root is escalated, or the *)
(* failure was logged, or a report is about to close it, or the runtime waits  *)
(* for an answer, and the report it will send again marks its turn once more.  *)

Before == {"get", "act", "record", "mark"}
Awaited == agent.st = "report" /\ \A h \in Handlers : hs[h].run = agent.run => hs[h].pc \in Before \cup {"idle"}
Spent ==
  root.turns >= MaxTurns =>
    root.escalated \/ past.lost \/ past.abandoned \/ Awaited \/ \E h \in Handlers : hs[h].pc = "close"

LEMMA InitSpent == Init => Spent
<1> SUFFICES ASSUME Init PROVE Spent
  OBVIOUS
<1>1. root.turns = 0
  BY DEF Init
<1> QED BY <1>1, TurnBounds DEF Spent

LEMMA SpentLeft ==
  ASSUME Spent, root'.turns = root.turns, root.escalated => root'.escalated, past.lost => past'.lost,
         past.abandoned => past'.abandoned, agent' = agent \/ agent.st # "report",
         \A g \in Handlers : hs[g].pc = "close" => hs'[g].pc = "close",
         \A g \in Handlers : hs'[g] = hs[g] \/ hs'[g].pc \in Before \cup {"idle"}
  PROVE  Spent'
BY DEF Spent, Awaited

LEMMA SpentByAgent ==
  ASSUME Typed, Spent, LeavesTurn \/ Dispatch \/ AgentDies \/ AgentFinishes \/ VerbCarriedOut \/ VerbStamps \/ VerbFails
  PROVE  Spent'
<1>1. CASE LeavesTurn
  <2>1. past'.lost = past.lost /\ past'.abandoned = past.abandoned
    BY <1>1 DEF LeavesTurn, Typed, Pasts
  <2> QED BY <1>1, <2>1, SpentLeft DEF LeavesTurn
<1>2. CASE Dispatch
  BY <1>2, DispatchDoes, SpentLeft DEF SameBooks, SameDoor
<1>3. CASE AgentDies
  <2>1. /\ root'.turns = root.turns /\ root'.escalated = root.escalated /\ past'.lost = past.lost /\ hs' = hs
        /\ (past'.abandoned <=> past.abandoned \/ agent.st = "report")
    BY <1>3, AgentDiesDoes DEF SameBooks, SameDoor
  <2> QED BY <2>1, SpentLeft DEF Spent
<1>4. CASE AgentFinishes
  BY <1>4, AgentFinishesDoes, SpentLeft DEF SamePast
<1>5. CASE VerbCarriedOut
  BY <1>5, VerbCarriedOutDoes, SpentLeft DEF SameBooks
<1>6. CASE VerbStamps
  BY <1>6, VerbStampsDoes, SpentLeft DEF SameBooks, SameDoor, SamePast
<1>7. CASE VerbFails
  BY <1>7, VerbFailsDoes, SpentLeft DEF SamePast
<1> QED BY <1>1, <1>2, <1>3, <1>4, <1>5, <1>6, <1>7

LEMMA SpentByReport ==
  ASSUME Typed, Spent, NEW h \in Handlers, ReportRepeated(h) \/ ReportGoesOn(h) \/ ReportCut(h)
  PROVE  Spent'
<1>1. CASE ReportRepeated(h)
  <2> DEFINE q == [NoReport EXCEPT !.pc = "get", !.run = agent.run]
  <2>1. q.pc = "get"
    BY NoReportIs DEF Requests
  <2>2. hs' = [hs EXCEPT ![h] = q] /\ UNCHANGED <<root, agent, past>> /\ hs[h].pc = "idle"
    BY <1>1 DEF ReportRepeated, Takes, At
  <2> HIDE DEF q
  <2>3. hs'[h] = q /\ \A g \in Handlers \ {h} : hs'[g] = hs[g]
    BY <2>2 DEF Typed
  <2> QED BY <2>1, <2>2, <2>3, SpentLeft DEF Before
<1>2. CASE ReportGet(h)
  <2>1. PICK run \in Nat : Judges(h, run) /\ UNCHANGED <<root, agent>> /\ (At(h, "get") \/ At(h, "idle"))
    BY <1>2, ReportGetIs
  <2>2. hs'[h].pc = "act" /\ \A g \in Handlers \ {h} : hs'[g] = hs[g]
    BY <2>1, JudgesIs
  <2>3. past'.lost = past.lost /\ past'.abandoned = past.abandoned
    BY <2>1, JudgesPast
  <2> QED BY <2>1, <2>2, <2>3, SpentLeft DEF At, Before
<1>3. CASE ReportActs(h)
  <2>1. /\ At(h, "act") /\ root'.turns = root.turns /\ (root.escalated => root'.escalated) /\ (past.lost => past'.lost)
        /\ past'.abandoned = past.abandoned /\ agent' = agent
    BY <1>3, ReportActsDoes DEF SameBooks
  <2>2. hs'[h].pc = "record" /\ \A g \in Handlers \ {h} : hs'[g] = hs[g]
    BY <1>3, ReportActsIs
  <2> QED BY <2>1, <2>2, SpentLeft DEF At, Before
<1>4. CASE ReportRecords(h)
  BY <1>4, ReportRecordsDoes, SpentLeft DEF SameDoor, At, Before
<1>5. CASE ReportMarks(h)
  <2>1. root'.turns = root.turns + 1 /\ hs'[h].pc = (IF root.turns + 1 >= MaxTurns THEN "close" ELSE "answer")
    BY <1>5, ReportMarksIs
  <2> QED BY <2>1 DEF Spent
<1>6. CASE ReportCloses(h)
  BY <1>6, ReportClosesDoes DEF Spent
<1>7. CASE ReportAnswers(h)
  <2>1. /\ At(h, "answer") /\ UNCHANGED <<root, past>> /\ hs'[h] = NoReport
        /\ \A g \in Handlers \ {h} : hs'[g] = hs[g]
        /\ (agent.st = "report" /\ agent.run = hs[h].run) \/ agent' = agent
    BY <1>7, ReportAnswersIs DEF ReportAnswers
  <2>2. CASE agent' = agent
    BY <2>1, <2>2, NoReportIs, SpentLeft DEF At, Before
  <2>3. CASE agent.run = hs[h].run
    <3>1. ~Awaited
      BY <2>1, <2>3 DEF Awaited, At, Before
    <3>2. \A g \in Handlers : hs[g].pc = "close" => hs'[g].pc = "close"
      BY <2>1 DEF At
    <3> QED BY <2>1, <3>1, <3>2 DEF Spent
  <2> QED BY <2>1, <2>2, <2>3
<1>8. CASE ReportCut(h)
  <2>1. /\ UNCHANGED <<root, agent>> /\ hs'[h] = NoReport /\ past'.lost = past.lost
        /\ (past'.abandoned <=> past.abandoned \/ (At(h, "close") /\ ~ComesAgain(h)))
        /\ \A g \in Handlers \ {h} : hs'[g] = hs[g]
    BY <1>8, ReportCutIs DEF ReportCut
  <2>2. CASE ~At(h, "close")
    BY <2>1, <2>2, NoReportIs, SpentLeft DEF At
  <2>3. CASE At(h, "close")
    <3>1. ComesAgain(h) => Awaited'
      BY <2>1, NoReportIs DEF ComesAgain, Awaited, At
    <3> QED BY <2>1, <2>3, <3>1 DEF Spent
  <2> QED BY <2>2, <2>3
<1> QED BY <1>1, <1>2, <1>3, <1>4, <1>5, <1>6, <1>7, <1>8 DEF ReportGoesOn

LEMMA SpentKept ==
  ASSUME Typed, Routes, Spent, [Next]_vars
  PROVE  Spent'
BY StepCases, SpentByAgent, SpentByReport

-----------------------------------------------------------------------------
(* What is counted: a turn for each run.  A run is due its turn from when the   *)
(* agent has it; a report under way will mark one, and the agent will send one   *)
(* more if nobody serves its report yet.  Each fault costs one turn at most,     *)
(* and gives one too many at most.                                               *)

Underway == {h \in Handlers : hs[h].pc \in Before}
Marking == {h \in Handlers : hs[h].pc = "mark"}
Due == root.runs \cup {hs[h].run : h \in Underway} \cup (IF agent.st = "idle" THEN {} ELSE {agent.run})
Unreported == IF agent.st # "idle" /\ ~Serving(agent.run) THEN 1 ELSE 0
Counted ==
  /\ IsFiniteSet(Underway)
  /\ root.turns + Cardinality(Underway) + Unreported <= Cardinality(Due) + faults
  /\ Cardinality(root.runs) <= root.turns + Cardinality(Marking) + faults

LEMMA InitCounted == Init => Counted
<1> SUFFICES ASSUME Init PROVE Counted
  OBVIOUS
<1>1. /\ agent.st = "idle" /\ root.turns = 0 /\ root.runs = {} /\ faults = 0
      /\ \A h \in Handlers : hs[h].pc = "idle"
  BY NoReportIs DEF Init
<1>2. Underway = {} /\ Marking = {} /\ Unreported = 0
  BY <1>1 DEF Underway, Marking, Unreported, Before
<1>3. Due = {}
  BY <1>1, <1>2 DEF Due
<1> QED BY <1>1, <1>2, <1>3, FS_EmptySet DEF Counted

\* The sets are finite, and what is counted is numbers.
LEMMA CountsAre ==
  ASSUME Typed, Turned, Counted
  PROVE  /\ IsFiniteSet(Underway) /\ Cardinality(Underway) \in Nat
         /\ IsFiniteSet(Marking) /\ Cardinality(Marking) \in Nat
         /\ IsFiniteSet(Due) /\ Cardinality(Due) \in Nat /\ Due \subseteq 1..agent.run
         /\ IsFiniteSet(root.runs) /\ Cardinality(root.runs) \in Nat
         /\ Unreported \in {0, 1} /\ faults \in Nat /\ root.turns \in Nat
<1>0. agent.run \in Nat /\ faults \in Nat /\ root.turns \in Nat
  BY DEF Typed, Agents, Roots
<1>1. IsFiniteSet(Underway)
  BY DEF Counted
<1>2. Marking \in SUBSET Underway
  BY DEF Marking, Underway, Before
<1>3. IsFiniteSet(1..agent.run)
  BY <1>0, FS_Interval
<1>4. root.runs \in SUBSET (1..agent.run)
  BY DEF Turned, OneTurn
<1>5. Due \in SUBSET (1..agent.run)
  <2>1. \A h \in Underway : hs[h].run \in 1..agent.run
    BY DEF Underway, Before, Turned, Reports, ReportOf
  <2>2. agent.st # "idle" => agent.run \in 1..agent.run
    BY <1>0 DEF Turned, OneTurn
  <2> QED BY <1>4, <2>1, <2>2 DEF Due
<1>6. IsFiniteSet(Marking) /\ IsFiniteSet(Due) /\ IsFiniteSet(root.runs)
  BY <1>1, <1>2, <1>3, <1>4, <1>5, FS_Subset
<1>7. Unreported \in {0, 1}
  BY DEF Unreported
<1> QED BY <1>0, <1>1, <1>5, <1>6, <1>7, FS_CardinalityType

\* A set that loses one member at most.
LEMMA OneLess ==
  ASSUME NEW S, IsFiniteSet(S), NEW T \in SUBSET S, NEW x, S \ {x} \subseteq T
  PROVE  IsFiniteSet(T) /\ Cardinality(T) \in Nat /\ Cardinality(S) <= Cardinality(T) + 1
<1>1. IsFiniteSet(T)
  BY FS_Subset
<1>5. Cardinality(T) \in Nat
  BY <1>1, FS_CardinalityType
<1>2. IsFiniteSet(T \cup {x}) /\ Cardinality(T \cup {x}) <= Cardinality(T) + 1
  BY <1>1, <1>5, FS_AddElement
<1>3. S \in SUBSET (T \cup {x})
  OBVIOUS
<1>4. Cardinality(S) <= Cardinality(T \cup {x}) /\ Cardinality(S) \in Nat /\ Cardinality(T \cup {x}) \in Nat
  BY <1>2, <1>3, FS_Subset, FS_CardinalityType
<1> QED BY <1>1, <1>2, <1>4, <1>5

LEMMA UnionBound ==
  ASSUME NEW S, IsFiniteSet(S), NEW T, IsFiniteSet(T)
  PROVE  IsFiniteSet(S \cup T) /\ Cardinality(S \cup T) <= Cardinality(S) + Cardinality(T)
<1>1. S \cap T \in SUBSET S
  OBVIOUS
<1>2. IsFiniteSet(S \cap T)
  BY <1>1, FS_Subset
<1>3. Cardinality(S \cap T) \in Nat /\ Cardinality(S) \in Nat /\ Cardinality(T) \in Nat
  BY <1>2, FS_CardinalityType
<1>4. IsFiniteSet(S \cup T) /\ Cardinality(S \cup T) = Cardinality(S) + Cardinality(T) - Cardinality(S \cap T)
  BY FS_Union
<1> QED BY <1>3, <1>4

\* Nothing that is counted changes.
LEMMA CountedSame ==
  ASSUME Typed, Turned, Counted, Underway' = Underway, Marking' = Marking, Due' = Due, Unreported' = Unreported,
         root'.turns = root.turns, root'.runs = root.runs, faults <= faults', faults' \in Nat
  PROVE  Counted'
BY CountsAre DEF Counted

\* No report moves, and the agent is as busy as before.
LEMMA CountedLeft ==
  ASSUME Typed, Turned, Counted, hs' = hs, agent'.run = agent.run, agent'.st = "idle" <=> agent.st = "idle",
         root'.turns = root.turns, root'.runs = root.runs, faults <= faults', faults' \in Nat
  PROVE  Counted'
<1>1. Underway' = Underway /\ Marking' = Marking /\ Unreported' = Unreported
  BY DEF Underway, Marking, Unreported, Serving, At
<1>2. Due' = Due
  BY <1>1 DEF Due
<1> QED BY <1>1, <1>2, CountedSame

LEMMA CountedByAgent ==
  ASSUME Typed, Typed', Turned, Counted,
         LeavesTurn \/ Dispatch \/ AgentDies \/ AgentFinishes \/ VerbCarriedOut \/ VerbStamps \/ VerbFails
  PROVE  Counted'
<1>0. faults' \in Nat /\ faults \in Nat /\ agent.run \in Nat /\ agent.run = sent.run
  BY DEF Typed, Agents, Turned, OneTurn
<1>1. CASE LeavesTurn
  BY <1>0, <1>1, CountedLeft DEF LeavesTurn
<1>2. CASE Dispatch
  <2>1. /\ agent.st = "idle" /\ agent'.st = "busy" /\ agent'.run = agent.run + 1 /\ hs' = hs /\ faults' = faults
        /\ root'.runs = root.runs /\ root'.turns = root.turns
    BY <1>0, <1>2, DispatchDoes DEF SameBooks
  <2>2. Underway' = Underway /\ Marking' = Marking
    BY <2>1 DEF Underway, Marking
  <2>3. Unreported = 0 /\ Unreported' \in {0, 1}
    BY <2>1 DEF Unreported
  <2>4. Due' = Due \cup {agent.run + 1}
    BY <2>1, <2>2 DEF Due
  <2>5. agent.run + 1 \notin Due
    BY <1>0, CountsAre
  <2>6. Cardinality(Due') = Cardinality(Due) + 1
    BY <2>4, <2>5, CountsAre, FS_AddElement
  <2> QED BY <1>0, <2>1, <2>2, <2>3, <2>6, CountsAre DEF Counted
<1>3. CASE AgentDies
  <2>1. /\ agent.st # "idle" /\ agent'.st = "idle" /\ hs' = hs /\ faults' = faults + 1
        /\ root'.runs = root.runs /\ root'.turns = root.turns
    BY <1>3, AgentDiesDoes DEF SameBooks
  <2>2. Underway' = Underway /\ Marking' = Marking
    BY <2>1 DEF Underway, Marking
  <2>3. Unreported' = 0
    BY <2>1 DEF Unreported
  <2>4. Due' \in SUBSET Due /\ Due \ {agent.run} \subseteq Due'
    BY <2>1, <2>2 DEF Due
  <2>5. Cardinality(Due) <= Cardinality(Due') + 1 /\ Cardinality(Due') \in Nat
    BY <2>4, CountsAre, OneLess
  <2> QED BY <1>0, <2>1, <2>2, <2>3, <2>5, CountsAre DEF Counted
<1>4. CASE AgentFinishes
  <2>1. agent.st = "busy" /\ agent'.st = "report" /\ agent'.run = agent.run /\ UNCHANGED <<root, hs>> /\ faults <= faults'
    BY <1>4, AgentFinishesDoes
  <2> QED BY <1>0, <2>1, CountedLeft
<1>5. CASE VerbCarriedOut
  BY <1>0, <1>5, VerbCarriedOutDoes, CountedLeft DEF SameBooks
<1>6. CASE VerbStamps
  BY <1>0, <1>6, VerbStampsDoes, CountedLeft DEF SameBooks
<1>7. CASE VerbFails
  BY <1>0, <1>7, VerbFailsDoes, CountedLeft
<1> QED BY <1>1, <1>2, <1>3, <1>4, <1>5, <1>6, <1>7

\* A report that goes on is due the turn it was due.
LEMMA DueStays ==
  ASSUME NEW h \in Handlers, \A g \in Handlers \ {h} : hs'[g] = hs[g], hs'[h].run = hs[h].run,
         hs[h].pc # "idle", hs'[h].pc # "idle", agent' = agent,
         root.runs \subseteq root'.runs, root'.runs \subseteq root.runs \cup {hs[h].run},
         hs[h].pc \in Before \/ (hs[h].run \in root.runs /\ hs'[h].pc \notin Before),
         hs'[h].pc \in Before \/ hs[h].run \in root'.runs
  PROVE  Due' = Due /\ Unreported' = Unreported
<1>1. \A g \in Handlers : hs'[g].run = hs[g].run /\ (hs'[g].pc = "idle" <=> hs[g].pc = "idle")
  OBVIOUS
<1>2. Unreported' = Unreported
  BY <1>1 DEF Unreported, Serving, At
<1>3. Due' \subseteq Due
  BY <1>1 DEF Due, Underway
<1>4. Due \subseteq Due'
  BY <1>1 DEF Due, Underway
<1> QED BY <1>2, <1>3, <1>4

\* A report of the run the agent has is one more under way.
LEMMA DueJoined ==
  ASSUME NEW h \in Handlers, \A g \in Handlers \ {h} : hs'[g] = hs[g], hs[h].pc = "idle",
         hs'[h].run = agent.run, hs'[h].pc \in {"get", "act"}, agent.st = "report", UNCHANGED <<root, agent>>
  PROVE  Due' = Due /\ Unreported' = 0 /\ Marking' = Marking /\ Underway' = Underway \cup {h} /\ h \notin Underway
<1>1. Underway' = Underway \cup {h} /\ h \notin Underway /\ Marking' = Marking
  BY DEF Underway, Marking, Before
<1>2. \A g \in Underway : hs'[g].run = hs[g].run
  BY DEF Underway, Before
<1>3. Unreported' = 0
  BY DEF Unreported, Serving, At
<1>4. Due' \subseteq Due
  BY <1>1, <1>2 DEF Due
<1>5. Due \subseteq Due'
  BY <1>1, <1>2 DEF Due
<1> QED BY <1>1, <1>3, <1>4, <1>5

\* A report that is over.
LEMMA DueLeft ==
  ASSUME Typed, Turned, NEW h \in Handlers, \A g \in Handlers \ {h} : hs'[g] = hs[g], hs'[h] = NoReport, hs[h].pc # "idle",
         root' = root, agent'.run = agent.run,
         agent' = agent \/ (agent'.st = "idle" /\ hs[h].run = agent.run /\ hs[h].run \in root.runs)
  PROVE  /\ Underway' = Underway \ {h} /\ Marking' = Marking \ {h}
         /\ Due' \in SUBSET Due /\ Due \ {hs[h].run} \subseteq Due'
         /\ hs[h].pc \notin Before => Due' = Due
<1>0. Underway' = Underway \ {h} /\ Marking' = Marking \ {h}
  BY NoReportIs DEF Underway, Marking, Before
<1>1. \A g \in Underway \ {h} : hs'[g].run = hs[g].run
  BY DEF Underway
<1>2. Due' \in SUBSET Due
  BY <1>0, <1>1 DEF Due
<1>3. Due \ {hs[h].run} \subseteq Due'
  BY <1>0, <1>1 DEF Due
<1>4. ASSUME hs[h].pc \notin Before PROVE Due \subseteq Due'
  <2>1. Underway \ {h} = Underway
    BY <1>4 DEF Underway
  <2> QED BY <1>0, <1>1, <2>1 DEF Due
<1> QED BY <1>0, <1>2, <1>3, <1>4

LEMMA CountedByReport ==
  ASSUME Typed, Typed', Turned, Counted, NEW h \in Handlers, ReportRepeated(h) \/ ReportGoesOn(h) \/ ReportCut(h)
  PROVE  Counted'
<1>0. faults' \in Nat /\ faults \in Nat /\ ReportOf(hs[h]) /\ root.runs \in SUBSET Nat
  BY DEF Typed, Roots, Turned, Reports
<1>1. CASE ReportRepeated(h)
  <2> DEFINE q == [NoReport EXCEPT !.pc = "get", !.run = agent.run]
  <2>1. q.pc = "get" /\ q.run = agent.run
    BY NoReportIs DEF Requests
  <2>2. /\ hs' = [hs EXCEPT ![h] = q] /\ UNCHANGED <<root, agent>> /\ hs[h].pc = "idle" /\ agent.st = "report"
        /\ Serving(agent.run) /\ faults' = faults + 1
    BY <1>1 DEF ReportRepeated, Takes, At, Fault
  <2> HIDE DEF q
  <2>3. hs'[h] = q /\ \A g \in Handlers \ {h} : hs'[g] = hs[g]
    BY <2>2 DEF Typed
  <2>4. Due' = Due /\ Unreported' = 0 /\ Marking' = Marking /\ Underway' = Underway \cup {h} /\ h \notin Underway
    BY <2>1, <2>2, <2>3, DueJoined
  <2>5. IsFiniteSet(Underway') /\ Cardinality(Underway') = Cardinality(Underway) + 1
    BY <2>4, CountsAre, FS_AddElement
  <2>6. Unreported = 0
    BY <2>2 DEF Unreported
  <2> QED BY <2>2, <2>4, <2>5, <2>6, CountsAre DEF Counted
<1>2. CASE ReportGet(h)
  <2>1. PICK run \in Nat :
           /\ Judges(h, run)
           /\ (At(h, "get") /\ run = hs[h].run) \/ (At(h, "idle") /\ agent.st = "report" /\ run = agent.run)
           /\ UNCHANGED <<root, agent, verb, member, fast, back, sent, faults>>
    BY <1>2, ReportGetIs
  <2>2. hs'[h].pc = "act" /\ hs'[h].run = run /\ \A g \in Handlers \ {h} : hs'[g] = hs[g]
    BY <2>1, JudgesIs
  <2>3. CASE At(h, "get") /\ run = hs[h].run
    <3>1. Due' = Due /\ Unreported' = Unreported
      BY <2>1, <2>2, <2>3, DueStays DEF At, Before
    <3>2. Underway' = Underway /\ Marking' = Marking
      BY <2>2, <2>3 DEF Underway, Marking, Before, At
    <3> QED BY <1>0, <2>1, <3>1, <3>2, CountedSame
  <2>4. CASE At(h, "idle") /\ agent.st = "report" /\ run = agent.run
    <3>1. Due' = Due /\ Unreported' = 0 /\ Marking' = Marking /\ Underway' = Underway \cup {h} /\ h \notin Underway
      BY <2>1, <2>2, <2>4, DueJoined DEF At
    <3>2. IsFiniteSet(Underway') /\ Cardinality(Underway') = Cardinality(Underway) + 1
      BY <3>1, CountsAre, FS_AddElement
    <3>3. ~Serving(agent.run) \/ At(h, "get")
      BY <1>2 DEF ReportGet
    <3>4. Unreported = 1
      BY <2>4, <3>3 DEF Unreported, At
    <3> QED BY <2>1, <3>1, <3>2, <3>4, CountsAre DEF Counted
  <2> QED BY <2>1, <2>3, <2>4
<1>3. CASE ReportActs(h)
  <2>1. At(h, "act") /\ root'.turns = root.turns /\ root'.runs = root.runs /\ agent' = agent
    BY <1>3, ReportActsDoes DEF SameBooks
  <2>2. /\ hs'[h].pc = "record" /\ hs'[h].run = hs[h].run /\ (\A g \in Handlers \ {h} : hs'[g] = hs[g]) /\ faults <= faults'
    BY <1>3, ReportActsIs
  <2>3. Due' = Due /\ Unreported' = Unreported
    BY <2>1, <2>2, DueStays DEF At, Before
  <2>4. Underway' = Underway /\ Marking' = Marking
    BY <2>1, <2>2 DEF Underway, Marking, Before, At
  <2> QED BY <1>0, <2>1, <2>2, <2>3, <2>4, CountedSame
<1>4. CASE ReportRecords(h)
  <2>1. /\ At(h, "record") /\ root'.turns = root.turns /\ root'.runs = root.runs \cup {hs[h].run} /\ UNCHANGED <<agent, faults>>
        /\ hs'[h].pc = "mark" /\ hs'[h].run = hs[h].run /\ \A g \in Handlers \ {h} : hs'[g] = hs[g]
    BY <1>4, ReportRecordsDoes
  <2>2. Due' = Due /\ Unreported' = Unreported
    BY <2>1, DueStays DEF At, Before
  <2>3. Underway' = Underway /\ Marking' = Marking \cup {h} /\ h \notin Marking
    BY <2>1 DEF Underway, Marking, Before, At
  <2>4. Cardinality(Marking') = Cardinality(Marking) + 1
    BY <2>3, CountsAre, FS_AddElement
  <2>5. Cardinality(root'.runs) <= Cardinality(root.runs) + 1 /\ Cardinality(root'.runs) \in Nat
    <3>1. IsFiniteSet(root.runs) /\ Cardinality(root.runs) \in Nat
      BY CountsAre
    <3>2. Cardinality(root.runs \cup {hs[h].run}) \in {Cardinality(root.runs), Cardinality(root.runs) + 1}
      BY <3>1, FS_AddElement
    <3>3. root'.runs = root.runs \cup {hs[h].run}
      BY <2>1
    <3> QED BY <3>1, <3>2, <3>3
  <2> QED BY <2>1, <2>2, <2>3, <2>4, <2>5, CountsAre DEF Counted
<1>5. CASE ReportMarks(h)
  <2>1. At(h, "mark") /\ agent' = agent /\ faults' = faults
    BY <1>5 DEF ReportMarks
  <2>2. /\ hs'[h].run = hs[h].run /\ hs'[h].pc \in {"close", "answer"} /\ \A g \in Handlers \ {h} : hs'[g] = hs[g]
        /\ root'.turns = root.turns + 1 /\ root'.runs = root.runs
    BY <1>5, ReportMarksIs
  <2>3. Due' = Due /\ Unreported' = Unreported
    BY <1>0, <2>1, <2>2, DueStays DEF At, Before, ReportOf
  <2>4. Underway' = Underway \ {h} /\ h \in Underway /\ Marking' = Marking \ {h} /\ h \in Marking
    BY <2>1, <2>2 DEF Underway, Marking, Before, At
  <2>5. /\ IsFiniteSet(Underway') /\ Cardinality(Underway') = Cardinality(Underway) - 1
        /\ Cardinality(Marking') = Cardinality(Marking) - 1
    BY <2>4, CountsAre, FS_RemoveElement
  <2> QED BY <2>1, <2>2, <2>3, <2>5, CountsAre DEF Counted
<1>6. CASE ReportCloses(h)
  <2>1. At(h, "close") /\ root'.turns = root.turns /\ root'.runs = root.runs /\ agent' = agent
    BY <1>6, ReportClosesDoes DEF SameBooks
  <2>2. hs'[h].pc = "answer" /\ hs'[h].run = hs[h].run /\ (\A g \in Handlers \ {h} : hs'[g] = hs[g]) /\ faults <= faults'
    BY <1>6, ReportClosesIs
  <2>3. Due' = Due /\ Unreported' = Unreported
    BY <1>0, <2>1, <2>2, DueStays DEF At, Before, ReportOf
  <2>4. Underway' = Underway /\ Marking' = Marking
    BY <2>1, <2>2 DEF Underway, Marking, Before, At
  <2> QED BY <1>0, <2>1, <2>2, <2>3, <2>4, CountedSame
<1>7. CASE ReportAnswers(h)
  <2>1. /\ At(h, "answer") /\ root' = root /\ agent'.run = agent.run /\ hs'[h] = NoReport
        /\ \A g \in Handlers \ {h} : hs'[g] = hs[g]
        /\ \/ agent.st = "report" /\ agent.run = hs[h].run /\ agent'.st = "idle" /\ faults' = faults
           \/ ~(agent.st = "report" /\ agent.run = hs[h].run) /\ agent' = agent /\ faults' = faults
           \/ agent' = agent /\ faults' = faults + 1
    BY <1>7, ReportAnswersIs DEF ReportAnswers
  <2>2. hs[h].run \in root.runs /\ (agent.st = "busy" => hs[h].run # agent.run)
    BY <1>0, <2>1 DEF At, ReportOf
  <2>3. Underway' = Underway \ {h} /\ Marking' = Marking \ {h} /\ Due' = Due
    BY <2>1, <2>2, DueLeft DEF At, Before
  <2>4. Underway \ {h} = Underway /\ Marking \ {h} = Marking
    BY <2>1 DEF At, Underway, Marking, Before
  <2>5. Unreported' \in {0, 1} /\ (agent'.st = "idle" => Unreported' = 0)
    BY DEF Unreported
  <2>6. ASSUME ~(agent.st = "report" /\ agent.run = hs[h].run), agent' = agent PROVE Unreported' = Unreported
    <3>1. agent.st \in {"idle", "busy", "report"}
      BY DEF Typed, Agents
    <3>2. agent.st # "idle" => agent.run # hs[h].run
      BY <2>2, <2>6, <3>1
    <3>3. agent.st # "idle" => (Serving(agent.run)' <=> Serving(agent.run))
      BY <2>1, <2>6, <3>2, NoReportIs DEF Serving, At
    <3> QED BY <2>6, <3>3 DEF Unreported
  <2>7. Unreported' + faults <= Unreported + faults' /\ faults <= faults' /\ Unreported' \in {0, 1}
    BY <1>0, <2>1, <2>5, <2>6, CountsAre
  <2>8. Underway' = Underway /\ Marking' = Marking /\ Due' = Due /\ root' = root
    BY <2>1, <2>3, <2>4
  <2> QED BY <1>0, <2>7, <2>8, CountsAre DEF Counted
<1>8. CASE ReportCut(h)
  <2>1. /\ hs[h].pc # "idle" /\ UNCHANGED <<root, agent>> /\ hs'[h] = NoReport
        /\ (\A g \in Handlers \ {h} : hs'[g] = hs[g]) /\ faults' = faults + 1
    BY <1>8, ReportCutIs DEF ReportCut, At
  <2>2. /\ Underway' = Underway \ {h} /\ Marking' = Marking \ {h}
        /\ Due' \in SUBSET Due /\ Due \ {hs[h].run} \subseteq Due'
        /\ hs[h].pc \notin Before => Due' = Due
    BY <2>1, DueLeft
  <2>3. Unreported' \in {0, 1}
    BY DEF Unreported
  <2>4. Cardinality(Due) <= Cardinality(Due') + 1 /\ Cardinality(Due') \in Nat
    BY <2>2, CountsAre, OneLess
  <2>5. /\ IsFiniteSet(Underway')
        /\ Cardinality(Underway') = IF h \in Underway THEN Cardinality(Underway) - 1 ELSE Cardinality(Underway)
    BY <2>2, CountsAre, FS_RemoveElement
  <2>6. Cardinality(Marking') \in Nat /\ Cardinality(Marking) <= Cardinality(Marking') + 1
    <3>1. Marking \ {h} \in SUBSET Marking
      OBVIOUS
    <3> QED BY <2>2, <3>1, CountsAre, OneLess
  <2>7. h \notin Underway => Due' = Due
    BY <2>2 DEF Underway
  <2>8. root'.turns + Cardinality(Underway') + Unreported' <= Cardinality(Due') + faults'
    <3>1. CASE h \in Underway
      BY <2>1, <2>3, <2>4, <2>5, <3>1, CountsAre DEF Counted
    <3>2. CASE h \notin Underway
      BY <2>1, <2>3, <2>5, <2>7, <3>2, CountsAre DEF Counted
    <3> QED BY <3>1, <3>2
  <2>9. Cardinality(root'.runs) <= root'.turns + Cardinality(Marking') + faults'
    BY <2>1, <2>6, CountsAre DEF Counted
  <2> QED BY <2>5, <2>8, <2>9 DEF Counted
<1> QED BY <1>1, <1>2, <1>3, <1>4, <1>5, <1>6, <1>7, <1>8 DEF ReportGoesOn

LEMMA CountedKept ==
  ASSUME Typed, Routes, Turned, Counted, [Next]_vars
  PROVE  Counted'
BY StepCases, TypedKept, CountedByAgent, CountedByReport

\* Each run that is due a turn is one of the recorded, or a report's under way, or the
\* agent's, which is to send its report.
LEMMA DueBound ==
  ASSUME Typed, Turned, Counted
  PROVE  Cardinality(Due) <= Cardinality(root.runs) + Cardinality(Underway) + Unreported
<1> DEFINE theirs == {hs[h].run : h \in Underway}
           its == IF agent.st # "idle" /\ ~Serving(agent.run) THEN {agent.run} ELSE {}
<1>1. IsFiniteSet(theirs) /\ Cardinality(theirs) \in Nat /\ Cardinality(theirs) <= Cardinality(Underway)
  <2> DEFINE f == [h \in Underway |-> hs[h].run]
  <2>1. f \in Surjection(Underway, theirs)
    BY DEF Surjection
  <2>2. IsFiniteSet(Underway)
    BY CountsAre
  <2> HIDE DEF f, theirs
  <2> QED BY <2>1, <2>2, FS_Surjection, FS_CardinalityType
<1>2. IsFiniteSet(its) /\ Cardinality(its) = Unreported
  BY FS_Singleton, FS_EmptySet DEF Unreported
<1>3. Due \subseteq (root.runs \cup theirs) \cup its
  <2>1. ASSUME agent.st # "idle", Serving(agent.run) PROVE agent.run \in root.runs \cup theirs
    <3>1. PICK h \in Handlers : hs[h].pc # "idle" /\ hs[h].run = agent.run
      BY <2>1 DEF Serving, At
    <3>2. hs[h].pc \in Pcs /\ ReportOf(hs[h])
      BY DEF Typed, Requests, Turned, Reports
    <3>3. CASE hs[h].pc \in Before
      BY <3>1, <3>3 DEF Underway
    <3>4. CASE hs[h].pc \in {"close", "answer"}
      BY <3>1, <3>2, <3>4 DEF ReportOf
    <3> QED BY <3>1, <3>2, <3>3, <3>4 DEF Pcs, Before
  <2> QED BY <2>1 DEF Due
<1> HIDE DEF theirs, its
<1>4. /\ IsFiniteSet(root.runs) /\ Cardinality(root.runs) \in Nat /\ Cardinality(Underway) \in Nat
      /\ IsFiniteSet(Due) /\ Unreported \in {0, 1}
  BY CountsAre
<1>5. IsFiniteSet(root.runs \cup theirs) /\ Cardinality(root.runs \cup theirs) <= Cardinality(root.runs) + Cardinality(theirs)
  BY <1>1, <1>4, UnionBound
<1>6. /\ IsFiniteSet((root.runs \cup theirs) \cup its)
      /\ Cardinality((root.runs \cup theirs) \cup its) <= Cardinality(root.runs \cup theirs) + Cardinality(its)
  BY <1>2, <1>5, UnionBound
<1>7. Cardinality(Due) <= Cardinality((root.runs \cup theirs) \cup its)
  BY <1>3, <1>6, FS_Subset
<1>8. Cardinality(Due) \in Nat /\ Cardinality((root.runs \cup theirs) \cup its) \in Nat /\ Cardinality(root.runs \cup theirs) \in Nat
  BY <1>4, <1>5, <1>6, FS_CardinalityType
<1> QED BY <1>1, <1>2, <1>4, <1>5, <1>6, <1>7, <1>8

LEMMA BudgetIs ==
  ASSUME Typed, Turned, Spent, Counted
  PROVE  BudgetEnds
<1>1. Quiet /\ root.turns >= MaxTurns => root.escalated \/ past.lost \/ past.abandoned
  BY DEF Quiet, At, Spent, Awaited
<1>2. root.turns <= Cardinality(root.runs) + faults
  BY DueBound, CountsAre DEF Counted
<1>3. Quiet => Cardinality(root.runs) <= root.turns + faults
  <2>1. Quiet => Marking = {}
    BY DEF Quiet, At, Marking
  <2> QED BY <2>1, CountsAre, FS_EmptySet DEF Counted
<1> QED BY <1>1, <1>2, <1>3 DEF BudgetEnds

-----------------------------------------------------------------------------
(* What is in hand is not among what the record keeps of the done: only a       *)
(* dispatch takes inputs up.                                                     *)

Apart == Processed(root) \cap root.inflight.ids = {}

\* What a report calls done is what was in hand, in the order of the queue.
Completes ==
  \E ids \in SUBSET root.inflight.ids :
    root'.done = root.done \o InOrder(root, ids) /\ Processed(root') \subseteq Processed(root) \cup ids

\* What a step may take up, and what it may call done.
LEMMA TakesUp ==
  ASSUME Typed, Routes, Turned, [Next]_vars
  PROVE  \/ root'.inflight.ids \subseteq root.inflight.ids /\ SameDone
         \/ root'.inflight.ids \subseteq Range(root.inputs) \ Processed(root) /\ SameDone
         \/ root'.inflight = root.inflight /\ root'.inputs = root.inputs /\ Completes /\ Processed(root') \subseteq Processed(root)
         \/ root'.inflight.ids = {} /\ root'.inputs = root.inputs /\ Completes
<1>0. NoUnit.ids = {}
  BY NoUnitIs
<1>1. CASE LeavesTurn
  BY <1>1 DEF LeavesTurn
<1>2. CASE Dispatch
  BY <1>2, DispatchDoes DEF SameBooks
<1>3. CASE AgentDies
  BY <1>0, <1>3, AgentDiesDoes DEF SameBooks
<1>4. CASE AgentFinishes \/ VerbFails
  BY <1>4, AgentFinishesDoes, VerbFailsDoes, DoneStays
<1>5. CASE VerbCarriedOut
  BY <1>5, VerbCarriedOutDoes DEF SameBooks
<1>6. CASE VerbStamps
  BY <1>6, VerbStampsDoes DEF SameBooks
<1>7. ASSUME NEW h \in Handlers, ReportRepeated(h) \/ ReportGoesOn(h) \/ ReportCut(h)
      PROVE  \/ root'.inflight = root.inflight /\ SameDone
             \/ /\ root'.inflight = root.inflight /\ root'.inputs = root.inputs /\ Completes
                /\ Processed(root') \subseteq Processed(root)
             \/ root'.inflight.ids = {} /\ root'.inputs = root.inputs /\ Completes
  <2>1. CASE ReportRepeated(h) \/ ReportGet(h) \/ ReportAnswers(h) \/ ReportCut(h)
    BY <2>1, DoneStays DEF ReportRepeated, ReportGet, ReportAnswers, ReportCut
  <2>2. CASE ReportActs(h)
    BY <2>2, ReportActsDoes DEF SameBooks
  <2>3. CASE ReportRecords(h)
    BY <2>3, ReportRecordsDoes
  <2>4. CASE ReportMarks(h)
    <3> DEFINE ids == IF root.inflight.run = hs[h].run THEN root.inflight.ids ELSE {}
    <3>1. /\ root'.done = root.done \o InOrder(root, ids) /\ Processed(root') \subseteq Processed(root) \cup ids
          /\ root'.inputs = root.inputs
          /\ root'.inflight = (IF root.inflight.run = hs[h].run THEN NoUnit ELSE root.inflight)
      BY <2>4, ReportMarksIs
    <3>2. ids \in SUBSET root.inflight.ids
      OBVIOUS
    <3> HIDE DEF ids
    <3>3. Completes
      BY <3>1, <3>2 DEF Completes
    <3>4. root.inflight.run # hs[h].run => ids = {}
      BY DEF ids
    <3> QED BY <1>0, <3>1, <3>3, <3>4
  <2>5. CASE ReportCloses(h)
    BY <2>5, ReportClosesDoes DEF SameBooks
  <2> QED BY <1>7, <2>1, <2>2, <2>3, <2>4, <2>5 DEF ReportGoesOn
<1> QED BY <1>1, <1>2, <1>3, <1>4, <1>5, <1>6, <1>7, StepCases

-----------------------------------------------------------------------------
(* The queue: an input is there once, and what is done was done in its order.   *)

Distinct(s) == \A j, k \in 1..Len(s) : s[j] = s[k] => j = k

LEMMA AppendDistinct ==
  ASSUME NEW T, NEW s \in Seq(T), Distinct(s), NEW e \in T, e \notin Range(s)
  PROVE  Distinct(Append(s, e))
<1>1. /\ Len(s) \in Nat /\ Len(Append(s, e)) = Len(s) + 1 /\ Append(s, e)[Len(s) + 1] = e
      /\ \A k \in 1..Len(s) : Append(s, e)[k] = s[k] /\ s[k] # e
  BY DEF Range
<1> DEFINE t == Append(s, e)
<1> HIDE DEF t
<1> QED BY <1>1 DEF Distinct, t

LEMMA WithoutDistinct ==
  ASSUME NEW T, NEW s \in Seq(T), NEW D, Distinct(s)
  PROVE  Distinct(Without(s, D))
<1>1. PICK kept \in [0..Len(s) -> Seq(T)] :
        Without(s, D) = kept[Len(s)] /\ \A n \in 0..Len(s) : kept[n] = Step(s, D, kept, n)
  BY WithoutIs
<1> DEFINE Good(n) == Distinct(kept[n]) /\ Range(kept[n]) \subseteq {s[k] : k \in 1..n}
           Bad == {n \in 0..Len(s) : ~Good(n)}
<1>2. Bad = {}
  <2>1. SUFFICES ASSUME Bad # {} PROVE FALSE
    OBVIOUS
  <2>2. Bad \in SUBSET Nat
    OBVIOUS
  <2>3. PICK n \in Bad : \A k \in Bad : n <= k
    BY <2>1, <2>2, NatMin
  <2>4. n \in 0..Len(s) /\ Len(s) \in Nat
    BY <2>3
  <2>5. n # 0
    <3>1. kept[0] = <<>>
      BY <1>1 DEF Step
    <3>2. Good(0)
      BY <3>1 DEF Range, Distinct
    <3> QED BY <2>3, <3>2
  <2>6. n - 1 \in 0..Len(s) /\ n \in 1..Len(s) /\ n - 1 \notin Bad
    <3>1. n - 1 \in 0..Len(s) /\ n \in 1..Len(s) /\ ~(n <= n - 1)
      BY <2>4, <2>5
    <3> QED BY <3>1, <2>3
  <2>7. kept[n - 1] \in Seq(T) /\ s[n] \in T /\ Good(n - 1)
    BY <2>6
  <2>8. kept[n] = IF s[n] \in D THEN kept[n - 1] ELSE Append(kept[n - 1], s[n])
    BY <1>1, <2>4, <2>5 DEF Step
  <2>9. s[n] \notin {s[k] : k \in 1..(n - 1)}
    BY <2>6 DEF Distinct
  <2>10. {s[k] : k \in 1..n} = {s[k] : k \in 1..(n - 1)} \cup {s[n]}
    <3>1. 1..n = 1..(n - 1) \cup {n}
      BY <2>6
    <3> QED BY <3>1
  <2>11. Distinct(Append(kept[n - 1], s[n])) /\ Range(Append(kept[n - 1], s[n])) = Range(kept[n - 1]) \cup {s[n]}
    BY <2>7, <2>9, AppendIs, AppendDistinct
  <2>12. Good(n)
    BY <2>7, <2>8, <2>10, <2>11
  <2> QED BY <2>3, <2>12
<1>3. Len(s) \in 0..Len(s)
  OBVIOUS
<1> QED BY <1>1, <1>2, <1>3

\* How the queue moves: an input that is not there comes last, or the done go.
QueueMoves ==
  \/ root'.inputs = root.inputs
  \/ \E i \in Inputs : i \notin Range(root.inputs) /\ root'.inputs = Append(root.inputs, i)
  \/ root'.inputs = Without(root.inputs, Processed(root))

LEMMA AppendedMoves ==
  ASSUME root \in Roots, NEW i \in Inputs, root' = Appended(root, i)
  PROVE  QueueMoves
<1>1. CASE root.open /\ i \notin Range(root.inputs)
  <2>1. root'.inputs = Append(root.inputs, i)
    BY <1>1 DEF Appended, Roots
  <2> QED BY <1>1, <2>1 DEF QueueMoves
<1>2. CASE ~(root.open /\ i \notin Range(root.inputs))
  BY <1>2 DEF Appended, QueueMoves
<1> QED BY <1>1, <1>2

LEMMA QueueOnlyMoves ==
  ASSUME Typed, Routes, [Next]_vars
  PROVE  QueueMoves
<1>0. root \in Roots /\ hs \in [Handlers -> Requests]
  BY DEF Typed
<1>1. CASE PersonTypes
  <2>1. PICK n \in Nat : root' = Appended(root, <<"message", n>>)
    BY <1>1, PersonTypesIs
  <2> QED BY <1>0, <2>1, AppendedMoves DEF Inputs
<1>2. CASE Prune
  BY <1>0, <1>2 DEF Prune, QueueMoves, Roots
<1>3. CASE FastAppends
  <2>1. Least(fast.todo) \in Nat
    BY <1>3, LeastIs DEF Typed, Routes, Routings, FastAppends
  <2> QED BY <1>0, <1>3, <2>1, AppendedMoves DEF FastAppends, Routed, Inputs
<1>4. CASE BackstopAppends
  <2>1. Least(back.todo) \in Nat
    BY <1>4, LeastIs DEF Typed, Routes, Routings, BackstopAppends
  <2> QED BY <1>0, <1>4, <2>1, AppendedMoves DEF BackstopAppends, Routed, Inputs
<1>5. ASSUME NEW h \in Handlers, ReportActs(h) PROVE QueueMoves
  <2>1. \/ root' = Appended(root, <<"manager", hs[h].run>>) \/ root' = [root EXCEPT !.escalated = TRUE] \/ root' = root
    BY <1>0, <1>5 DEF ReportActs, Requests, Verdicts, Typed
  <2>2. <<"manager", hs[h].run>> \in Inputs
    BY <1>0 DEF Requests, Inputs
  <2> QED BY <1>0, <2>1, <2>2, AppendedMoves DEF QueueMoves, Roots
<1>6. CASE PersonCloses \/ Dispatch \/ AgentDies \/ VerbStamps
  BY <1>0, <1>6, DispatchDoes, AgentDiesDoes, VerbStampsDoes DEF PersonCloses, QueueMoves, SameDoor, Roots
<1>7. CASE AgentFinishes \/ VerbCarriedOut \/ VerbFails
  BY <1>7, VerbCarriedOutDoes, AgentFinishesDoes, VerbFailsDoes DEF QueueMoves
<1>8. ASSUME NEW h \in Handlers, ReportRepeated(h) \/ ReportGet(h) \/ ReportAnswers(h) \/ ReportCut(h) PROVE QueueMoves
  BY <1>8 DEF ReportRepeated, ReportGet, ReportAnswers, ReportCut, QueueMoves
<1>9. ASSUME NEW h \in Handlers, ReportRecords(h) \/ ReportMarks(h) \/ ReportCloses(h) PROVE QueueMoves
  BY <1>9, ReportRecordsDoes, ReportMarksIs, ReportClosesDoes DEF SameDoor, QueueMoves
<1>10. CASE MemberReports \/ FastMarks \/ BackstopReads \/ BackstopMarks \/ BackstopFails \/ RoutingCut \/ UNCHANGED vars
  BY <1>10 DEF MemberReports, FastMarks, BackstopReads, BackstopMarks, BackstopFails, RoutingCut, vars, QueueMoves
<1> QED BY <1>1, <1>2, <1>3, <1>4, <1>5, <1>6, <1>7, <1>8, <1>9, <1>10 DEF Next, Routing, ReportGoesOn

LEMMA DistinctKept ==
  ASSUME Typed, Distinct(root.inputs), QueueMoves
  PROVE  Distinct(root.inputs)'
<1>1. root.inputs \in Seq(Inputs)
  BY DEF Typed, Roots
<1>2. Distinct(root'.inputs)
  BY <1>1, AppendDistinct, WithoutDistinct DEF QueueMoves
<1> QED BY <1>2 DEF Distinct

\* What was done a little ago is not done again.
LEMMA WorkedAgainKept ==
  ASSUME Typed, Apart, Distinct(root.inputs), WorkedAgainLate, SameDone \/ Completes
  PROVE  WorkedAgainLate'
<1>1. CASE SameDone
  BY <1>1 DEF SameDone, WorkedAgainLate
<1>2. CASE Completes
  <2>1. PICK ids \in SUBSET root.inflight.ids : root'.done = root.done \o InOrder(root, ids)
    BY <1>2 DEF Completes
  <2> DEFINE more == InOrder(root, ids)
             d == root.done
             e == root'.done
  <2>2. more \in Seq(Inputs) /\ Range(more) \subseteq ids /\ d \in Seq(Inputs) /\ root.inputs \in Seq(Inputs)
    BY OrderedIs DEF Typed, Roots
  <2>3. Distinct(more)
    BY <2>2, WithoutDistinct DEF InOrder
  <2>4. e = d \o more
    BY <2>1
  <2> HIDE DEF more
  <2>5. /\ Len(d) \in Nat /\ Len(more) \in Nat /\ Len(e) = Len(d) + Len(more) /\ ProcessedKept \in Nat
        /\ \A k \in 1..Len(d) : e[k] = d[k]
        /\ \A k \in 1..Len(e) : k > Len(d) => e[k] = more[k - Len(d)] /\ k - Len(d) \in 1..Len(more)
    BY <2>2, <2>4, TurnBounds
  <2>6. ASSUME NEW a \in 1..Len(e), NEW b \in 1..Len(e), a < b, e[a] = e[b] PROVE b > a + ProcessedKept
    <3>1. CASE b <= Len(d)
      BY <2>5, <2>6, <3>1 DEF WorkedAgainLate
    <3>2. CASE a > Len(d)
      <4>1. more[a - Len(d)] = more[b - Len(d)] /\ a - Len(d) \in 1..Len(more) /\ b - Len(d) \in 1..Len(more)
        BY <2>5, <2>6, <3>2
      <4>2. a - Len(d) = b - Len(d)
        BY <2>3, <4>1 DEF Distinct
      <4> QED BY <2>5, <2>6, <4>2
    <3>3. CASE a <= Len(d) /\ b > Len(d)
      <4>1. e[b] = more[b - Len(d)] /\ b - Len(d) \in 1..Len(more)
        BY <2>5, <3>3
      <4>2. more[b - Len(d)] \in Range(more)
        BY <2>2, <4>1 DEF Range
      <4>3. d[a] \notin Processed(root)
        BY <2>2, <2>5, <2>6, <3>3, <4>1, <4>2 DEF Apart
      <4>4. ~(a + ProcessedKept > Len(d))
        BY <2>2, <2>5, <3>3, <4>3 DEF Processed
      <4> QED BY <2>5, <3>3, <4>4
    <3> QED BY <2>5, <3>1, <3>2, <3>3
  <2> QED BY <2>6 DEF WorkedAgainLate
<1> QED BY <1>1, <1>2

-----------------------------------------------------------------------------
(* What a member answered is taken in before it is marked.                      *)

Here(n) == <<"result", n>> \in Range(root.inputs) \cup Range(root.done)

TakenIn ==
  /\ root.open => /\ \A n \in member.routed : Here(n)
                  /\ fast.pc = "mark" => Here(Least(fast.todo))
                  /\ back.pc = "mark" => Here(Least(back.todo))
  /\ fast.pc # "idle" => fast.todo = {Least(fast.todo)}

\* An input that came stays, or was worked on.
LEMMA HereStays ==
  ASSUME Typed, QueueMoves, SameDone \/ Completes, NEW n \in Nat, Here(n)
  PROVE  Here(n)'
<1>1. root.inputs \in Seq(Inputs) /\ root.done \in Seq(Inputs) /\ root \in Roots
  BY DEF Typed, Roots
<1>2. Range(root.done) \subseteq Range(root'.done)
  <2>1. CASE SameDone
    BY <2>1 DEF SameDone
  <2>2. CASE Completes
    <3>1. PICK s \in Seq(Inputs) : root'.done = root.done \o s
      BY <1>1, <2>2, OrderedIs DEF Completes
    <3>2. /\ Len(root.done) \in Nat /\ Len(s) \in Nat /\ DOMAIN root.done = 1..Len(root.done)
          /\ DOMAIN root'.done = 1..(Len(root.done) + Len(s))
          /\ \A k \in 1..Len(root.done) : root'.done[k] = root.done[k] /\ k \in 1..(Len(root.done) + Len(s))
      BY <1>1, <3>1
    <3> QED BY <3>2 DEF Range
  <2> QED BY <2>1, <2>2
<1>3. Range(root.inputs) \subseteq Range(root'.inputs) \cup Range(root.done)
  <2>1. ASSUME NEW i \in Inputs, root'.inputs = Append(root.inputs, i) PROVE Range(root.inputs) \subseteq Range(root'.inputs)
    BY <1>1, <2>1, AppendIs
  <2>2. Range(Without(root.inputs, Processed(root))) = Range(root.inputs) \ Processed(root)
    BY <1>1, WithoutKeeps
  <2>3. Processed(root) \subseteq Range(root.done)
    BY <1>1, ProcessedIs
  <2> QED BY <2>1, <2>2, <2>3 DEF QueueMoves
<1> QED BY <1>2, <1>3 DEF Here

\* A result is with the root once it was appended, if the root was open.
LEMMA RoutedHere ==
  ASSUME Typed, NEW n \in Nat, Routed(n), root.open
  PROVE  Here(n)'
<1>1. <<"result", n>> \in Inputs
  BY DEF Inputs
<1>2. <<"result", n>> \in Range(root'.inputs)
  BY <1>1, AppendedIs DEF Typed, Routed
<1> QED BY <1>2 DEF Here

LEMMA OpenStays ==
  ASSUME Typed, Routes, [Next]_vars
  PROVE  root'.open => root.open
<1>1. CASE LeavesTurn
  BY <1>1 DEF LeavesTurn
<1>2. CASE Dispatch \/ AgentDies \/ AgentFinishes \/ VerbCarriedOut \/ VerbStamps \/ VerbFails
  BY <1>2, DispatchDoes, AgentDiesDoes, AgentFinishesDoes, VerbCarriedOutDoes, VerbStampsDoes, VerbFailsDoes DEF SameDoor
<1>3. ASSUME NEW h \in Handlers, ReportRepeated(h) \/ ReportGoesOn(h) \/ ReportCut(h) PROVE root'.open = root.open
  <2>1. CASE ReportRepeated(h) \/ ReportGet(h) \/ ReportAnswers(h) \/ ReportCut(h)
    BY <2>1 DEF ReportRepeated, ReportGet, ReportAnswers, ReportCut
  <2>2. CASE ReportActs(h) \/ ReportRecords(h) \/ ReportMarks(h) \/ ReportCloses(h)
    BY <2>2, ReportActsDoes, ReportRecordsDoes, ReportMarksIs, ReportClosesDoes DEF SameDoor
  <2> QED BY <1>3, <2>1, <2>2 DEF ReportGoesOn
<1> QED BY <1>1, <1>2, <1>3, StepCases

LEMMA TakenInKept ==
  ASSUME Typed, Routes, TakenIn, QueueMoves, SameDone \/ Completes, [Next]_vars
  PROVE  TakenIn'
<1>0. /\ member \in Members /\ fast \in Routings /\ back \in Routings /\ member.routed \subseteq Nat
      /\ NoRouting.pc = "idle" /\ NoRouting.todo = {}
  BY DEF Typed, Members, NoRouting
<1>1. root'.open => root.open
  BY OpenStays
<1>2. \A n \in Nat : Here(n) => Here(n)'
  BY HereStays
<1>f. fast.pc # "idle" => Least(fast.todo) \in Nat /\ fast.todo = {Least(fast.todo)}
  BY <1>0, LeastIs DEF Routes, Routings, TakenIn
<1>b. back.pc # "idle" => Least(back.todo) \in back.todo /\ Least(back.todo) \in Nat
  BY <1>0, LeastIs DEF Routes, Routings
<1>3. ASSUME member'.routed = member.routed, fast' = fast \/ fast'.pc = "idle", back' = back \/ back'.pc # "mark" PROVE TakenIn'
  BY <1>0, <1>1, <1>2, <1>3, <1>f, <1>b DEF TakenIn
<1>4. CASE MemberReports
  <2>1. fast'.pc = "append" /\ fast'.todo = {member'.runs} /\ back' = back /\ member'.routed = member.routed
    BY <1>0, <1>4 DEF MemberReports, Members
  <2>2. Least({member'.runs}) = member'.runs
    <3>1. member'.runs \in Nat
      BY <1>0, <1>4 DEF MemberReports, Members
    <3>2. {member'.runs} \in SUBSET Nat
      BY <3>1
    <3> QED BY <3>2, LeastIs
  <2> QED BY <1>0, <1>1, <1>2, <1>b, <2>1, <2>2 DEF TakenIn
<1>5. CASE FastAppends
  <2>1. /\ fast'.pc = "mark" /\ fast'.todo = fast.todo /\ fast.pc # "idle" /\ back' = back /\ member' = member
        /\ Routed(Least(fast.todo))
    BY <1>0, <1>5 DEF FastAppends, Routings
  <2>2. root.open => Here(Least(fast.todo))'
    BY <1>f, <2>1, RoutedHere
  <2> QED BY <1>0, <1>1, <1>2, <1>b, <1>f, <2>1, <2>2 DEF TakenIn, Here
<1>6. CASE FastMarks
  <2>1. fast.pc = "mark" /\ fast'.pc = "idle" /\ back' = back /\ member'.routed = member.routed \cup fast.todo
    BY <1>0, <1>6 DEF FastMarks, Members
  <2>2. ASSUME NEW n \in member'.routed, root.open PROVE Here(n)'
    BY <1>0, <1>2, <1>f, <2>1, <2>2 DEF TakenIn
  <2> QED BY <1>1, <1>2, <1>b, <2>1, <2>2 DEF TakenIn
<1>7. CASE BackstopReads
  BY <1>3, <1>7 DEF BackstopReads
<1>8. CASE BackstopAppends
  <2>1. /\ back'.pc = "mark" /\ back'.todo = back.todo /\ back.pc # "idle" /\ fast' = fast /\ member' = member
        /\ Routed(Least(back.todo))
    BY <1>0, <1>8 DEF BackstopAppends, Routings
  <2>2. root.open => Here(Least(back.todo))'
    BY <1>b, <2>1, RoutedHere
  <2> QED BY <1>0, <1>1, <1>2, <1>f, <2>1, <2>2 DEF TakenIn, Here
<1>9. CASE BackstopMarks
  <2>1. back.pc = "mark" /\ fast' = fast /\ member'.routed = member.routed \cup {Least(back.todo)} /\ back.todo # {}
    BY <1>0, <1>9 DEF BackstopMarks, Members, Routes
  <2>2. back'.pc # "mark"
    BY <1>0, <1>9, <2>1, NextOwedIs DEF BackstopMarks
  <2>3. ASSUME NEW n \in member'.routed, root.open PROVE Here(n)'
    BY <1>0, <1>2, <1>b, <2>1, <2>3 DEF TakenIn
  <2> QED BY <1>1, <1>2, <1>f, <2>1, <2>2, <2>3 DEF TakenIn
<1>10. CASE BackstopFails
  <2>1. back.pc # "idle"
    BY <1>0, <1>10 DEF BackstopFails
  <2>2. back'.pc # "mark"
    BY <1>0, <1>10, <2>1, NextOwedIs DEF BackstopFails, AfterFailure, Routes
  <2> QED BY <1>3, <1>10, <2>2 DEF BackstopFails
<1>11. CASE RoutingCut
  BY <1>0, <1>3, <1>11 DEF RoutingCut
<1>12. CASE PersonCloses \/ VerbCarriedOut
  <2>1. member'.routed = member.routed /\ fast' = fast /\ back' = back
    BY <1>0, <1>12 DEF PersonCloses, VerbCarriedOut, Invokes, Closes, Escalates, Closed, Members
  <2> QED BY <1>3, <2>1
<1>13. CASE \E h \in Handlers : ReportCloses(h)
  <2>1. member'.routed = member.routed /\ fast' = fast /\ back' = back
    BY <1>13, ReportClosesIs DEF ReportCloses
  <2> QED BY <1>3, <2>1
<1>14. CASE \/ PersonTypes \/ Dispatch \/ Prune \/ AgentDies \/ AgentFinishes \/ VerbStamps \/ VerbFails \/ UNCHANGED vars
            \/ \E h \in Handlers : \/ ReportRepeated(h) \/ ReportGet(h) \/ ReportActs(h) \/ ReportRecords(h) \/ ReportMarks(h)
                                   \/ ReportAnswers(h) \/ ReportCut(h)
  <2>1. member' = member /\ fast' = fast /\ back' = back
    BY <1>14 DEF PersonTypes, Dispatch, Prune, AgentDies, AgentFinishes, VerbStamps, VerbFails, vars, ReportRepeated,
                 ReportGet, ReportActs, ReportRecords, ReportMarks, ReportAnswers, ReportCut
  <2> QED BY <1>3, <2>1
<1> QED
  BY <1>4, <1>5, <1>6, <1>7, <1>8, <1>9, <1>10, <1>11, <1>12, <1>13, <1>14 DEF Next, Routing, ReportGoesOn

-----------------------------------------------------------------------------
(* The invariant, and what follows from it. *)

IInv ==
  /\ Typed /\ Routes /\ Turned /\ Moves /\ Numbered /\ Undecided /\ Spent /\ Counted /\ Apart
  /\ JudgedByItsOwnMoves /\ Distinct(root.inputs) /\ WorkedAgainLate /\ TakenIn

LEMMA InitIInv == Init => IInv
<1> SUFFICES ASSUME Init PROVE IInv
  OBVIOUS
<1>1. Apart /\ JudgedByItsOwnMoves
  BY NoUnitIs DEF Init, Apart, JudgedByItsOwnMoves
<1>2. Distinct(root.inputs) /\ WorkedAgainLate
  BY DEF Init, Distinct, WorkedAgainLate
<1>3. TakenIn
  BY DEF Init, TakenIn, NoRouting
<1> QED
  BY <1>1, <1>2, <1>3, InitTyped, InitTurned, InitMoves, InitNumbered, InitUndecided, InitSpent, InitCounted DEF IInv

LEMMA IInvKept == ASSUME IInv, [Next]_vars PROVE IInv'
<1>0. QueueMoves /\ (SameDone \/ Completes)
  BY QueueOnlyMoves, TakesUp DEF IInv
<1>1. Apart'
  <2>1. Completes => Processed(root') \subseteq Processed(root) \cup root.inflight.ids
    BY DEF Completes
  <2> QED BY <2>1, TakesUp DEF IInv, Apart, SameDone
<1>2. Typed' /\ Routes' /\ Turned'
  BY TypedKept, RoutesKept, TurnedKept DEF IInv
<1>3. Moves' /\ Numbered' /\ Undecided'
  BY MovesKept, NumberedKept, UndecidedKept DEF IInv
<1>4. Spent' /\ Counted' /\ JudgedByItsOwnMoves'
  BY SpentKept, CountedKept, JudgedKept DEF IInv
<1>5. Distinct(root.inputs)' /\ WorkedAgainLate' /\ TakenIn'
  BY <1>0, DistinctKept, WorkedAgainKept, TakenInKept DEF IInv
<1> QED BY <1>1, <1>2, <1>3, <1>4, <1>5 DEF IInv

LEMMA Invariance == Spec => []IInv
<1>1. Init => IInv
  BY InitIInv
<1>2. IInv /\ [Next]_vars => IInv'
  BY IInvKept
<1> QED BY <1>1, <1>2, PTL DEF Spec

\* Every variable stays inside its shape: in particular no input is in hand and done,
\* and no run of the member is routed that was not recorded.
THEOREM TypeCorrect == Spec => []TypeOK
<1>1. IInv => TypeOK
  <2> SUFFICES ASSUME IInv PROVE TypeOK
    OBVIOUS
  <2>1. Typed /\ Routes /\ OneTurn /\ Apart /\ MaxRuns \in Nat
    BY TurnBounds DEF IInv, Turned
  <2>2. root.turns \in Nat /\ agent.run \in Nat /\ verb \in Nat /\ sent.run \in Nat
    BY <2>1 DEF Typed, Roots, Agents
  <2>3. agent.run \in 0..MaxRuns /\ verb \in 0..MaxRuns
    BY <2>1, <2>2 DEF OneTurn
  <2>4. \A h \in Handlers : hs[h].pc \in Pcs
    BY <2>1 DEF Typed, Requests
  <2> QED BY <2>1, <2>2, <2>3, <2>4 DEF TypeOK, Routes, Apart, Pcs
<1> QED BY <1>1, Invariance, PTL

\* An undecided turn is taken up, and a turn is judged by its own moves, wherever the
\* reports are cut off, and however many times each is sent.
THEOREM TurnsAreJudgedAlways == Spec => []TurnsAreJudged
<1>1. IInv => TurnsAreJudged
  BY UndecidedIs DEF IInv, TurnsAreJudged
<1> QED BY <1>1, Invariance, PTL

\* A spent budget ends the root, and each run is counted once, give or take the faults.
THEOREM BudgetEndsAlways == Spec => []BudgetEnds
<1>1. IInv => BudgetEnds
  BY BudgetIs DEF IInv
<1> QED BY <1>1, Invariance, PTL

\* No member's result that is marked is lost, and no input is worked on again before
\* the record has forgotten it: however often a result is appended again, and wherever
\* its routing fails.
THEOREM TakenInOnceAlways == Spec => []TakenInOnce
<1>1. IInv => TakenInOnce
  BY DEF IInv, TakenIn, TakenInOnce, MarkedIsTakenIn, Here
<1> QED BY <1>1, Invariance, PTL

=============================================================================
