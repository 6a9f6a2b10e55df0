--------------------------- MODULE Signals_proofs ---------------------------
(***************************************************************************)
(* A message becomes an input once, in the order of arrival, and one per    *)
(* cooldown window, proved for any number of messages, ids, sources,        *)
(* claimants, conversations, windows and faults.                            *)
(*                                                                         *)
(* First what each action does, one lemma each; nothing after that opens an *)
(* action again.  Then what one message's record, one pass and one          *)
(* conversation may do in a step, whoever takes it; the invariants are      *)
(* about these.                                                             *)
(***************************************************************************)
EXTENDS Signals, FiniteSetTheorems, WellFoundedInduction, TLAPS

-----------------------------------------------------------------------------
(* Shapes. *)

Fates == {"none", "routing", "routed", "failed", "skipped"}
Phases == Terminal \cup {"absent", "pending", "partial"}
Pcs == {"idle", "admit", "snap", "route", "append"}
Claims == [Claimants -> Fates]
Recs == [at : Nat, src : Sources, kind : Kinds, phase : Phases, tried : BOOLEAN, claim : Claims]
Passes == [pc : Pcs, rec : Recs, todo : SUBSET Claimants, spent : BOOLEAN, to : Convs \cup {0}]
ConvRecs == [made : BOOLEAN, open : BOOLEAN, by : Claimants \cup {NoConv.by}, id : Ids \cup {NoConv.id},
             from : Sources, queue : Seq(Messages), ran : Seq(Messages), known : SUBSET Messages]
Books == [built : BOOLEAN, off : BOOLEAN, seen : SUBSET Ids]
Caches == [behind : BOOLEAN, live : SUBSET Messages, open : SUBSET Convs]
Ledgers == [Sources -> [Ids -> SUBSET Messages]]
Notes == [Sources -> SUBSET Ids]
Pasts == [misled : BOOLEAN, forgotten : SUBSET Messages, missing : Notes, stray : Notes, admitted : Ledgers]

Typed ==
  /\ sig \in [Messages -> Recs] /\ pass \in [Messages -> Passes]
  /\ book \in [Sources -> Books] /\ window \in [Sources -> SUBSET Ids]
  /\ conv \in [Convs -> ConvRecs]
  /\ gone \subseteq Claimants /\ cache \in Caches
  /\ windows \in 0..MaxWindows /\ faults \in 0..MaxFaults
  /\ past \in Pasts

LEMMA Bounds ==
  /\ MaxPerSource \in Nat /\ Crowd \in Nat /\ MaxWindows \in Nat /\ MaxFaults \in Nat
  /\ 0 \notin Convs /\ Sources # {} /\ Messages \subseteq Nat /\ IsFiniteSet(Messages) /\ Convs \subseteq Nat
BY SignalBounds

LEMMA IdOf == \A m \in Messages : InitiationOf[m] \in Ids
BY DEF Ids

LEMMA UnclaimedIs == Unclaimed \in Claims /\ \A c \in Claimants : Unclaimed[c] = "none"
BY DEF Unclaimed, Claims, Fates

LEMMA AbsentIs ==
  /\ Absent \in Recs /\ Absent.at = 0 /\ Absent.src \in Sources /\ Absent.kind = "machine"
  /\ Absent.phase = "absent" /\ Absent.tried = FALSE /\ Absent.claim = Unclaimed
<1>1. (CHOOSE s \in Sources : TRUE) \in Sources
  BY Bounds
<1> QED BY <1>1, UnclaimedIs DEF Absent, Recs, Phases, Kinds

LEMMA NoPassIs ==
  /\ NoPass \in Passes /\ NoPass.pc = "idle" /\ NoPass.rec = Absent /\ NoPass.todo = {}
  /\ NoPass.spent = FALSE /\ NoPass.to = 0
BY AbsentIs DEF NoPass, Passes, Pcs

LEMMA NoConvIs ==
  /\ NoConv \in ConvRecs /\ NoConv.made = FALSE /\ NoConv.open = FALSE /\ NoConv.queue = <<>> /\ NoConv.ran = <<>>
  /\ NoConv.from \in Sources /\ NoConv.known = {}
<1>1. (CHOOSE s \in Sources : TRUE) \in Sources
  BY Bounds
<1> QED BY <1>1 DEF NoConv, ConvRecs

-----------------------------------------------------------------------------
(* The latest of the seconds. *)

LEMMA LatestIs ==
  ASSUME NEW f \in [Messages -> Nat]
  PROVE  LET seconds == {0} \cup {f[n] : n \in Messages} IN
           Max(seconds) \in Nat /\ \A n \in Messages : f[n] <= Max(seconds)
<1> DEFINE Upto(M) == {0} \cup {f[n] : n \in M}
           Has(M) == \E x \in Upto(M) : \A y \in Upto(M) : x >= y
           Bad == {M \in SUBSET Messages : ~Has(M)}
<1>1. Bad = {}
  <2> SUFFICES ASSUME Bad # {} PROVE FALSE
    OBVIOUS
  <2>1. Bad \subseteq FiniteSubsetsOf(Messages)
    BY Bounds, FS_Subset DEF FiniteSubsetsOf
  <2>2. PICK M \in Bad : \A N \in Bad : <<N, M>> \notin StrictSubsetOrdering(Messages)
    <3> HIDE DEF Bad
    <3> QED BY <2>1, FS_StrictSubsetOrderingWellFounded, WFMin
  <2>3. M # {}
    <3> SUFFICES ASSUME M = {} PROVE Has(M)
      OBVIOUS
    <3>1. Upto(M) = {0}
      OBVIOUS
    <3> QED BY <3>1
  <2>4. PICK m \in M : TRUE
    BY <2>3
  <2>5. Has(M \ {m})
    <3>1. M \ {m} \in SUBSET Messages /\ M \in SUBSET Messages /\ M \ {m} \subseteq M /\ M \ {m} # M
      BY <2>4
    <3>2. <<M \ {m}, M>> \in StrictSubsetOrdering(Messages)
      BY <3>1 DEF StrictSubsetOrdering
    <3>3. M \ {m} \notin Bad
      BY <2>2, <3>2
    <3> QED BY <3>1, <3>3
  <2>6. Upto(M) = Upto(M \ {m}) \cup {f[m]} /\ Upto(M) \subseteq Nat
    BY <2>4
  <2> HIDE DEF Upto
  <2>7. PICK x \in Upto(M \ {m}) : \A y \in Upto(M \ {m}) : x >= y
    BY <2>5
  <2>8. x \in Nat /\ f[m] \in Nat /\ x \in Upto(M) /\ f[m] \in Upto(M)
    BY <2>6, <2>7
  <2>9. CASE x >= f[m]
    <3>1. \A y \in Upto(M) : x >= y
      BY <2>6, <2>7, <2>9
    <3> QED BY <2>8, <3>1
  <2>10. CASE f[m] >= x
    <3>1. ASSUME NEW y \in Upto(M) PROVE f[m] >= y
      <4>1. y \in Nat /\ (y = f[m] \/ x >= y)
        BY <2>6, <2>7
      <4> QED BY <2>8, <2>10, <4>1
    <3> QED BY <2>8, <3>1
  <2> QED BY <2>8, <2>9, <2>10
<1>2. Has(Messages)
  BY <1>1
<1> DEFINE S == Upto(Messages)
<1>3. S \subseteq Nat /\ \A n \in Messages : f[n] \in S
  OBVIOUS
<1>4. \E x \in S : \A y \in S : x >= y
  BY <1>2
<1> HIDE DEF S
<1>5. Max(S) \in S /\ \A y \in S : Max(S) >= y
  BY <1>4 DEF Max
<1>6. Max(S) \in Nat /\ \A n \in Messages : f[n] <= Max(S)
  BY <1>3, <1>5
<1> QED BY <1>6 DEF S

-----------------------------------------------------------------------------
(* What a pass has in hand agrees with the record it was read from.          *)

\* Two copies of one message.
Alike(r, q) == r.at = q.at /\ r.src = q.src /\ r.kind = q.kind

PassingAt(m) ==
  /\ pass[m].pc = "append" <=> pass[m].to # 0
  /\ pass[m].pc # "idle" => m \in Live /\ Alike(pass[m].rec, sig[m]) /\ pass[m].rec.phase # "absent"
  /\ pass[m].pc \in {"admit", "snap"} => sig[m].claim = Unclaimed
  /\ pass[m].pc = "admit" => pass[m].rec.claim = Unclaimed
  /\ pass[m].pc = "snap" => pass[m].rec.phase \in Terminal \/ pass[m].rec.claim # Unclaimed
  /\ pass[m].pc \in {"admit", "route", "append"} => pass[m].rec.phase \notin Terminal
  /\ pass[m].pc \in {"route", "append"} => pass[m].rec.claim # Unclaimed
  /\ pass[m].spent => pass[m].pc = "snap" /\ pass[m].rec.phase \notin Terminal
Passing == \A m \in Messages : PassingAt(m)
Fit == Typed /\ Passing

SigOthers(m) == \A n \in Messages \ {m} : sig'[n] = sig[n]
PassOthers(m) == \A n \in Messages \ {m} : pass'[n] = pass[n]
PassGone(m) == PassOthers(m) /\ pass'[m] = NoPass
Wrote(m) == SigOthers(m) /\ sig'[m] = pass[m].rec

LEMMA RestPasses ==
  ASSUME Passing, Typed', NEW m \in Messages, SigOthers(m), PassOthers(m), PassingAt(m)'
  PROVE  Fit'
<1>1. ASSUME NEW n \in Messages \ {m} PROVE PassingAt(n)'
  <2>1. sig'[n] = sig[n] /\ pass'[n] = pass[n] /\ PassingAt(n)
    BY DEF SigOthers, PassOthers, Passing
  <2> QED BY <2>1 DEF PassingAt, Live, Stored
<1> QED BY <1>1 DEF Fit, Passing

LEMMA SamePasses == ASSUME Passing, Typed', UNCHANGED <<sig, pass>> PROVE Fit'
BY DEF Fit, Passing, PassingAt, Live, Stored

LEMMA FaultIs == ASSUME Typed, Fault PROVE faults' \in 0..MaxFaults
BY Bounds DEF Typed, Fault

LEMMA LiveIs ==
  /\ Live \subseteq Messages /\ Stored \subseteq Messages
  /\ \A m \in Messages : m \in Live <=> sig[m].phase # "absent" /\ sig[m].phase \notin Terminal
  /\ \A m \in Messages : m \in Stored <=> sig[m].phase # "absent"
BY DEF Live, Stored

LEMMA WroteTyped ==
  ASSUME Typed, NEW m \in Messages, NEW r \in Recs, Write(m, r)
  PROVE  SigOthers(m) /\ sig'[m] = r /\ sig' \in [Messages -> Recs]
BY DEF Typed, Write, SigOthers

LEMMA EndPassIs ==
  ASSUME Typed, NEW m \in Messages, EndPass(m)
  PROVE  PassGone(m) /\ pass' \in [Messages -> Passes]
BY NoPassIs DEF Typed, EndPass, PassGone, PassOthers

LEMMA PassSet ==
  ASSUME Typed, NEW m \in Messages, NEW p \in Passes, pass' = [pass EXCEPT ![m] = p]
  PROVE  PassOthers(m) /\ pass'[m] = p /\ pass' \in [Messages -> Passes]
BY DEF Typed, PassOthers

\* A pass that is over is in order, whatever it wrote last.
LEMMA GoneFits ==
  ASSUME Passing, Typed', NEW m \in Messages, SigOthers(m), PassGone(m)
  PROVE  Fit'
<1>1. PassingAt(m)'
  BY NoPassIs DEF PassGone, PassingAt
<1> QED BY <1>1, RestPasses DEF PassGone

-----------------------------------------------------------------------------
(* What each action does: the messages and the cache. *)

LEMMA PublishIs ==
  ASSUME Fit, NEW m \in Messages, Publish(m)
  PROVE  /\ Fit' /\ m \notin Stored /\ SigOthers(m) /\ sig'[m].phase = "pending" /\ sig'[m].claim = Unclaimed
         /\ \A k \in Messages : sig[k].at <= sig'[m].at
         /\ UNCHANGED <<pass, book, window, conv, gone, cache, past>>
<1>1. UNCHANGED <<pass, book, window, conv, gone, cache, windows, faults, past>> /\ m \notin Stored
  BY DEF Publish, cooldown, world
<1>2. PICK at \in Seconds, src \in Sources, kind \in Kinds :
        sig' = [sig EXCEPT ![m] = [Absent EXCEPT !.at = at, !.src = src, !.kind = kind, !.phase = "pending"]]
  BY DEF Publish
<1> DEFINE latest == Max({0} \cup {sig[n].at : n \in Messages})
<1>3. latest \in Nat /\ \A n \in Messages : sig[n].at <= latest
  <2> DEFINE f == [n \in Messages |-> sig[n].at]
  <2>1. f \in [Messages -> Nat]
    BY DEF Fit, Typed, Recs
  <2>2. {f[n] : n \in Messages} = {sig[n].at : n \in Messages}
    OBVIOUS
  <2>3. \A n \in Messages : f[n] = sig[n].at
    OBVIOUS
  <2> HIDE DEF f
  <2> QED BY <2>1, <2>2, <2>3, LatestIs
<1>4. at \in {latest, latest + 1}
  BY DEF Seconds
<1> HIDE DEF latest
<1>5. at \in Nat /\ \A n \in Messages : sig[n].at <= at
  <2>1. \A n \in Messages : sig[n].at \in Nat
    BY DEF Fit, Typed, Recs
  <2> QED BY <1>3, <1>4, <2>1
<1> DEFINE r == [Absent EXCEPT !.at = at, !.src = src, !.kind = kind, !.phase = "pending"]
<1>6. r \in Recs /\ r.at = at /\ r.phase = "pending" /\ r.claim = Unclaimed
  BY <1>5, AbsentIs DEF Recs, Phases
<1>7. Write(m, r)
  BY <1>2 DEF Write
<1> HIDE DEF r
<1>8. SigOthers(m) /\ sig'[m] = r /\ sig' \in [Messages -> Recs]
  BY <1>6, <1>7, WroteTyped DEF Fit
<1>9. Typed'
  BY <1>1, <1>8 DEF Fit, Typed
<1>10. PassingAt(m)'
  <2>1. pass[m].pc = "idle" /\ pass'[m] = pass[m]
    BY <1>1, LiveIs DEF Fit, Passing, PassingAt
  <2> QED BY <2>1 DEF Fit, Passing, PassingAt
<1> QED BY <1>1, <1>5, <1>6, <1>8, <1>9, <1>10, RestPasses DEF Fit, PassOthers

LEMMA ViewIs == View \in Caches /\ Current \in Caches /\ View.open = Open /\ View.live = Live
                /\ Current.open = {} /\ Current.live = {} /\ View.behind /\ ~Current.behind
BY LiveIs DEF View, Current, Caches, Open

LEMMA CacheFallsBehindIs ==
  ASSUME Fit, CacheFallsBehind
  PROVE  Fit' /\ cache' = View /\ UNCHANGED <<sig, pass, book, window, conv, gone, past>>
<1>1. Typed'
  BY ViewIs, FaultIs DEF CacheFallsBehind, Fit, Typed, cooldown
<1> QED BY <1>1, SamePasses DEF CacheFallsBehind, Fit, cooldown

LEMMA CacheSyncsIs ==
  ASSUME Fit, CacheSyncs
  PROVE  Fit' /\ cache' = Current /\ UNCHANGED <<sig, pass, book, window, conv, gone, past>>
<1>1. Typed'
  BY ViewIs DEF CacheSyncs, Fit, Typed, cooldown
<1> QED BY <1>1, SamePasses DEF CacheSyncs, Fit, cooldown

LEMMA RollupIs ==
  ASSUME NEW claim \in Claims
  PROVE  /\ Rollup(claim) \in {"pending", "partial", "routed", "failed"}
         /\ claim # Unclaimed /\ (\A c \in Claimants : claim[c] # "routing") => Rollup(claim) \in Terminal
BY DEF Rollup, Terminal

LEMMA EndedIs ==
  ASSUME NEW r \in Recs
  PROVE  Ended(r) \in Recs /\ Alike(Ended(r), r) /\ Ended(r).phase \in Terminal
<1>1. CASE r.claim = Unclaimed
  BY <1>1 DEF Ended, Recs, Phases, Terminal, Alike
<1>2. CASE r.claim # Unclaimed
  <2> DEFINE claim == [c \in Claimants |-> IF r.claim[c] = "routing" THEN "failed" ELSE r.claim[c]]
  <2>1. Ended(r) = [r EXCEPT !.claim = claim, !.phase = Rollup(claim)]
    BY <1>2 DEF Ended
  <2>2. r.claim \in Claims
    BY DEF Recs
  <2>3. claim \in Claims /\ \A c \in Claimants : claim[c] # "routing"
    BY <2>2 DEF Claims, Fates
  <2>4. PICK c \in Claimants : r.claim[c] # "none"
    BY <1>2, <2>2 DEF Unclaimed, Claims
  <2>5. claim # Unclaimed
    BY <2>4, UnclaimedIs
  <2> HIDE DEF claim
  <2>6. Rollup(claim) \in Terminal /\ Rollup(claim) \in Phases
    BY <2>3, <2>5, RollupIs DEF Phases
  <2> QED BY <2>1, <2>3, <2>6 DEF Recs, Alike
<1> QED BY <1>1, <1>2

LEMMA PassEndsIs ==
  ASSUME Fit, NEW m \in Messages, PassEnds(m)
  PROVE  /\ Fit' /\ m \in Live /\ SigOthers(m) /\ Alike(sig'[m], sig[m]) /\ sig'[m].phase \in Terminal
         /\ UNCHANGED <<pass, book, window, conv, gone, cache, past>>
<1>1. /\ m \in Live /\ pass[m].pc = "idle" /\ Write(m, Ended(sig[m]))
      /\ UNCHANGED <<pass, book, window, conv, gone, cache, windows, faults, past>>
  BY DEF PassEnds, cooldown, world
<1>2. sig[m] \in Recs
  BY DEF Fit, Typed
<1>3. Ended(sig[m]) \in Recs /\ Alike(Ended(sig[m]), sig[m]) /\ Ended(sig[m]).phase \in Terminal
  BY <1>2, EndedIs
<1>4. SigOthers(m) /\ sig'[m] = Ended(sig[m]) /\ sig' \in [Messages -> Recs]
  BY <1>1, <1>3, WroteTyped DEF Fit
<1>5. Typed'
  BY <1>1, <1>4 DEF Fit, Typed
<1>6. PassingAt(m)'
  BY <1>1 DEF Fit, Passing, PassingAt
<1> QED BY <1>1, <1>3, <1>4, <1>5, <1>6, RestPasses DEF Fit, PassOthers

-----------------------------------------------------------------------------
(* What each action does: a pass reads, decides and records its decision. *)

\* What the history says of the windows is as it was.
SameAccount == past'.missing = past.missing /\ past'.stray = past.stray /\ past'.admitted = past.admitted

LEMMA PassReadsIs ==
  ASSUME Fit, NEW m \in Messages, PassReads(m)
  PROVE  /\ Fit' /\ m \in Live /\ pass[m].pc = "idle" /\ ~Held(m) /\ IsHead(m) /\ PassOthers(m)
         /\ pass'[m].spent = FALSE /\ pass'[m].pc \in {"admit", "route"}
         /\ (past'.misled <=> past.misled \/ \E n \in Live \ Listed.live : SameKey(m, n) /\ Before(n, m))
         /\ past'.forgotten = past.forgotten /\ SameAccount
         /\ UNCHANGED <<sig, book, window, conv, gone, cache>>
<1>1. /\ m \in Live /\ pass[m].pc = "idle" /\ ~Held(m) /\ IsHead(m)
      /\ UNCHANGED <<sig, book, window, conv, gone, cache, windows, faults>>
  BY DEF PassReads, cooldown, world
<1> DEFINE p == [NoPass EXCEPT
                   !.pc = IF sig[m].claim = Unclaimed THEN "admit" ELSE "route",
                   !.rec = [sig[m] EXCEPT !.tried = TRUE],
                   !.todo = {c \in Claimants : sig[m].claim[c] = "routing"}]
<1>2. sig[m] \in Recs /\ sig[m].phase # "absent" /\ sig[m].phase \notin Terminal
  BY <1>1, LiveIs DEF Fit, Typed
<1>3. [sig[m] EXCEPT !.tried = TRUE] \in Recs /\ Alike([sig[m] EXCEPT !.tried = TRUE], sig[m])
      /\ [sig[m] EXCEPT !.tried = TRUE].phase = sig[m].phase /\ [sig[m] EXCEPT !.tried = TRUE].claim = sig[m].claim
  BY <1>2 DEF Recs, Alike
<1>4. /\ p \in Passes /\ p.rec = [sig[m] EXCEPT !.tried = TRUE] /\ p.spent = FALSE /\ p.to = 0
      /\ p.pc = IF sig[m].claim = Unclaimed THEN "admit" ELSE "route"
  BY <1>3, NoPassIs DEF Passes, Pcs
<1>5. pass' = [pass EXCEPT ![m] = p]
  BY DEF PassReads
<1> HIDE DEF p
<1>6. PassOthers(m) /\ pass'[m] = p /\ pass' \in [Messages -> Passes]
  BY <1>4, <1>5, PassSet DEF Fit
<1>7. past' = [past EXCEPT !.misled = @ \/ \E n \in Live \ Listed.live : SameKey(m, n) /\ Before(n, m)]
  BY DEF PassReads
<1>8. /\ past' \in Pasts /\ (past'.misled <=> past.misled \/ \E n \in Live \ Listed.live : SameKey(m, n) /\ Before(n, m))
      /\ past'.forgotten = past.forgotten /\ SameAccount
  <2> DEFINE B == \E n \in Live \ Listed.live : SameKey(m, n) /\ Before(n, m)
  <2>1. B \in BOOLEAN /\ past' = [past EXCEPT !.misled = @ \/ B] /\ past \in Pasts
    BY <1>7 DEF Fit, Typed
  <2> HIDE DEF B
  <2>2. /\ past' \in Pasts /\ (past'.misled <=> past.misled \/ B)
        /\ past'.forgotten = past.forgotten /\ SameAccount
    BY <2>1 DEF Pasts, SameAccount
  <2> QED BY <2>2 DEF B
<1>9. Typed'
  BY <1>1, <1>6, <1>8 DEF Fit, Typed
<1>10. PassingAt(m)'
  <2>1. m \in Live' /\ sig'[m] = sig[m]
    BY <1>1 DEF Live, Stored
  <2> QED BY <1>2, <1>3, <1>4, <1>6, <2>1, UnclaimedIs DEF PassingAt, Alike
<1> QED BY <1>1, <1>4, <1>6, <1>8, <1>9, <1>10, RestPasses DEF Fit, SigOthers

Key(s, i, m) == sig[m].src = s /\ InitiationOf[m] = i

\* What a source's window is to a pass: the book's, or what a use would take from the store.
Seen(s) == IF book[s].built THEN book[s].seen ELSE window[s]
On(s) == book[s].built /\ ~book[s].off

\* A use of a source's window: it may only have been taken into the book, or been found off.
BooksElsewhere(s) == \A t \in Sources \ {s} : book'[t] = book[t]
Opened(s) ==
  \/ book'[s] = book[s]
  \/ ~book[s].built /\ book'[s].built /\ book'[s].seen = IF book'[s].off THEN {} ELSE window[s]

\* These ids were to be recorded, after what was: some of them are, or all is as it was.
Recorded(s, ids, was) ==
  /\ \A t \in Sources \ {s} :
       window'[t] = window[t] /\ past'.missing[t] = was.missing[t] /\ past'.stray[t] = was.stray[t]
  /\ past'.missing[s] = was.missing[s] \cup (ids \ window'[s])
  /\ past'.stray[s] = was.stray[s] \cup (window'[s] \ ids)
  /\ past'.misled = was.misled /\ past'.forgotten = was.forgotten /\ past'.admitted = was.admitted

\* What a pass may decide.
Chosen(m) ==
  LET s == sig[m].src IN
    /\ pass'[m].spent = FALSE /\ pass'[m].rec.phase # "suppressed"
    /\ BooksElsewhere(s) /\ Opened(s) /\ UNCHANGED <<window, past>>
Suppressed(m) ==
  LET s == sig[m].src IN
    /\ InitiationOf[m] \in Seen(s) /\ pass'[m].spent = FALSE /\ pass'[m].rec.phase = "suppressed"
    /\ BooksElsewhere(s) /\ Opened(s) /\ UNCHANGED <<window, past>>
Spends(m) ==
  LET s == sig[m].src  i == InitiationOf[m] IN
    /\ i \notin Seen(s) /\ pass'[m].spent /\ pass'[m].rec.phase \notin Terminal
    /\ BooksElsewhere(s) /\ (book[s].built => On(s)) /\ book'[s].built /\ ~book'[s].off
    /\ book'[s].seen = Seen(s) \cup {i} /\ Recorded(s, Seen(s) \cup {i}, past)

LEMMA RecordIs ==
  ASSUME Typed, NEW s \in Sources, NEW ids \in SUBSET Ids, NEW was \in Pasts, Record(s, ids, was)
  PROVE  window' \in [Sources -> SUBSET Ids] /\ past' \in Pasts /\ Recorded(s, ids, was)
<1>1. PICK now \in (SUBSET ids) \cup {window[s]} :
        /\ window' = [window EXCEPT ![s] = now]
        /\ past' = [was EXCEPT !.missing[s] = @ \cup (ids \ now), !.stray[s] = @ \cup (now \ ids)]
  BY DEF Record
<1>2. window \in [Sources -> SUBSET Ids] /\ now \in SUBSET Ids
  BY DEF Typed
<1>3. /\ window' \in [Sources -> SUBSET Ids] /\ window'[s] = now
      /\ \A t \in Sources \ {s} : window'[t] = window[t]
  BY <1>1, <1>2
<1> DEFINE missing == [was.missing EXCEPT ![s] = @ \cup (ids \ now)]
           stray == [was.stray EXCEPT ![s] = @ \cup (now \ ids)]
<1>4. was.missing \in Notes /\ was.stray \in Notes
  BY DEF Pasts
<1>5. /\ missing \in Notes /\ missing[s] = was.missing[s] \cup (ids \ now)
      /\ \A t \in Sources \ {s} : missing[t] = was.missing[t]
  BY <1>2, <1>4 DEF Notes
<1>6. /\ stray \in Notes /\ stray[s] = was.stray[s] \cup (now \ ids)
      /\ \A t \in Sources \ {s} : stray[t] = was.stray[t]
  BY <1>2, <1>4 DEF Notes
<1>7. past' = [was EXCEPT !.missing = missing, !.stray = stray]
  BY <1>1, <1>4
<1> HIDE DEF missing, stray
<1>8. /\ past' \in Pasts /\ past'.missing = missing /\ past'.stray = stray
      /\ past'.misled = was.misled /\ past'.forgotten = was.forgotten /\ past'.admitted = was.admitted
  BY <1>5, <1>6, <1>7 DEF Pasts
<1> QED BY <1>3, <1>5, <1>6, <1>8 DEF Recorded

LEMMA SeenIs == ASSUME Typed, NEW s \in Sources PROVE Seen(s) \in SUBSET Ids
BY DEF Typed, Books, Seen

LEMMA BookIs ==
  ASSUME Typed, NEW s \in Sources, NEW off \in BOOLEAN
  PROVE  LET b == Book(s, off) IN
           /\ b \in Books /\ b.built /\ (book[s].built => b = book[s])
           /\ (~book[s].built => b.seen = IF b.off THEN {} ELSE window[s])
           /\ (~b.off => b.seen = Seen(s))
<1>1. CASE book[s].built
  BY <1>1 DEF Typed, Book, Seen
<1>2. CASE ~book[s].built
  <2>1. Book(s, off) = [built |-> TRUE, off |-> off, seen |-> IF off THEN {} ELSE window[s]]
    BY <1>2 DEF Book
  <2>2. window[s] \in SUBSET Ids
    BY DEF Typed
  <2> QED BY <1>2, <2>1, <2>2 DEF Books, Seen
<1> QED BY <1>1, <1>2

\* A use of a window puts a book like this in its place.
LEMMA BookSet ==
  ASSUME Typed, NEW s \in Sources, NEW b \in Books, book' = [book EXCEPT ![s] = b]
  PROVE  book' \in [Sources -> Books] /\ book'[s] = b /\ BooksElsewhere(s)
BY DEF Typed, BooksElsewhere

LEMMA OpenedIs ==
  ASSUME Typed, NEW s \in Sources, NEW off \in BOOLEAN, book' = [book EXCEPT ![s] = Book(s, off)]
  PROVE  book' \in [Sources -> Books] /\ BooksElsewhere(s) /\ Opened(s) /\ book'[s] = Book(s, off)
<1>1. PICK b \in Books : b = Book(s, off)
  BY BookIs
<1>2. book' \in [Sources -> Books] /\ book'[s] = b /\ BooksElsewhere(s)
  BY <1>1, BookSet
<1> QED BY <1>1, <1>2, BookIs DEF Opened

LEMMA TollIs == ASSUME Typed, NEW s \in Sources, Toll(s) PROVE faults' \in 0..MaxFaults
<1>1. UNCHANGED faults \/ Fault
  BY DEF Toll
<1> QED BY <1>1, FaultIs DEF Typed

LEMMA DropIs ==
  ASSUME Fit, NEW m \in Messages, pass[m].pc = "admit", NEW phase \in {"dropped", "suppressed"}, Drop(m, phase)
  PROVE  /\ PassOthers(m) /\ pass' \in [Messages -> Passes]
         /\ pass'[m].pc = "snap" /\ pass'[m].spent = pass[m].spent /\ pass'[m].to = pass[m].to
         /\ Alike(pass'[m].rec, pass[m].rec) /\ pass'[m].rec.phase = phase
<1> DEFINE r == [pass[m].rec EXCEPT !.phase = phase]
           p == [pass[m] EXCEPT !.pc = "snap", !.rec = r]
<1>1. pass[m] \in Passes /\ pass[m].rec \in Recs /\ phase \in Phases
  BY DEF Fit, Typed, Passes, Phases, Terminal
<1>2. r \in Recs /\ Alike(r, pass[m].rec) /\ r.phase = phase
  BY <1>1 DEF Recs, Alike
<1> HIDE DEF r
<1>3. p \in Passes /\ p.pc = "snap" /\ p.spent = pass[m].spent /\ p.to = pass[m].to /\ p.rec = r
  BY <1>1, <1>2 DEF Passes, Pcs
<1>4. pass' = [pass EXCEPT ![m] = p]
  BY DEF Drop, Fit, Typed, r
<1> HIDE DEF p
<1> QED BY <1>2, <1>3, <1>4, PassSet DEF Fit

LEMMA ClaimIs ==
  ASSUME Fit, NEW m \in Messages, pass[m].pc = "admit",
         NEW ready \in SUBSET Claimants, ready # {}, NEW spent \in BOOLEAN, Claim(m, ready, spent)
  PROVE  /\ PassOthers(m) /\ pass' \in [Messages -> Passes]
         /\ pass'[m].pc = "snap" /\ pass'[m].spent = spent /\ pass'[m].to = pass[m].to
         /\ Alike(pass'[m].rec, pass[m].rec) /\ pass'[m].rec.phase = pass[m].rec.phase /\ pass'[m].rec.claim # Unclaimed
<1> DEFINE claim == [c \in Claimants |-> IF c \in ready THEN "routing" ELSE "none"]
<1>1. claim \in Claims /\ claim # Unclaimed
  <2>1. PICK c \in ready : claim[c] = "routing"
    OBVIOUS
  <2> QED BY <2>1, UnclaimedIs DEF Claims, Fates
<1>2. pass[m] \in Passes /\ pass[m].rec \in Recs
  BY DEF Fit, Typed, Passes
<1> DEFINE r == [pass[m].rec EXCEPT !.claim = claim]
           p == [pass[m] EXCEPT !.pc = "snap", !.spent = spent, !.rec = r]
<1>3. pass' = [pass EXCEPT ![m] = p]
  BY DEF Claim, Fit, Typed
<1> HIDE DEF claim
<1>4. r \in Recs /\ Alike(r, pass[m].rec) /\ r.phase = pass[m].rec.phase /\ r.claim = claim
  BY <1>1, <1>2 DEF Recs, Alike
<1> HIDE DEF r
<1>5. p \in Passes /\ p.pc = "snap" /\ p.spent = spent /\ p.to = pass[m].to /\ p.rec = r
  BY <1>2, <1>4 DEF Passes, Pcs
<1> HIDE DEF p
<1> QED BY <1>1, <1>3, <1>4, <1>5, PassSet DEF Fit

LEMMA SpendIs ==
  ASSUME Typed, NEW s \in Sources, NEW i \in Ids, NEW off \in BOOLEAN, ~Book(s, off).off, Spend(s, i, Book(s, off))
  PROVE  /\ book' \in [Sources -> Books] /\ window' \in [Sources -> SUBSET Ids] /\ past' \in Pasts /\ faults' \in 0..MaxFaults
         /\ BooksElsewhere(s) /\ (book[s].built => On(s)) /\ book'[s].built /\ ~book'[s].off
         /\ book'[s].seen = Seen(s) \cup {i} /\ Recorded(s, Seen(s) \cup {i}, past)
<1>1. PICK b \in Books : b = Book(s, off) /\ b.built /\ ~b.off /\ b.seen = Seen(s) /\ (book[s].built => b = book[s])
  BY BookIs
<1> DEFINE d == [b EXCEPT !.seen = @ \cup {i}]
<1>2. d \in Books /\ d.built = b.built /\ d.off = b.off /\ d.seen = Seen(s) \cup {i}
  BY <1>1 DEF Books
<1>3. book' = [book EXCEPT ![s] = d] /\ Record(s, Seen(s) \cup {i}, past) /\ Toll(s)
  BY <1>1 DEF Spend
<1> HIDE DEF d
<1>4. book' \in [Sources -> Books] /\ book'[s] = d /\ BooksElsewhere(s)
  BY <1>2, <1>3, BookSet
<1>5. Seen(s) \cup {i} \in SUBSET Ids /\ past \in Pasts
  BY SeenIs DEF Typed
<1>6. window' \in [Sources -> SUBSET Ids] /\ past' \in Pasts /\ Recorded(s, Seen(s) \cup {i}, past)
  BY <1>3, <1>5, RecordIs
<1> QED BY <1>1, <1>2, <1>3, <1>4, <1>6, TollIs DEF On

\* What a decision leaves in hand, and what it makes of the windows.
Decides(m) ==
  /\ Typed' /\ pass'[m].pc = "snap" /\ pass'[m].to = 0 /\ PassOthers(m) /\ Alike(pass'[m].rec, pass[m].rec)
  /\ pass'[m].rec.phase # "absent"
  /\ (pass'[m].rec.phase \in Terminal \/ pass'[m].rec.claim # Unclaimed)
  /\ (pass'[m].spent => pass'[m].rec.phase \notin Terminal)
  /\ (Chosen(m) \/ Suppressed(m) \/ Spends(m))

LEMMA AdmitIs ==
  ASSUME Fit, NEW m \in Messages, Admit(m)
  PROVE  /\ Fit' /\ pass[m].pc = "admit" /\ pass'[m].pc = "snap" /\ PassOthers(m)
         /\ (Chosen(m) \/ Suppressed(m) \/ Spends(m))
         /\ UNCHANGED <<sig, conv, gone, cache>>
<1>1. pass[m].pc = "admit" /\ UNCHANGED <<sig, conv, gone, cache, windows>>
  BY DEF Admit, world
<1> DEFINE s == sig[m].src
           i == InitiationOf[m]
<1>2. s \in Sources /\ i \in Ids
  BY IdOf DEF Fit, Typed, Recs
<1>3. /\ pass[m].to = 0 /\ pass[m].spent = FALSE /\ m \in Live /\ Alike(pass[m].rec, sig[m]) /\ sig[m].claim = Unclaimed
      /\ pass[m].rec.phase \notin Terminal /\ pass[m].rec.phase # "absent"
  BY <1>1 DEF Fit, Typed, Passing, PassingAt, Passes
<1>4. PICK ready \in SUBSET (Claimants \ gone) :
         \/ Drop(m, "dropped") /\ UNCHANGED <<book, window, faults, past>>
         \/ Cardinality(ready) = 1 /\ Claim(m, ready, FALSE) /\ UNCHANGED <<book, window, faults, past>>
         \/ ready # {} /\ Consults(m, ready)
  BY DEF Admit, cooldown
<1>n. UNCHANGED book => BooksElsewhere(s) /\ Opened(s)
  BY DEF BooksElsewhere, Opened
<1>5. ASSUME Drop(m, "dropped") /\ UNCHANGED <<book, window, faults, past>> PROVE Decides(m)
  <2>1. /\ PassOthers(m) /\ pass' \in [Messages -> Passes] /\ pass'[m].pc = "snap" /\ pass'[m].spent = FALSE
        /\ pass'[m].to = 0 /\ Alike(pass'[m].rec, pass[m].rec) /\ pass'[m].rec.phase = "dropped"
    BY <1>1, <1>3, <1>5, DropIs
  <2>2. Chosen(m)
    BY <1>n, <1>5, <2>1 DEF Chosen
  <2> QED BY <1>1, <1>5, <2>1, <2>2 DEF Decides, Fit, Typed, Terminal
<1>6. ASSUME ready # {}, NEW spent \in BOOLEAN, Claim(m, ready, spent)
      PROVE  /\ PassOthers(m) /\ pass' \in [Messages -> Passes] /\ pass'[m].pc = "snap" /\ pass'[m].spent = spent
             /\ pass'[m].to = 0 /\ Alike(pass'[m].rec, pass[m].rec) /\ pass'[m].rec.phase = pass[m].rec.phase
             /\ pass'[m].rec.claim # Unclaimed /\ pass'[m].rec.phase \notin Terminal /\ pass'[m].rec.phase # "absent"
             /\ pass'[m].rec.phase # "suppressed"
  BY <1>1, <1>3, <1>6, ClaimIs DEF Terminal
<1>7. ASSUME Cardinality(ready) = 1 /\ Claim(m, ready, FALSE) /\ UNCHANGED <<book, window, faults, past>> PROVE Decides(m)
  <2>1. ready # {}
    BY <1>7, FS_EmptySet
  <2>2. Chosen(m)
    BY <1>n, <1>6, <1>7, <2>1 DEF Chosen
  <2> QED BY <1>1, <1>6, <1>7, <2>1, <2>2 DEF Decides, Fit, Typed
<1>8. ASSUME ready # {}, Consults(m, ready) PROVE Decides(m)
  <2>1. PICK off \in BOOLEAN : LET b == Book(s, off) IN
          \/ /\ b.off
             /\ Claim(m, ready, FALSE)
             /\ book' = [book EXCEPT ![s] = b] /\ UNCHANGED <<window, faults, past>>
          \/ /\ ~b.off /\ i \in b.seen
             /\ Drop(m, "suppressed")
             /\ book' = [book EXCEPT ![s] = b] /\ UNCHANGED <<window, faults, past>>
          \/ /\ ~b.off /\ i \notin b.seen
             /\ Spend(s, i, b) /\ Claim(m, ready, TRUE)
    <3>1. (IF sig[m].kind = "chat" THEN BOOLEAN ELSE {FALSE}) \subseteq BOOLEAN
      OBVIOUS
    <3> QED BY <1>8, <3>1 DEF Consults
  <2>2. CASE Claim(m, ready, FALSE) /\ book' = [book EXCEPT ![s] = Book(s, off)] /\ UNCHANGED <<window, faults, past>>
    <3>1. book' \in [Sources -> Books] /\ BooksElsewhere(s) /\ Opened(s)
      BY <1>2, <2>2, OpenedIs DEF Fit
    <3>2. Chosen(m)
      BY <1>6, <1>8, <2>2, <3>1 DEF Chosen
    <3> QED BY <1>1, <1>6, <1>8, <2>2, <3>1, <3>2 DEF Decides, Fit, Typed
  <2>3. CASE /\ ~Book(s, off).off /\ i \in Book(s, off).seen /\ Drop(m, "suppressed")
             /\ book' = [book EXCEPT ![s] = Book(s, off)] /\ UNCHANGED <<window, faults, past>>
    <3>1. book' \in [Sources -> Books] /\ BooksElsewhere(s) /\ Opened(s)
      BY <1>2, <2>3, OpenedIs DEF Fit
    <3>2. i \in Seen(s)
      BY <1>2, <2>3, BookIs DEF Fit
    <3>3. /\ PassOthers(m) /\ pass' \in [Messages -> Passes] /\ pass'[m].pc = "snap" /\ pass'[m].spent = FALSE
          /\ pass'[m].to = 0 /\ Alike(pass'[m].rec, pass[m].rec) /\ pass'[m].rec.phase = "suppressed"
      BY <1>1, <1>3, <2>3, DropIs
    <3>4. Suppressed(m)
      BY <2>3, <3>1, <3>2, <3>3 DEF Suppressed
    <3> QED BY <1>1, <2>3, <3>1, <3>3, <3>4 DEF Decides, Fit, Typed, Terminal
  <2>4. CASE ~Book(s, off).off /\ i \notin Book(s, off).seen /\ Spend(s, i, Book(s, off)) /\ Claim(m, ready, TRUE)
    <3>1. /\ book' \in [Sources -> Books] /\ window' \in [Sources -> SUBSET Ids] /\ past' \in Pasts /\ faults' \in 0..MaxFaults
          /\ BooksElsewhere(s) /\ (book[s].built => On(s)) /\ book'[s].built /\ ~book'[s].off
          /\ book'[s].seen = Seen(s) \cup {i} /\ Recorded(s, Seen(s) \cup {i}, past)
      BY <1>2, <2>4, SpendIs DEF Fit
    <3>2. i \notin Seen(s)
      BY <1>2, <2>4, BookIs DEF Fit
    <3>3. Spends(m)
      BY <1>6, <1>8, <2>4, <3>1, <3>2 DEF Spends
    <3> QED BY <1>1, <1>6, <1>8, <2>4, <3>1, <3>3 DEF Decides, Fit, Typed
  <2> QED BY <2>1, <2>2, <2>3, <2>4
<1>9. Decides(m)
  <2> HIDE DEF s, i
  <2> QED BY <1>4, <1>5, <1>7, <1>8
<1>10. PassingAt(m)'
  <2>1. m \in Live' /\ sig'[m] = sig[m]
    BY <1>1, <1>3 DEF Live, Stored
  <2> QED BY <1>3, <1>9, <2>1 DEF PassingAt, Alike, Decides
<1> QED BY <1>1, <1>9, <1>10, RestPasses DEF Fit, SigOthers, Decides

\* A pass that ends wrote what it had in hand, or not.
LEMMA AdmitFailsIs ==
  ASSUME Fit, NEW m \in Messages, AdmitFails(m)
  PROVE  /\ Fit' /\ pass[m].pc = "admit" /\ (Wrote(m) \/ UNCHANGED sig) /\ PassGone(m)
         /\ UNCHANGED <<book, window, conv, gone, cache, past>>
<1>1. /\ pass[m].pc = "admit" /\ (Write(m, pass[m].rec) \/ UNCHANGED sig) /\ EndPass(m) /\ Fault
      /\ UNCHANGED <<book, window, conv, gone, cache, windows, past>>
  BY DEF AdmitFails, cooldown, world
<1>2. pass[m].rec \in Recs
  BY DEF Fit, Typed, Passes
<1>3. PassGone(m) /\ pass' \in [Messages -> Passes]
  BY <1>1, EndPassIs DEF Fit
<1>4. (Wrote(m) \/ UNCHANGED sig) /\ SigOthers(m) /\ sig' \in [Messages -> Recs]
  BY <1>1, <1>2, WroteTyped DEF Fit, Typed, Wrote, SigOthers
<1>5. Typed'
  BY <1>1, <1>3, <1>4, FaultIs DEF Fit, Typed
<1> QED BY <1>1, <1>3, <1>4, <1>5, GoneFits DEF Fit

\* What is made of the spent id when the decision is not to stand, after what was.
GivesBack(m, was) ==
  LET s == sig[m].src  i == InitiationOf[m] IN
    IF pass[m].spent
    THEN /\ BooksElsewhere(s) /\ book'[s].built = book[s].built /\ book'[s].off = book[s].off
         /\ book'[s].seen = book[s].seen \ {i} /\ Recorded(s, book[s].seen \ {i}, was)
    ELSE UNCHANGED <<book, window>> /\ past' = was

\* How a decision may end: recorded, given back, or given back though it was recorded.
Enters(m) == Wrote(m) /\ UNCHANGED <<book, window>> /\ past' = Admitted(m)
Returns(m) == GivesBack(m, past)
Mistakes(m) == Wrote(m) /\ GivesBack(m, Mistaken(m))

\* Whoever is recorded to have got its window is in the ledger.
Joined(m, p) ==
  \A s \in Sources, i \in Ids :
    p.admitted[s][i] = past.admitted[s][i] \cup (IF pass[m].spent /\ Key(s, i, m) THEN {m} ELSE {})

LEMMA AdmittedIs ==
  ASSUME Fit, NEW m \in Messages
  PROVE  /\ Admitted(m) \in Pasts /\ Admitted(m).misled = past.misled /\ Admitted(m).forgotten = past.forgotten
         /\ Admitted(m).missing = past.missing /\ Admitted(m).stray = past.stray /\ Joined(m, Admitted(m))
<1> DEFINE src == sig[m].src
           id == InitiationOf[m]
<1>1. src \in Sources /\ id \in Ids /\ past \in Pasts /\ past.admitted \in Ledgers
  BY IdOf DEF Fit, Typed, Recs, Pasts
<1>2. CASE ~pass[m].spent
  BY <1>1, <1>2 DEF Admitted, Joined
<1>3. CASE pass[m].spent
  <2> DEFINE led == [past.admitted EXCEPT ![src][id] = @ \cup {m}]
  <2>1. led \in Ledgers
    BY <1>1 DEF Ledgers
  <2>2. \A s \in Sources, i \in Ids : led[s][i] = past.admitted[s][i] \cup (IF Key(s, i, m) THEN {m} ELSE {})
    BY <1>1 DEF Ledgers, Key
  <2>3. Admitted(m) = [past EXCEPT !.admitted = led]
    BY <1>3 DEF Admitted
  <2> HIDE DEF led
  <2> QED BY <1>1, <1>3, <2>1, <2>2, <2>3 DEF Pasts, Joined
<1> QED BY <1>2, <1>3 DEF Fit, Typed, Passes

LEMMA MistakenIs ==
  ASSUME Fit, NEW m \in Messages, pass[m].spent
  PROVE  /\ Mistaken(m) \in Pasts /\ Mistaken(m).misled = past.misled /\ Mistaken(m).forgotten = past.forgotten
         /\ Mistaken(m).stray = past.stray /\ Joined(m, Mistaken(m))
         /\ Mistaken(m).missing[sig[m].src] = past.missing[sig[m].src] \cup {InitiationOf[m]}
         /\ \A t \in Sources \ {sig[m].src} : Mistaken(m).missing[t] = past.missing[t]
<1>1. PICK q \in Pasts : q = Admitted(m)
  BY AdmittedIs
<1>2. q.misled = past.misled /\ q.forgotten = past.forgotten /\ q.missing = past.missing /\ q.stray = past.stray /\ Joined(m, q)
  BY <1>1, AdmittedIs
<1>3. sig[m].src \in Sources /\ InitiationOf[m] \in Ids
  BY IdOf DEF Fit, Typed, Recs
<1> DEFINE missing == [q.missing EXCEPT ![sig[m].src] = @ \cup {InitiationOf[m]}]
<1>4. /\ missing \in Notes /\ missing[sig[m].src] = q.missing[sig[m].src] \cup {InitiationOf[m]}
      /\ \A t \in Sources \ {sig[m].src} : missing[t] = q.missing[t]
  BY <1>3 DEF Pasts, Notes
<1>5. Mistaken(m) = [q EXCEPT !.missing = missing]
  BY <1>1 DEF Mistaken
<1> HIDE DEF missing
<1>6. /\ Mistaken(m) \in Pasts /\ Mistaken(m).misled = q.misled /\ Mistaken(m).forgotten = q.forgotten
      /\ Mistaken(m).stray = q.stray /\ Mistaken(m).missing = missing /\ Mistaken(m).admitted = q.admitted
  BY <1>4, <1>5 DEF Pasts
<1> QED BY <1>2, <1>4, <1>6 DEF Joined

LEMMA RollbackIs ==
  ASSUME Fit, NEW m \in Messages, NEW was \in Pasts, Rollback(m, was)
  PROVE  /\ book' \in [Sources -> Books] /\ window' \in [Sources -> SUBSET Ids] /\ past' \in Pasts /\ GivesBack(m, was)
         /\ past'.misled = was.misled /\ past'.forgotten = was.forgotten
<1> DEFINE s == sig[m].src
           i == InitiationOf[m]
<1>1. s \in Sources /\ i \in Ids /\ book \in [Sources -> Books] /\ window \in [Sources -> SUBSET Ids]
  BY IdOf DEF Fit, Typed, Recs
<1>2. CASE pass[m].spent
  <2>1. book' = [book EXCEPT ![s].seen = @ \ {i}] /\ Record(s, book[s].seen \ {i}, was)
    BY <1>2 DEF Rollback, Unspend
  <2> DEFINE b == [book[s] EXCEPT !.seen = @ \ {i}]
  <2>2. b \in Books /\ b.built = book[s].built /\ b.off = book[s].off /\ b.seen = book[s].seen \ {i}
    BY <1>1 DEF Books
  <2>3. book' = [book EXCEPT ![s] = b]
    BY <1>1, <2>1
  <2> HIDE DEF b
  <2>4. book' \in [Sources -> Books] /\ book'[s] = b /\ BooksElsewhere(s)
    BY <1>1, <2>2, <2>3, BookSet DEF Fit
  <2>5. book[s].seen \ {i} \in SUBSET Ids
    BY <1>1 DEF Books
  <2>6. window' \in [Sources -> SUBSET Ids] /\ past' \in Pasts /\ Recorded(s, book[s].seen \ {i}, was)
    BY <1>1, <2>1, <2>5, RecordIs DEF Fit
  <2> QED BY <1>2, <2>2, <2>4, <2>6 DEF GivesBack, Recorded
<1>3. CASE ~pass[m].spent
  BY <1>1, <1>3 DEF Rollback, GivesBack, cooldown
<1> QED BY <1>2, <1>3

LEMMA BacklogFullIs ==
  ASSUME Fit, NEW m \in Messages, BacklogFull(m)
  PROVE  /\ Fit' /\ pass[m].pc = "snap" /\ Returns(m) /\ PassOthers(m) /\ pass'[m].spent = FALSE /\ pass'[m].pc = "snap"
         /\ past'.misled = past.misled /\ past'.forgotten = past.forgotten
         /\ UNCHANGED <<sig, conv, gone, cache>>
<1>1. /\ pass[m].pc = "snap" /\ Rollback(m, past) /\ UNCHANGED <<sig, conv, gone, cache, windows>>
      /\ IF pass[m].spent THEN Toll(sig[m].src) ELSE UNCHANGED faults
  BY DEF BacklogFull, Asks, world
<1>2. pass[m] \in Passes /\ pass[m].rec \in Recs /\ PassingAt(m) /\ past \in Pasts /\ sig[m].src \in Sources
  BY DEF Fit, Typed, Passes, Passing, Recs
<1> DEFINE r == [Unchosen(m) EXCEPT !.phase = "dropped"]
           p == [pass[m] EXCEPT !.spent = FALSE, !.rec = r]
<1>3. pass' = [pass EXCEPT ![m] = p]
  BY <1>2 DEF BacklogFull, Fit, Typed
<1>4. r \in Recs /\ Alike(r, pass[m].rec) /\ r.phase = "dropped"
  BY <1>2, UnclaimedIs DEF Unchosen, Recs, Alike, Phases, Terminal
<1> HIDE DEF r
<1>5. p \in Passes /\ p.pc = pass[m].pc /\ p.spent = FALSE /\ p.to = pass[m].to /\ p.rec = r
  BY <1>2, <1>4 DEF Passes
<1> HIDE DEF p
<1>6. PassOthers(m) /\ pass'[m] = p /\ pass' \in [Messages -> Passes]
  BY <1>3, <1>5, PassSet DEF Fit
<1>7. faults' \in 0..MaxFaults
  BY <1>1, <1>2, TollIs DEF Fit, Typed
<1>8. /\ book' \in [Sources -> Books] /\ window' \in [Sources -> SUBSET Ids] /\ past' \in Pasts /\ GivesBack(m, past)
      /\ past'.misled = past.misled /\ past'.forgotten = past.forgotten
  BY <1>1, <1>2, RollbackIs
<1>9. Typed'
  BY <1>1, <1>6, <1>7, <1>8 DEF Fit, Typed
<1>10. PassingAt(m)'
  <2>1. pass'[m].pc = "snap" /\ pass'[m].to = 0 /\ pass'[m].spent = FALSE /\ pass'[m].rec = r
    BY <1>1, <1>2, <1>5, <1>6 DEF PassingAt
  <2>2. m \in Live' /\ sig'[m] = sig[m] /\ sig[m].claim = Unclaimed /\ Alike(r, sig[m])
    BY <1>1, <1>2, <1>4 DEF PassingAt, Live, Stored, Alike
  <2> QED BY <1>4, <2>1, <2>2 DEF PassingAt, Terminal
<1> QED BY <1>1, <1>5, <1>6, <1>8, <1>9, <1>10, RestPasses DEF Fit, SigOthers, Returns

\* A signal as it is written without its claimants.
Unnamed(m) == SigOthers(m) /\ sig'[m] = Unchosen(m)

LEMMA BacklogFailsIs ==
  ASSUME Fit, NEW m \in Messages, BacklogFails(m)
  PROVE  /\ Fit' /\ pass[m].pc = "snap" /\ Returns(m) /\ PassGone(m) /\ (Unnamed(m) \/ UNCHANGED sig)
         /\ Unchosen(m).phase = pass[m].rec.phase /\ Alike(Unchosen(m), pass[m].rec)
         /\ past'.misled = past.misled /\ past'.forgotten = past.forgotten
         /\ UNCHANGED <<conv, gone, cache>>
<1>1. /\ pass[m].pc = "snap" /\ Fault /\ Rollback(m, past) /\ EndPass(m) /\ (Write(m, Unchosen(m)) \/ UNCHANGED sig)
      /\ UNCHANGED <<conv, gone, cache, windows>>
  BY DEF BacklogFails, Asks, world
<1>2. pass[m].rec \in Recs /\ past \in Pasts
  BY DEF Fit, Typed, Passes
<1>3. Unchosen(m) \in Recs /\ Unchosen(m).phase = pass[m].rec.phase /\ Alike(Unchosen(m), pass[m].rec)
  BY <1>2, UnclaimedIs DEF Unchosen, Recs, Alike
<1>4. (Unnamed(m) \/ UNCHANGED sig) /\ SigOthers(m) /\ sig' \in [Messages -> Recs]
  BY <1>1, <1>3, WroteTyped DEF Fit, Typed, Unnamed, SigOthers
<1>5. PassGone(m) /\ pass' \in [Messages -> Passes]
  BY <1>1, EndPassIs DEF Fit
<1>6. /\ book' \in [Sources -> Books] /\ window' \in [Sources -> SUBSET Ids] /\ past' \in Pasts /\ GivesBack(m, past)
      /\ past'.misled = past.misled /\ past'.forgotten = past.forgotten
  BY <1>1, <1>2, RollbackIs
<1>7. Typed'
  BY <1>1, <1>4, <1>5, <1>6, FaultIs DEF Fit, Typed
<1> QED BY <1>1, <1>3, <1>4, <1>5, <1>6, <1>7, GoneFits DEF Fit, Returns

LEMMA SnapshotIs ==
  ASSUME Fit, NEW m \in Messages, Snapshot(m)
  PROVE  /\ Fit' /\ pass[m].pc = "snap" /\ PassOthers(m) /\ pass'[m].spent = FALSE
         /\ (pass'[m].pc = "route" \/ pass'[m] = NoPass)
         /\ (Enters(m) \/ (Returns(m) /\ UNCHANGED sig) \/ Mistakes(m))
         /\ past'.misled = past.misled /\ past'.forgotten = past.forgotten
         /\ UNCHANGED <<conv, gone, cache>>
<1>1. pass[m].pc = "snap" /\ UNCHANGED <<conv, gone, cache, windows>>
  BY DEF Snapshot, world
<1>2. pass[m] \in Passes /\ pass[m].rec \in Recs /\ pass[m].rec.claim \in Claims /\ past \in Pasts
  BY DEF Fit, Typed, Passes, Recs
<1>3. ASSUME Write(m, pass[m].rec) PROVE Wrote(m) /\ sig' \in [Messages -> Recs]
  BY <1>2, <1>3, WroteTyped DEF Fit, Wrote
<1>4. CASE Write(m, pass[m].rec) /\ past' = Admitted(m) /\ pass[m].rec.phase \in Terminal /\ EndPass(m)
           /\ UNCHANGED <<book, window, faults>>
  <2>1. PassGone(m) /\ pass' \in [Messages -> Passes]
    BY <1>4, EndPassIs DEF Fit
  <2>2. Typed'
    BY <1>1, <1>3, <1>4, <2>1, AdmittedIs DEF Fit, Typed
  <2>3. Enters(m) /\ PassOthers(m) /\ pass'[m] = NoPass /\ pass'[m].spent = FALSE
    BY <1>3, <1>4, <2>1, NoPassIs DEF Enters, PassGone
  <2> QED BY <1>1, <1>3, <1>4, <2>1, <2>2, <2>3, AdmittedIs, GoneFits DEF Fit, Wrote
<1>5. CASE /\ Write(m, pass[m].rec) /\ past' = Admitted(m) /\ pass[m].rec.phase \notin Terminal
           /\ pass' = [pass EXCEPT ![m].pc = "route", ![m].spent = FALSE,
                         ![m].todo = {c \in Claimants : pass[m].rec.claim[c] = "routing"}]
           /\ UNCHANGED <<book, window, faults>>
  <2> DEFINE p == [pass[m] EXCEPT !.pc = "route", !.spent = FALSE, !.todo = {c \in Claimants : pass[m].rec.claim[c] = "routing"}]
  <2>1. p \in Passes /\ p.pc = "route" /\ p.spent = FALSE /\ p.to = pass[m].to /\ p.rec = pass[m].rec
    BY <1>2 DEF Passes, Pcs
  <2>2. pass' = [pass EXCEPT ![m] = p]
    BY <1>5 DEF Fit, Typed
  <2> HIDE DEF p
  <2>3. PassOthers(m) /\ pass'[m] = p /\ pass' \in [Messages -> Passes]
    BY <2>1, <2>2, PassSet DEF Fit
  <2>4. Typed'
    BY <1>1, <1>3, <1>5, <2>3, AdmittedIs DEF Fit, Typed
  <2>5. Enters(m)
    BY <1>3, <1>5 DEF Enters
  <2>6. PassingAt(m)'
    <3>1. /\ pass[m].to = 0 /\ pass[m].rec.claim # Unclaimed /\ pass[m].rec.phase # "absent"
      BY <1>1, <1>5 DEF Fit, Passing, PassingAt
    <3>2. sig'[m] = pass[m].rec /\ m \in Live'
      BY <1>3, <1>5, <3>1 DEF Wrote, Live, Stored
    <3> QED BY <1>5, <2>1, <2>3, <3>1, <3>2 DEF PassingAt, Alike
  <2> QED BY <1>1, <1>3, <1>5, <2>1, <2>3, <2>4, <2>5, <2>6, AdmittedIs, RestPasses DEF Fit, Wrote
<1>6. CASE Fault /\ Rollback(m, past) /\ EndPass(m) /\ UNCHANGED sig
  <2>1. PassGone(m) /\ pass' \in [Messages -> Passes]
    BY <1>6, EndPassIs DEF Fit
  <2>2. /\ book' \in [Sources -> Books] /\ window' \in [Sources -> SUBSET Ids] /\ past' \in Pasts /\ GivesBack(m, past)
        /\ past'.misled = past.misled /\ past'.forgotten = past.forgotten
    BY <1>2, <1>6, RollbackIs
  <2>3. Typed'
    BY <1>1, <1>6, <2>1, <2>2, FaultIs DEF Fit, Typed
  <2> QED BY <1>1, <1>6, <2>1, <2>2, <2>3, NoPassIs, GoneFits DEF Fit, Returns, SigOthers, PassGone
<1>7. CASE Fault /\ Rollback(m, Mistaken(m)) /\ EndPass(m) /\ Write(m, pass[m].rec)
  <2>1. PassGone(m) /\ pass' \in [Messages -> Passes]
    BY <1>7, EndPassIs DEF Fit
  <2>2. PICK q \in Pasts : q = Mistaken(m) /\ q.misled = past.misled /\ q.forgotten = past.forgotten
    BY <1>2, MistakenIs DEF Mistaken
  <2>3. /\ book' \in [Sources -> Books] /\ window' \in [Sources -> SUBSET Ids] /\ past' \in Pasts /\ GivesBack(m, q)
        /\ past'.misled = past.misled /\ past'.forgotten = past.forgotten
    BY <1>7, <2>2, RollbackIs
  <2>4. Typed'
    BY <1>1, <1>3, <1>7, <2>1, <2>3, FaultIs DEF Fit, Typed
  <2>5. Mistakes(m)
    BY <1>3, <1>7, <2>2, <2>3 DEF Mistakes
  <2> QED BY <1>1, <1>3, <1>7, <2>1, <2>3, <2>4, <2>5, NoPassIs, GoneFits DEF Fit, Wrote, PassGone
<1> QED BY <1>4, <1>5, <1>6, <1>7 DEF Snapshot, cooldown

-----------------------------------------------------------------------------
(* What each action does: a pass routes, and conversations go on. *)

LEMMA AppendIs ==
  ASSUME NEW s \in Seq(Messages), NEW m \in Messages
  PROVE  /\ Append(s, m) \in Seq(Messages) /\ DOMAIN s = 1..Len(s) /\ DOMAIN Append(s, m) = 1..(Len(s) + 1) /\ Len(s) \in Nat
         /\ (\A k \in 1..Len(s) : Append(s, m)[k] = s[k]) /\ Append(s, m)[Len(s) + 1] = m
OBVIOUS

LEMMA ElemsOf ==
  /\ Elems(<<>>) = {}
  /\ \A s \in Seq(Messages) : Elems(s) \subseteq Messages /\ \A m \in Messages : Elems(Append(s, m)) = Elems(s) \cup {m}
<1>1. ASSUME NEW s \in Seq(Messages), NEW m \in Messages PROVE Elems(Append(s, m)) = Elems(s) \cup {m}
  <2>1. PICK a \in Seq(Messages) :
          /\ a = Append(s, m) /\ DOMAIN s = 1..Len(s) /\ DOMAIN a = 1..(Len(s) + 1) /\ Len(s) \in Nat
          /\ (\A k \in 1..Len(s) : a[k] = s[k]) /\ a[Len(s) + 1] = m
    BY AppendIs
  <2>2. 1..(Len(s) + 1) = 1..Len(s) \cup {Len(s) + 1}
    BY <2>1
  <2> QED BY <2>1, <2>2 DEF Elems
<1>2. ASSUME NEW s \in Seq(Messages) PROVE Elems(s) \subseteq Messages
  BY DEF Elems
<1>3. Elems(<<>>) = {}
  BY DEF Elems
<1> QED BY <1>1, <1>2, <1>3

LEMMA ElemsHead ==
  ASSUME NEW q \in Seq(Messages), q # <<>>
  PROVE  Head(q) \in Messages /\ Elems(q) \subseteq {Head(q)} \cup Elems(Tail(q))
<1>1. PICK t \in Seq(Messages) : t = Tail(q) /\ DOMAIN t = 1..(Len(q) - 1) /\ \A k \in 1..(Len(q) - 1) : t[k] = q[k + 1]
  <2>1. Tail(q) \in Seq(Messages) /\ DOMAIN Tail(q) = 1..(Len(q) - 1) /\ \A k \in 1..(Len(q) - 1) : Tail(q)[k] = q[k + 1]
    OBVIOUS
  <2> QED BY <2>1
<1>2. Head(q) = q[1] /\ q[1] \in Messages /\ DOMAIN q = 1..Len(q) /\ Len(q) \in Nat
  OBVIOUS
<1>3. ASSUME NEW k \in 1..Len(q), k # 1 PROVE q[k] \in Elems(t)
  <2>1. k - 1 \in 1..(Len(q) - 1) /\ t[k - 1] = q[k]
    BY <1>1, <1>2, <1>3
  <2> QED BY <1>1, <2>1 DEF Elems
<1> QED BY <1>1, <1>2, <1>3 DEF Elems

\* A conversation is told one new message by a pass, is new, or goes on; and it does not
\* forget one that waits without the history saying so.
Heard(v) == Elems(conv[v].queue) \cup conv[v].known
SameConv(v) ==
  conv'[v].made = conv[v].made /\ conv'[v].by = conv[v].by /\ conv'[v].id = conv[v].id /\ conv'[v].from = conv[v].from
GoesOn(v) ==
  /\ SameConv(v) /\ (conv'[v].open => conv[v].open) /\ Said(v)' = Said(v)
  /\ \A k \in Heard(v) : k \in Heard(v)' \/ k \in past'.forgotten \/ k \notin Live
Told(m, v) ==
  /\ pass[m].pc = "append" /\ pass[m].to = v /\ SameConv(v) /\ conv'[v].open = conv[v].open
  /\ m \notin Heard(v) /\ Heard(v) \cup {m} \subseteq Heard(v)' /\ Said(v)' = Append(Said(v), m)
New(v) == ~conv[v].made /\ conv'[v].made /\ Said(v)' = <<>>
ConvStep(v) == GoesOn(v) \/ (\E m \in Messages : Told(m, v)) \/ New(v)

LEMMA SaidIs ==
  ASSUME Typed, NEW v \in Convs
  PROVE  conv[v].ran \in Seq(Messages) /\ conv[v].queue \in Seq(Messages) /\ Said(v) \in Seq(Messages)
BY DEF Typed, ConvRecs, Said

LEMMA SameGoesOn == ASSUME NEW v \in Convs, conv'[v] = conv[v] PROVE GoesOn(v)
BY DEF GoesOn, SameConv, Said, Heard

LEMMA ToldIs ==
  ASSUME NEW r \in Seq(Messages), NEW q \in Seq(Messages), NEW m \in Messages
  PROVE  r \o Append(q, m) = Append(r \o q, m)
OBVIOUS

LEMMA ConcatIs ==
  ASSUME NEW s \in Seq(Messages), NEW u \in Seq(Messages)
  PROVE  /\ s \o u \in Seq(Messages) /\ Len(s \o u) = Len(s) + Len(u)
         /\ (\A k \in 1..Len(s) : (s \o u)[k] = s[k]) /\ \A k \in 1..Len(u) : (s \o u)[Len(s) + k] = u[k]
OBVIOUS

LEMMA AnsweredIs ==
  ASSUME NEW r \in Seq(Messages), NEW q \in Seq(Messages), q # <<>>
  PROVE  /\ Append(r, Head(q)) \o Tail(q) = r \o q /\ Append(r, Head(q)) \in Seq(Messages) /\ Tail(q) \in Seq(Messages)
<1>1. Len(r) \in Nat /\ Len(q) \in Nat /\ Len(q) > 0 /\ Head(q) = q[1] /\ q[1] \in Messages
  OBVIOUS
<1>2. PICK a \in Seq(Messages) : a = Append(r, Head(q)) /\ Len(a) = Len(r) + 1 /\ (\A k \in 1..Len(r) : a[k] = r[k]) /\ a[Len(r) + 1] = q[1]
  <2>1. /\ Append(r, q[1]) \in Seq(Messages) /\ Len(Append(r, q[1])) = Len(r) + 1
        /\ (\A k \in 1..Len(r) : Append(r, q[1])[k] = r[k]) /\ Append(r, q[1])[Len(r) + 1] = q[1]
    BY <1>1
  <2> QED BY <1>1, <2>1
<1>3. PICK t \in Seq(Messages) : t = Tail(q) /\ Len(t) = Len(q) - 1 /\ \A k \in 1..(Len(q) - 1) : t[k] = q[k + 1]
  <2>1. Tail(q) \in Seq(Messages) /\ Len(Tail(q)) = Len(q) - 1 /\ \A k \in 1..(Len(q) - 1) : Tail(q)[k] = q[k + 1]
    BY <1>1
  <2> QED BY <2>1
<1>4. /\ a \o t \in Seq(Messages) /\ Len(a \o t) = Len(r) + Len(q)
      /\ (\A k \in 1..(Len(r) + 1) : (a \o t)[k] = a[k]) /\ \A k \in 1..(Len(q) - 1) : (a \o t)[Len(r) + 1 + k] = t[k]
  BY <1>1, <1>2, <1>3, ConcatIs
<1>5. /\ r \o q \in Seq(Messages) /\ Len(r \o q) = Len(r) + Len(q)
      /\ (\A k \in 1..Len(r) : (r \o q)[k] = r[k]) /\ \A k \in 1..Len(q) : (r \o q)[Len(r) + k] = q[k]
  BY ConcatIs
<1>6. ASSUME NEW k \in 1..(Len(r) + Len(q)) PROVE (a \o t)[k] = (r \o q)[k]
  <2>1. CASE k <= Len(r)
    BY <1>1, <1>2, <1>4, <1>5, <2>1
  <2>2. CASE k = Len(r) + 1
    BY <1>1, <1>2, <1>4, <1>5, <2>2
  <2>3. CASE k > Len(r) + 1
    <3>1. PICK j \in 1..(Len(q) - 1) : k = Len(r) + 1 + j
      <4>1. k - (Len(r) + 1) \in 1..(Len(q) - 1) /\ k = Len(r) + 1 + (k - (Len(r) + 1))
        BY <1>1, <2>3
      <4> QED BY <4>1
    <3>2. j + 1 \in 1..Len(q) /\ k = Len(r) + (j + 1)
      BY <1>1, <3>1
    <3> QED BY <1>3, <1>4, <1>5, <3>1, <3>2
  <2>4. k <= Len(r) \/ k = Len(r) + 1 \/ k > Len(r) + 1
    BY <1>1
  <2> QED BY <2>1, <2>2, <2>3, <2>4
<1>7. a \o t = r \o q
  BY <1>4, <1>5, <1>6
<1> QED BY <1>2, <1>3, <1>7

LEMMA AppendedIs ==
  ASSUME Fit, NEW m \in Messages, pass[m].pc = "append", conv' = Appended(m, pass[m].to)
  PROVE  conv' \in [Convs -> ConvRecs] /\ \A v \in Convs : GoesOn(v) \/ Told(m, v)
<1>1. PICK to \in Convs : to = pass[m].to /\ conv \in [Convs -> ConvRecs]
  BY DEF Fit, Typed, Passing, PassingAt, Passes
<1>2. conv[to] \in ConvRecs /\ conv[to].ran \in Seq(Messages) /\ conv[to].queue \in Seq(Messages)
  BY <1>1 DEF ConvRecs
<1>3. CASE Delivered(m, to)
  BY <1>1, <1>3, SameGoesOn DEF Appended
<1>4. CASE ~Delivered(m, to)
  <2> DEFINE r == [conv[to] EXCEPT !.queue = Append(@, m)]
  <2>1. conv' = [conv EXCEPT ![to] = r]
    BY <1>1, <1>4 DEF Appended
  <2>q. Append(conv[to].queue, m) \in Seq(Messages)
    BY <1>2
  <2>2. /\ r \in ConvRecs /\ r.made = conv[to].made /\ r.open = conv[to].open /\ r.by = conv[to].by /\ r.id = conv[to].id
        /\ r.from = conv[to].from /\ r.ran = conv[to].ran /\ r.queue = Append(conv[to].queue, m) /\ r.known = conv[to].known
    BY <1>2, <2>q DEF ConvRecs
  <2> HIDE DEF r
  <2>3. conv' \in [Convs -> ConvRecs] /\ conv'[to] = r /\ \A v \in Convs \ {to} : conv'[v] = conv[v]
    BY <1>1, <2>1, <2>2
  <2>4. Said(to)' = Append(Said(to), m)
    <3>1. conv[to].ran \o Append(conv[to].queue, m) = Append(conv[to].ran \o conv[to].queue, m)
      BY <1>2, ToldIs
    <3>2. conv'[to].ran = conv[to].ran /\ conv'[to].queue = Append(conv[to].queue, m)
      BY <2>2, <2>3
    <3> QED BY <3>1, <3>2 DEF Said
  <2>5. m \notin Heard(to) /\ Heard(to) \cup {m} \subseteq Heard(to)'
    <3>1. Elems(Append(conv[to].queue, m)) = Elems(conv[to].queue) \cup {m}
      BY <1>2, ElemsOf
    <3> QED BY <1>4, <2>2, <2>3, <3>1 DEF Delivered, Heard
  <2>6. Told(m, to)
    BY <1>1, <2>2, <2>3, <2>4, <2>5 DEF Told, SameConv
  <2>7. \A v \in Convs \ {to} : GoesOn(v)
    BY <2>3, SameGoesOn
  <2> QED BY <2>3, <2>6, <2>7
<1> QED BY <1>3, <1>4

\* A pass at a claimant of its message.
Routes(m) ==
  /\ pass[m].pc \in {"route", "append"} /\ PassOthers(m) /\ pass'[m].pc \in {"route", "append"} /\ pass'[m].spent = FALSE
  /\ UNCHANGED <<sig, book, window, gone, cache>>

\* What a pass makes of what it has in hand when it routes.
LEMMA RoutesFits ==
  ASSUME Fit, Typed', NEW m \in Messages, Routes(m), pass'[m].pc = "append" <=> pass'[m].to # 0,
         Alike(pass'[m].rec, pass[m].rec), pass'[m].rec.phase = pass[m].rec.phase,
         pass'[m].rec.claim = pass[m].rec.claim \/ pass'[m].rec.claim # Unclaimed
  PROVE  Fit'
<1>1. PassingAt(m) /\ sig'[m] = sig[m] /\ (m \in Live => m \in Live')
  BY DEF Fit, Passing, Routes, Live, Stored
<1>2. PassingAt(m)'
  BY <1>1 DEF Routes, PassingAt, Alike
<1> QED BY <1>2, RestPasses DEF Fit, Routes, SigOthers

LEMMA ClaimSet ==
  ASSUME NEW claim \in Claims, NEW c, NEW s \in Fates \ {"none"}
  PROVE  [claim EXCEPT ![c] = s] \in Claims
         /\ (claim # Unclaimed => [claim EXCEPT ![c] = s] # Unclaimed)
<1>1. [claim EXCEPT ![c] = s] \in Claims
  BY DEF Claims
<1>2. CASE c \in Claimants
  <2>1. [claim EXCEPT ![c] = s][c] = s
    BY <1>2 DEF Claims
  <2> QED BY <1>1, <1>2, <2>1, UnclaimedIs
<1>3. CASE c \notin Claimants
  <2>1. [claim EXCEPT ![c] = s] = claim
    BY <1>3 DEF Claims
  <2> QED BY <1>1, <2>1
<1> QED BY <1>2, <1>3

LEMMA ListedIs == ASSUME Typed PROVE Listed.open \in SUBSET Convs /\ Listed.live \in SUBSET Messages
BY ViewIs DEF Listed, Typed, Caches

LEMMA SkipGoneIs ==
  ASSUME Fit, NEW m \in Messages, NEW c \in Claimants, SkipGone(m, c)
  PROVE  Fit' /\ Routes(m) /\ pass'[m].pc = "route" /\ UNCHANGED <<conv, past>>
<1>1. /\ pass[m].pc = "route" /\ pass' = [pass EXCEPT ![m].todo = @ \ {c}, ![m].rec.claim[c] = "skipped"]
      /\ UNCHANGED <<sig, book, window, conv, gone, cache, windows, faults, past>>
  BY DEF SkipGone, cooldown, world
<1>2. pass[m] \in Passes /\ pass[m].rec \in Recs /\ pass[m].rec.claim \in Claims /\ PassingAt(m)
  BY DEF Fit, Typed, Passes, Recs, Passing
<1> DEFINE claim == [pass[m].rec.claim EXCEPT ![c] = "skipped"]
           r == [pass[m].rec EXCEPT !.claim = claim]
           p == [pass[m] EXCEPT !.todo = pass[m].todo \ {c}, !.rec = r]
<1>3. pass' = [pass EXCEPT ![m] = p]
  BY <1>1, <1>2 DEF Fit, Typed, Passes, Recs, Claims
<1>4. claim \in Claims /\ (pass[m].rec.claim # Unclaimed => claim # Unclaimed)
  BY <1>2, ClaimSet DEF Fates
<1> HIDE DEF claim
<1>5. r \in Recs /\ Alike(r, pass[m].rec) /\ r.phase = pass[m].rec.phase /\ r.claim = claim
  BY <1>2, <1>4 DEF Recs, Alike
<1> HIDE DEF r
<1>6. p \in Passes /\ p.pc = pass[m].pc /\ p.spent = pass[m].spent /\ p.to = pass[m].to /\ p.rec = r
  BY <1>2, <1>5 DEF Passes
<1> HIDE DEF p
<1>7. PassOthers(m) /\ pass'[m] = p /\ pass' \in [Messages -> Passes]
  BY <1>3, <1>6, PassSet DEF Fit
<1>8. pass[m].spent = FALSE /\ pass[m].to = 0 /\ pass[m].rec.claim # Unclaimed
  BY <1>1, <1>2 DEF PassingAt, Passes
<1>9. Typed'
  BY <1>1, <1>7 DEF Fit, Typed
<1>10. Routes(m)
  BY <1>1, <1>6, <1>7, <1>8 DEF Routes
<1> QED BY <1>1, <1>4, <1>5, <1>6, <1>7, <1>8, <1>9, <1>10, RoutesFits

LEMMA RouteWaitsIs ==
  ASSUME Fit, NEW m \in Messages, NEW c \in Claimants, RouteWaits(m, c)
  PROVE  Fit' /\ Routes(m) /\ pass'[m].pc = "route" /\ UNCHANGED <<conv, past>>
<1>1. /\ pass[m].pc = "route" /\ pass' = [pass EXCEPT ![m].todo = @ \ {c}]
      /\ UNCHANGED <<sig, book, window, conv, gone, cache, windows, faults, past>>
  BY DEF RouteWaits, cooldown, world
<1>2. pass[m] \in Passes /\ PassingAt(m)
  BY DEF Fit, Typed, Passing
<1> DEFINE p == [pass[m] EXCEPT !.todo = pass[m].todo \ {c}]
<1>3. pass' = [pass EXCEPT ![m] = p]
  BY <1>1, <1>2 DEF Fit, Typed, Passes
<1>4. p \in Passes /\ p.pc = pass[m].pc /\ p.spent = pass[m].spent /\ p.to = pass[m].to /\ p.rec = pass[m].rec
  BY <1>2 DEF Passes
<1> HIDE DEF p
<1>5. PassOthers(m) /\ pass'[m] = p /\ pass' \in [Messages -> Passes]
  BY <1>3, <1>4, PassSet DEF Fit
<1>6. pass[m].spent = FALSE /\ pass[m].to = 0
  BY <1>1, <1>2 DEF PassingAt, Passes
<1>7. Typed'
  BY <1>1, <1>5 DEF Fit, Typed
<1>8. Routes(m)
  BY <1>1, <1>4, <1>5, <1>6 DEF Routes
<1> QED BY <1>1, <1>4, <1>5, <1>6, <1>7, <1>8, RoutesFits DEF Alike

LEMMA GoesIs ==
  ASSUME Fit, NEW m \in Messages, NEW c \in Claimants, NEW v \in Convs, pass[m].pc = "route", Goes(m, c, v)
  PROVE  /\ PassOthers(m) /\ pass' \in [Messages -> Passes] /\ pass'[m].pc = "append" /\ pass'[m].to = v /\ v # 0
         /\ pass'[m].spent = FALSE /\ pass'[m].rec = pass[m].rec
<1>1. pass[m] \in Passes /\ pass[m].spent = FALSE /\ v # 0
  BY Bounds DEF Fit, Typed, Passing, PassingAt, Passes
<1> DEFINE p == [pass[m] EXCEPT !.pc = "append", !.to = v, !.todo = pass[m].todo \ {c}]
<1>2. pass' = [pass EXCEPT ![m] = p]
  BY <1>1 DEF Fit, Typed, Passes, Goes
<1>3. p \in Passes /\ p.pc = "append" /\ p.spent = FALSE /\ p.to = v /\ p.rec = pass[m].rec
  BY <1>1 DEF Passes, Pcs
<1> HIDE DEF p
<1> QED BY <1>1, <1>2, <1>3, PassSet DEF Fit

LEMMA RouteReusesIs ==
  ASSUME Fit, NEW m \in Messages, NEW c \in Claimants, RouteReuses(m, c)
  PROVE  /\ Fit' /\ Routes(m) /\ pass'[m].pc = "append" /\ pass'[m].to \in Reusable(m, c)
         /\ pass'[m].to \in Convs /\ UNCHANGED <<conv, past>>
<1>1. pass[m].pc = "route" /\ UNCHANGED <<sig, book, window, conv, gone, cache, windows, faults, past>>
  BY DEF RouteReuses, cooldown, world
<1>2. PICK v \in Reusable(m, c) : Goes(m, c, v)
  BY DEF RouteReuses
<1>3. v \in Convs
  BY ListedIs DEF Fit, Reusable
<1>4. /\ PassOthers(m) /\ pass' \in [Messages -> Passes] /\ pass'[m].pc = "append" /\ pass'[m].to = v /\ v # 0
      /\ pass'[m].spent = FALSE /\ pass'[m].rec = pass[m].rec
  BY <1>1, <1>2, <1>3, GoesIs
<1>5. Typed'
  BY <1>1, <1>4 DEF Fit, Typed
<1>6. Routes(m)
  BY <1>1, <1>4 DEF Routes
<1> QED BY <1>1, <1>2, <1>3, <1>4, <1>5, <1>6, RoutesFits DEF Alike

\* A conversation of the claimant's is made; Unlisted says that there was an open one the list did not show.
Makes(m, c) ==
  \E v \in Convs :
    /\ ~conv[v].made /\ pass'[m].to = v /\ New(v) /\ \A w \in Convs \ {v} : conv'[w] = conv[w]
    /\ conv'[v].by = c /\ conv'[v].id = InitiationOf[m] /\ conv'[v].from = sig[m].src
Unlisted(m, c) ==
  \E v \in Open \ Listed.open : conv[v].by = c /\ conv[v].id = InitiationOf[m] /\ conv[v].from = sig[m].src

LEMMA RouteCreatesIs ==
  ASSUME Fit, NEW m \in Messages, NEW c \in Claimants, RouteCreates(m, c)
  PROVE  /\ Fit' /\ Routes(m) /\ pass'[m].pc = "append" /\ Reusable(m, c) = {} /\ Makes(m, c)
         /\ (past'.misled <=> past.misled \/ Unlisted(m, c))
         /\ past'.forgotten = past.forgotten /\ SameAccount
<1>1. pass[m].pc = "route" /\ Reusable(m, c) = {} /\ UNCHANGED <<sig, book, window, gone, cache, windows, faults>>
  BY DEF RouteCreates, cooldown, world
<1>2. PICK v \in Convs :
        /\ ~conv[v].made /\ Goes(m, c, v)
        /\ conv' = [conv EXCEPT ![v] = [NoConv EXCEPT !.made = TRUE, !.open = TRUE, !.by = c,
                                          !.id = InitiationOf[m], !.from = sig[m].src]]
  BY DEF RouteCreates
<1>3. /\ PassOthers(m) /\ pass' \in [Messages -> Passes] /\ pass'[m].pc = "append" /\ pass'[m].to = v /\ v # 0
      /\ pass'[m].spent = FALSE /\ pass'[m].rec = pass[m].rec
  BY <1>1, <1>2, GoesIs
<1> DEFINE r == [NoConv EXCEPT !.made = TRUE, !.open = TRUE, !.by = c, !.id = InitiationOf[m], !.from = sig[m].src]
<1>4. sig[m].src \in Sources /\ InitiationOf[m] \in Ids
  BY IdOf DEF Fit, Typed, Recs
<1>5. /\ r \in ConvRecs /\ r.made /\ r.by = c /\ r.id = InitiationOf[m] /\ r.from = sig[m].src
      /\ r.queue = <<>> /\ r.ran = <<>>
  BY <1>4, NoConvIs DEF ConvRecs
<1>6. conv' = [conv EXCEPT ![v] = r]
  BY <1>2
<1> HIDE DEF r
<1>7. conv' \in [Convs -> ConvRecs] /\ conv'[v] = r /\ \A w \in Convs \ {v} : conv'[w] = conv[w]
  BY <1>5, <1>6 DEF Fit, Typed
<1>8. Makes(m, c)
  <2>1. Said(v)' = <<>>
    BY <1>5, <1>7 DEF Said
  <2> QED BY <1>2, <1>3, <1>5, <1>7, <2>1 DEF Makes, New
<1>9. /\ past' \in Pasts /\ (past'.misled <=> past.misled \/ Unlisted(m, c))
      /\ past'.forgotten = past.forgotten /\ SameAccount
  <2> DEFINE B == Unlisted(m, c)
  <2>1. B \in BOOLEAN
    BY DEF Unlisted
  <2>2. past' = [past EXCEPT !.misled = @ \/ B] /\ past \in Pasts
    BY DEF RouteCreates, Unlisted, Fit, Typed
  <2> HIDE DEF B
  <2>3. /\ past' \in Pasts /\ (past'.misled <=> past.misled \/ B)
        /\ past'.forgotten = past.forgotten /\ SameAccount
    BY <2>1, <2>2 DEF Pasts, SameAccount
  <2> QED BY <2>3 DEF B
<1>10. Typed'
  BY <1>1, <1>3, <1>7, <1>9 DEF Fit, Typed
<1>11. Routes(m)
  BY <1>1, <1>3 DEF Routes
<1> QED BY <1>1, <1>3, <1>8, <1>9, <1>10, <1>11, RoutesFits DEF Alike

LEMMA AppendInputIs ==
  ASSUME Fit, NEW m \in Messages, AppendInput(m)
  PROVE  /\ Fit' /\ Routes(m) /\ pass'[m].pc = "route" /\ (\A v \in Convs : GoesOn(v) \/ Told(m, v)) /\ UNCHANGED past
<1>1. /\ pass[m].pc = "append" /\ conv' = Appended(m, pass[m].to)
      /\ UNCHANGED <<sig, book, window, gone, cache, windows, faults, past>>
  BY DEF AppendInput, cooldown, world
<1>2. conv' \in [Convs -> ConvRecs] /\ \A v \in Convs : GoesOn(v) \/ Told(m, v)
  BY <1>1, AppendedIs
<1>3. pass[m] \in Passes /\ pass[m].rec \in Recs /\ pass[m].rec.claim \in Claims /\ PassingAt(m)
  BY DEF Fit, Typed, Passes, Recs, Passing
<1>4. PICK c : c = conv[pass[m].to].by
  OBVIOUS
<1> DEFINE claim == [pass[m].rec.claim EXCEPT ![c] = "routed"]
           r == [pass[m].rec EXCEPT !.claim = claim]
           p == [pass[m] EXCEPT !.pc = "route", !.to = 0, !.rec = r]
<1>5. pass' = [pass EXCEPT ![m] = p]
  BY <1>3, <1>4 DEF AppendInput, Fit, Typed, Passes, Recs, Claims
<1>6. claim \in Claims /\ (pass[m].rec.claim # Unclaimed => claim # Unclaimed)
  BY <1>3, ClaimSet DEF Fates
<1> HIDE DEF claim
<1>7. r \in Recs /\ Alike(r, pass[m].rec) /\ r.phase = pass[m].rec.phase /\ r.claim = claim
  BY <1>3, <1>6 DEF Recs, Alike
<1> HIDE DEF r
<1>8. p \in Passes /\ p.pc = "route" /\ p.spent = pass[m].spent /\ p.to = 0 /\ p.rec = r
  BY <1>3, <1>7 DEF Passes, Pcs
<1> HIDE DEF p
<1>9. PassOthers(m) /\ pass'[m] = p /\ pass' \in [Messages -> Passes]
  BY <1>5, <1>8, PassSet DEF Fit
<1>10. pass[m].spent = FALSE /\ pass[m].rec.claim # Unclaimed
  BY <1>1, <1>3 DEF PassingAt, Passes
<1>11. Typed'
  BY <1>1, <1>2, <1>9 DEF Fit, Typed
<1>12. Routes(m)
  BY <1>1, <1>8, <1>9, <1>10 DEF Routes
<1> QED BY <1>1, <1>2, <1>6, <1>7, <1>8, <1>9, <1>10, <1>11, <1>12, RoutesFits

LEMMA RouteFailsIs ==
  ASSUME Fit, NEW m \in Messages, RouteFails(m)
  PROVE  /\ Fit' /\ Routes(m) /\ pass'[m].pc = "route" /\ (\A v \in Convs : GoesOn(v) \/ Told(m, v)) /\ UNCHANGED past
<1>1. /\ pass[m].pc \in {"route", "append"} /\ pass' = [pass EXCEPT ![m].pc = "route", ![m].to = 0, ![m].todo = {}]
      /\ Fault /\ UNCHANGED <<sig, book, window, gone, cache, windows, past>>
  BY DEF RouteFails, cooldown, world
<1>2. conv' \in [Convs -> ConvRecs] /\ \A v \in Convs : GoesOn(v) \/ Told(m, v)
  <2>1. CASE UNCHANGED conv
    BY <2>1, SameGoesOn DEF Fit, Typed
  <2>2. CASE pass[m].pc = "append" /\ conv' = Appended(m, pass[m].to)
    BY <2>2, AppendedIs
  <2> QED BY <2>1, <2>2 DEF RouteFails
<1>3. pass[m] \in Passes /\ PassingAt(m)
  BY DEF Fit, Typed, Passing
<1> DEFINE p == [pass[m] EXCEPT !.pc = "route", !.to = 0, !.todo = {}]
<1>4. pass' = [pass EXCEPT ![m] = p]
  BY <1>1, <1>3 DEF Fit, Typed, Passes
<1>5. p \in Passes /\ p.pc = "route" /\ p.spent = pass[m].spent /\ p.to = 0 /\ p.rec = pass[m].rec
  BY <1>3 DEF Passes, Pcs
<1> HIDE DEF p
<1>6. PassOthers(m) /\ pass'[m] = p /\ pass' \in [Messages -> Passes]
  BY <1>4, <1>5, PassSet DEF Fit
<1>7. pass[m].spent = FALSE
  BY <1>1, <1>3 DEF PassingAt, Passes
<1>8. Typed'
  BY <1>1, <1>2, <1>6, FaultIs DEF Fit, Typed
<1>9. Routes(m)
  BY <1>1, <1>5, <1>6, <1>7 DEF Routes
<1> QED BY <1>1, <1>2, <1>5, <1>6, <1>8, <1>9, RoutesFits DEF Alike

LEMMA PassSavesIs ==
  ASSUME Fit, NEW m \in Messages, PassSaves(m)
  PROVE  /\ Fit' /\ pass[m].pc = "route" /\ PassGone(m) /\ SigOthers(m) /\ UNCHANGED <<book, window, conv, gone, cache, past>>
         /\ \/ sig'[m] = sig[m]
            \/ Alike(sig'[m], sig[m]) /\ sig'[m].phase # "absent" /\ sig'[m].claim # Unclaimed
<1>1. pass[m].pc = "route" /\ EndPass(m) /\ UNCHANGED <<book, window, conv, gone, cache, windows, past>>
  BY DEF PassSaves, cooldown, world
<1>2. pass[m].rec \in Recs /\ pass[m].rec.claim \in Claims /\ pass[m].rec.claim # Unclaimed /\ Alike(pass[m].rec, sig[m])
  BY <1>1 DEF Fit, Typed, Passes, Recs, Passing, PassingAt
<1> DEFINE r == [pass[m].rec EXCEPT !.phase = Rollup(pass[m].rec.claim)]
<1>3. r \in Recs /\ Alike(r, sig[m]) /\ r.phase # "absent" /\ r.claim = pass[m].rec.claim
  <2>1. PICK phase \in {"pending", "partial", "routed", "failed"} : phase = Rollup(pass[m].rec.claim)
    BY <1>2, RollupIs
  <2> QED BY <1>2, <2>1 DEF Recs, Phases, Terminal, Alike
<1>4. (Write(m, r) /\ UNCHANGED faults) \/ (Fault /\ UNCHANGED sig)
  BY DEF PassSaves
<1> HIDE DEF r
<1>5. PassGone(m) /\ pass' \in [Messages -> Passes]
  BY <1>1, EndPassIs DEF Fit
<1>6. CASE Write(m, r) /\ UNCHANGED faults
  <2>1. SigOthers(m) /\ sig'[m] = r /\ sig' \in [Messages -> Recs]
    BY <1>3, <1>6, WroteTyped DEF Fit
  <2>2. Typed'
    BY <1>1, <1>5, <1>6, <2>1 DEF Fit, Typed
  <2> QED BY <1>1, <1>2, <1>3, <1>5, <2>1, <2>2, GoneFits DEF Fit
<1>7. CASE Fault /\ UNCHANGED sig
  <2>1. Typed' /\ SigOthers(m)
    BY <1>1, <1>5, <1>7, FaultIs DEF Fit, Typed, SigOthers
  <2> QED BY <1>1, <1>5, <1>7, <2>1, GoneFits DEF Fit
<1> QED BY <1>4, <1>6, <1>7

LEMMA ConversationRunsIs ==
  ASSUME Fit, NEW v \in Convs, ConversationRuns(v)
  PROVE  Fit' /\ (\A w \in Convs : GoesOn(w)) /\ UNCHANGED <<sig, pass, book, window, gone, cache, past>>
<1>1. /\ conv[v].queue # <<>> /\ UNCHANGED <<sig, pass, book, window, gone, cache, windows, faults, past>>
      /\ conv' = [conv EXCEPT ![v].queue = Tail(@), ![v].ran = Append(@, Head(conv[v].queue)),
                                ![v].known = @ \cup {Head(conv[v].queue)}]
  BY DEF ConversationRuns, cooldown, world
<1>2. conv[v] \in ConvRecs /\ conv[v].ran \in Seq(Messages) /\ conv[v].queue \in Seq(Messages) /\ conv[v].known \in SUBSET Messages
  BY DEF Fit, Typed, ConvRecs
<1> DEFINE q == Tail(conv[v].queue)
           a == Append(conv[v].ran, Head(conv[v].queue))
           n == conv[v].known \cup {Head(conv[v].queue)}
           r == [conv[v] EXCEPT !.queue = q, !.ran = a, !.known = n]
<1>3. q \in Seq(Messages) /\ a \in Seq(Messages) /\ a \o q = Said(v) /\ n \in SUBSET Messages /\ Heard(v) \subseteq Elems(q) \cup n
  <2>1. Head(conv[v].queue) \in Messages /\ Elems(conv[v].queue) \subseteq {Head(conv[v].queue)} \cup Elems(q)
    BY <1>1, <1>2, ElemsHead
  <2> QED BY <1>1, <1>2, <2>1, AnsweredIs DEF Said, Heard
<1>4. conv' = [conv EXCEPT ![v] = r]
  BY <1>1, <1>2 DEF Fit, Typed, ConvRecs
<1> HIDE DEF q, a, n
<1>5. /\ r \in ConvRecs /\ r.made = conv[v].made /\ r.open = conv[v].open /\ r.by = conv[v].by /\ r.id = conv[v].id
      /\ r.from = conv[v].from /\ r.ran = a /\ r.queue = q /\ r.known = n
  BY <1>2, <1>3 DEF ConvRecs
<1> HIDE DEF r
<1>6. conv' \in [Convs -> ConvRecs] /\ conv'[v] = r /\ \A w \in Convs \ {v} : conv'[w] = conv[w]
  BY <1>4, <1>5 DEF Fit, Typed
<1>7. GoesOn(v)
  BY <1>3, <1>5, <1>6 DEF GoesOn, SameConv, Said, Heard
<1>8. Typed'
  BY <1>1, <1>6 DEF Fit, Typed
<1> QED BY <1>1, <1>6, <1>7, <1>8, SameGoesOn, SamePasses DEF Fit

LEMMA RunForgottenIs ==
  ASSUME Fit, NEW v \in Convs, NEW m \in Messages, RunForgotten(v, m)
  PROVE  /\ Fit' /\ (\A w \in Convs : GoesOn(w)) /\ past'.misled = past.misled /\ past.forgotten \subseteq past'.forgotten
         /\ SameAccount /\ UNCHANGED <<sig, pass, book, window, gone, cache>>
<1>1. /\ Fault /\ UNCHANGED <<sig, pass, book, window, gone, cache, windows>>
      /\ conv' = [conv EXCEPT ![v].known = @ \ {m}]
      /\ past' = IF m \in Live THEN [past EXCEPT !.forgotten = @ \cup {m}] ELSE past
  BY DEF RunForgotten, cooldown, world
<1>2. conv[v] \in ConvRecs /\ conv[v].known \ {m} \in SUBSET Messages /\ past \in Pasts
  BY DEF Fit, Typed, ConvRecs
<1>3. /\ past' \in Pasts /\ past'.misled = past.misled /\ past.forgotten \subseteq past'.forgotten /\ SameAccount
      /\ m \in Live => m \in past'.forgotten
  <2>1. CASE m \in Live
    BY <1>1, <1>2, <2>1 DEF Pasts, SameAccount
  <2>2. CASE m \notin Live
    BY <1>1, <1>2, <2>2 DEF SameAccount
  <2> QED BY <2>1, <2>2
<1> DEFINE r == [conv[v] EXCEPT !.known = @ \ {m}]
<1>4. /\ r \in ConvRecs /\ r.made = conv[v].made /\ r.open = conv[v].open /\ r.by = conv[v].by /\ r.id = conv[v].id
      /\ r.from = conv[v].from /\ r.ran = conv[v].ran /\ r.queue = conv[v].queue /\ r.known = conv[v].known \ {m}
  BY <1>2 DEF ConvRecs
<1>5. conv' = [conv EXCEPT ![v] = r]
  BY <1>1 DEF Fit, Typed
<1> HIDE DEF r
<1>6. conv' \in [Convs -> ConvRecs] /\ conv'[v] = r /\ \A w \in Convs \ {v} : conv'[w] = conv[w]
  BY <1>4, <1>5 DEF Fit, Typed
<1>7. GoesOn(v)
  <2>1. \A k \in Heard(v) : k \in Heard(v)' \/ k = m
    BY <1>4, <1>6 DEF Heard
  <2> QED BY <1>3, <1>4, <1>6, <2>1 DEF GoesOn, SameConv, Said
<1>8. Typed'
  BY <1>1, <1>3, <1>6, FaultIs DEF Fit, Typed
<1> QED BY <1>1, <1>3, <1>6, <1>7, <1>8, SameGoesOn, SamePasses DEF Fit

LEMMA ConversationClosesIs ==
  ASSUME Fit, NEW v \in Convs, ConversationCloses(v)
  PROVE  Fit' /\ (\A w \in Convs : GoesOn(w)) /\ UNCHANGED <<sig, pass, book, window, gone, cache, past>>
<1>1. /\ Fault /\ UNCHANGED <<sig, pass, book, window, gone, cache, windows, past>>
      /\ conv' = [conv EXCEPT ![v].open = FALSE]
  BY DEF ConversationCloses, cooldown, world
<1>2. conv[v] \in ConvRecs
  BY DEF Fit, Typed
<1> DEFINE r == [conv[v] EXCEPT !.open = FALSE]
<1>3. /\ r \in ConvRecs /\ r.made = conv[v].made /\ r.open = FALSE /\ r.by = conv[v].by /\ r.id = conv[v].id
      /\ r.from = conv[v].from /\ r.ran = conv[v].ran /\ r.queue = conv[v].queue /\ r.known = conv[v].known
  BY <1>2 DEF ConvRecs
<1>4. conv' = [conv EXCEPT ![v] = r]
  BY <1>1 DEF Fit, Typed
<1> HIDE DEF r
<1>5. conv' \in [Convs -> ConvRecs] /\ conv'[v] = r /\ \A w \in Convs \ {v} : conv'[w] = conv[w]
  BY <1>3, <1>4 DEF Fit, Typed
<1>6. GoesOn(v)
  BY <1>3, <1>5 DEF GoesOn, SameConv, Said, Heard
<1>7. Typed'
  BY <1>1, <1>5, FaultIs DEF Fit, Typed
<1> QED BY <1>1, <1>5, <1>6, <1>7, SameGoesOn, SamePasses DEF Fit

LEMMA ClaimantGoesIs ==
  ASSUME Fit, NEW c \in Claimants, ClaimantGoes(c)
  PROVE  Fit' /\ UNCHANGED <<sig, pass, book, window, conv, cache, past>>
<1>1. Typed' /\ UNCHANGED <<sig, pass, book, window, conv, cache, past>>
  BY FaultIs DEF ClaimantGoes, Fit, Typed, cooldown
<1> QED BY <1>1, SamePasses DEF Fit

LEMMA OthersSpendIs ==
  ASSUME Fit, NEW s \in Sources, OthersSpend(s)
  PROVE  /\ Fit' /\ BooksElsewhere(s) /\ Opened(s) /\ book'[s].built
         /\ \/ UNCHANGED <<window, past>>
            \/ ~book'[s].off /\ Recorded(s, book'[s].seen, past)
         /\ past'.misled = past.misled /\ past'.forgotten = past.forgotten
         /\ UNCHANGED <<sig, pass, conv, gone, cache>>
<1>1. Fault /\ UNCHANGED <<sig, pass, conv, gone, cache, windows>>
  BY DEF OthersSpend, world
<1>2. PICK off \in BOOLEAN :
        /\ book' = [book EXCEPT ![s] = Book(s, off)]
        /\ IF Book(s, off).off THEN UNCHANGED <<window, past>> ELSE Record(s, Book(s, off).seen, past)
  BY DEF OthersSpend
<1>3. book' \in [Sources -> Books] /\ BooksElsewhere(s) /\ Opened(s) /\ book'[s] = Book(s, off) /\ Book(s, off).built
      /\ Book(s, off).seen \in SUBSET Ids
  BY <1>2, OpenedIs, BookIs DEF Fit, Books
<1>4. CASE UNCHANGED <<window, past>>
  <2>1. Typed'
    BY <1>1, <1>3, <1>4, FaultIs DEF Fit, Typed
  <2> QED BY <1>1, <1>3, <1>4, <2>1, SamePasses DEF Fit
<1>5. CASE ~Book(s, off).off /\ Record(s, Book(s, off).seen, past)
  <2>1. window' \in [Sources -> SUBSET Ids] /\ past' \in Pasts /\ Recorded(s, Book(s, off).seen, past)
    BY <1>3, <1>5, RecordIs DEF Fit, Typed
  <2>2. Typed'
    BY <1>1, <1>3, <2>1, FaultIs DEF Fit, Typed
  <2> QED BY <1>1, <1>3, <1>5, <2>1, <2>2, SamePasses DEF Fit, Recorded
<1> QED BY <1>2, <1>4, <1>5

LEMMA WindowEndsIs ==
  ASSUME Fit, NEW s \in Sources, NEW i \in Ids, WindowEnds(s, i)
  PROVE  /\ Fit' /\ (\A m \in Messages : Key(s, i, m) => ~pass[m].spent) /\ BooksElsewhere(s)
         /\ book'[s].built = book[s].built /\ book'[s].off = book[s].off /\ book'[s].seen = book[s].seen \ {i}
         /\ window'[s] = window[s] \ {i} /\ past'.missing[s] = past.missing[s] \ {i} /\ past'.stray[s] = past.stray[s] \ {i}
         /\ \A t \in Sources \ {s} :
              window'[t] = window[t] /\ past'.missing[t] = past.missing[t] /\ past'.stray[t] = past.stray[t]
         /\ past'.admitted[s][i] = {}
         /\ (\A t \in Sources, j \in Ids : t # s \/ j # i => past'.admitted[t][j] = past.admitted[t][j])
         /\ past'.misled = past.misled /\ past'.forgotten = past.forgotten
         /\ UNCHANGED <<sig, pass, conv, gone, cache>>
<1>1. /\ windows < MaxWindows /\ windows' = windows + 1 /\ UNCHANGED <<sig, pass, conv, gone, cache, faults>>
      /\ book' = [book EXCEPT ![s].seen = @ \ {i}] /\ window' = [window EXCEPT ![s] = @ \ {i}]
      /\ past' = [past EXCEPT !.admitted[s][i] = {}, !.missing[s] = @ \ {i}, !.stray[s] = @ \ {i}]
      /\ \A m \in Messages : Key(s, i, m) => ~pass[m].spent
  BY DEF WindowEnds, Key
<1>2. book \in [Sources -> Books] /\ window \in [Sources -> SUBSET Ids] /\ past \in Pasts /\ past.admitted \in Ledgers
      /\ past.missing \in Notes /\ past.stray \in Notes /\ windows \in 0..MaxWindows
  BY DEF Fit, Typed, Pasts
<1>3. windows' \in 0..MaxWindows
  BY <1>1, <1>2, Bounds
<1> DEFINE b == [book[s] EXCEPT !.seen = @ \ {i}]
<1>4. b \in Books /\ b.built = book[s].built /\ b.off = book[s].off /\ b.seen = book[s].seen \ {i}
  BY <1>2 DEF Books
<1>5. book' = [book EXCEPT ![s] = b]
  BY <1>1, <1>2
<1> HIDE DEF b
<1>6. book' \in [Sources -> Books] /\ book'[s] = b /\ BooksElsewhere(s)
  BY <1>4, <1>5, BookSet DEF Fit
<1>7. /\ window' \in [Sources -> SUBSET Ids] /\ window'[s] = window[s] \ {i}
      /\ \A t \in Sources \ {s} : window'[t] = window[t]
  BY <1>1, <1>2
<1> DEFINE led == [past.admitted EXCEPT ![s][i] = {}]
           missing == [past.missing EXCEPT ![s] = @ \ {i}]
           stray == [past.stray EXCEPT ![s] = @ \ {i}]
<1>8. led \in Ledgers /\ led[s][i] = {} /\ \A t \in Sources, j \in Ids : t # s \/ j # i => led[t][j] = past.admitted[t][j]
  BY <1>2 DEF Ledgers
<1>9. missing \in Notes /\ missing[s] = past.missing[s] \ {i} /\ \A t \in Sources \ {s} : missing[t] = past.missing[t]
  BY <1>2 DEF Notes
<1>10. stray \in Notes /\ stray[s] = past.stray[s] \ {i} /\ \A t \in Sources \ {s} : stray[t] = past.stray[t]
  BY <1>2 DEF Notes
<1>11. past' = [past EXCEPT !.admitted = led, !.missing = missing, !.stray = stray]
  BY <1>1
<1> HIDE DEF led, missing, stray
<1>12. /\ past' \in Pasts /\ past'.admitted = led /\ past'.missing = missing /\ past'.stray = stray
       /\ past'.misled = past.misled /\ past'.forgotten = past.forgotten
  BY <1>2, <1>8, <1>9, <1>10, <1>11 DEF Pasts
<1>13. Typed'
  BY <1>1, <1>3, <1>6, <1>7, <1>12 DEF Fit, Typed
<1> QED BY <1>1, <1>4, <1>6, <1>7, <1>8, <1>9, <1>10, <1>12, <1>13, SamePasses DEF Fit

\* What the passes had spent is nobody's when their process is gone.
LEMMA LeaderChangesIs ==
  ASSUME Fit, LeaderChanges
  PROVE  /\ Fit' /\ (\A m \in Messages : pass'[m] = NoPass) /\ (\A s \in Sources : book'[s].built = FALSE /\ book'[s].seen = {})
         /\ \A s \in Sources : past.stray[s] \subseteq past'.stray[s]
                               /\ \A m \in Messages : pass[m].spent /\ sig[m].src = s => InitiationOf[m] \in past'.stray[s]
         /\ past'.misled = past.misled /\ past'.forgotten = past.forgotten
         /\ past'.missing = past.missing /\ past'.admitted = past.admitted
         /\ UNCHANGED <<sig, window, conv, gone, cache>>
<1> DEFINE stray == [s \in Sources |-> past.stray[s] \cup {InitiationOf[m] : m \in {n \in Messages : pass[n].spent /\ sig[n].src = s}}]
<1>1. /\ Fault /\ pass' = [m \in Messages |-> NoPass] /\ book' = [s \in Sources |-> Unbuilt]
      /\ past' = [past EXCEPT !.stray = stray]
      /\ UNCHANGED <<sig, window, conv, gone, cache, windows>>
  BY DEF LeaderChanges, world
<1>2. pass' \in [Messages -> Passes] /\ book' \in [Sources -> Books]
  BY <1>1, NoPassIs DEF Books, Unbuilt
<1>3. past \in Pasts /\ past.stray \in Notes
  BY DEF Fit, Typed, Pasts
<1>4. stray \in Notes
  BY <1>3, IdOf DEF Notes
<1>5. \A s \in Sources : past.stray[s] \subseteq stray[s]
                         /\ \A m \in Messages : pass[m].spent /\ sig[m].src = s => InitiationOf[m] \in stray[s]
  OBVIOUS
<1> HIDE DEF stray
<1>6. /\ past' \in Pasts /\ past'.stray = stray /\ past'.misled = past.misled /\ past'.forgotten = past.forgotten
      /\ past'.missing = past.missing /\ past'.admitted = past.admitted
  BY <1>1, <1>3, <1>4 DEF Pasts
<1>7. Typed'
  BY <1>1, <1>2, <1>6, FaultIs DEF Fit, Typed
<1>8. \A m \in Messages : PassingAt(m)'
  BY <1>1, NoPassIs DEF PassingAt
<1> QED BY <1>1, <1>5, <1>6, <1>7, <1>8 DEF Fit, Passing, Unbuilt

LEMMA StutterIs ==
  ASSUME Fit, UNCHANGED vars
  PROVE  Fit' /\ UNCHANGED <<sig, pass, book, window, conv, gone, cache, past>>
<1>1. Typed' /\ UNCHANGED <<sig, pass, book, window, conv, gone, cache, past>>
  BY DEF Fit, Typed, vars, cooldown, world
<1> QED BY <1>1, SamePasses DEF Fit

LEMMA InitFit == Init => Fit
<1> SUFFICES ASSUME Init PROVE Fit
  OBVIOUS
<1>1. Typed
  BY AbsentIs, NoPassIs, NoConvIs, ViewIs, Bounds DEF Init, Typed, Books, Unbuilt, Ledgers, Notes, Pasts
<1>2. \A m \in Messages : PassingAt(m)
  BY NoPassIs DEF Init, PassingAt
<1> QED BY <1>1, <1>2 DEF Fit, Passing

-----------------------------------------------------------------------------
(* What a step does to one message and its pass. *)

\* A message's record is new, the latest; or it is rewritten, until it is over.
Newest(n) == n \notin Stored /\ sig'[n].phase = "pending" /\ \A k \in Messages : sig[k].at <= sig'[n].at
Rewritten(n) == n \in Live /\ Alike(sig'[n], sig[n]) /\ sig'[n].phase # "absent"
SigStep(n) == sig'[n] = sig[n] \/ Newest(n) \/ Rewritten(n)

\* A pass begins where nobody else has the key, at the head of those the list shows.
Begins(n) ==
  /\ n \in Live /\ ~Held(n) /\ IsHead(n) /\ UNCHANGED sig /\ PassOthers(n)
  /\ past'.misled <=> past.misled \/ \E k \in Live \ Listed.live : SameKey(n, k) /\ Before(k, n)
PassStep(n) == pass'[n].pc # "idle" => pass[n].pc # "idle" \/ Begins(n)

LEMMA InHand == ASSUME Fit, NEW m \in Messages, pass[m].pc # "idle" PROVE m \in Live /\ Alike(pass[m].rec, sig[m]) /\ pass[m].rec.phase # "absent"
BY DEF Fit, Passing, PassingAt

LEMMA Steps ==
  ASSUME Fit, [Next]_vars
  PROVE  /\ Fit' /\ (past.misled => past'.misled) /\ past.forgotten \subseteq past'.forgotten
         /\ \A n \in Messages : SigStep(n) /\ PassStep(n)
<1> DEFINE Goal == /\ Fit' /\ (past.misled => past'.misled) /\ past.forgotten \subseteq past'.forgotten
                   /\ \A n \in Messages : SigStep(n) /\ PassStep(n)
<1> SUFFICES Goal
  OBVIOUS
<1>1. CASE UNCHANGED vars
  BY <1>1, StutterIs DEF SigStep, PassStep
<1>2. ASSUME NEW m \in Messages, Publish(m) PROVE Goal
  BY <1>2, PublishIs DEF SigStep, PassStep, Newest, SigOthers
<1>3. ASSUME NEW m \in Messages, PassEnds(m) PROVE Goal
  BY <1>3, PassEndsIs DEF SigStep, PassStep, Rewritten, SigOthers, Terminal
<1>4. ASSUME NEW m \in Messages, PassReads(m) PROVE Goal
  BY <1>4, PassReadsIs DEF SigStep, PassStep, Begins, PassOthers
<1>5. ASSUME NEW m \in Messages, Admit(m) PROVE Goal
  BY <1>5, AdmitIs DEF SigStep, PassStep, PassOthers, Chosen, Suppressed, Spends, Recorded
<1>6. ASSUME NEW m \in Messages, AdmitFails(m) PROVE Goal
  BY <1>6, AdmitFailsIs, InHand, NoPassIs DEF SigStep, PassStep, Rewritten, Wrote, SigOthers, PassGone, PassOthers
<1>7. ASSUME NEW m \in Messages, Snapshot(m) PROVE Goal
  BY <1>7, SnapshotIs, InHand, NoPassIs DEF SigStep, PassStep, Rewritten, Wrote, SigOthers, PassOthers, Enters, Mistakes
<1>8. ASSUME NEW m \in Messages, NEW c \in Claimants, SkipGone(m, c) PROVE Goal
  BY <1>8, SkipGoneIs DEF SigStep, PassStep, Routes, PassOthers
<1>9. ASSUME NEW m \in Messages, NEW c \in Claimants, RouteReuses(m, c) PROVE Goal
  BY <1>9, RouteReusesIs DEF SigStep, PassStep, Routes, PassOthers
<1>10. ASSUME NEW m \in Messages, NEW c \in Claimants, RouteWaits(m, c) PROVE Goal
  BY <1>10, RouteWaitsIs DEF SigStep, PassStep, Routes, PassOthers
<1>11. ASSUME NEW m \in Messages, NEW c \in Claimants, RouteCreates(m, c) PROVE Goal
  BY <1>11, RouteCreatesIs DEF SigStep, PassStep, Routes, PassOthers
<1>12. ASSUME NEW m \in Messages, AppendInput(m) PROVE Goal
  BY <1>12, AppendInputIs DEF SigStep, PassStep, Routes, PassOthers
<1>13. ASSUME NEW m \in Messages, RouteFails(m) PROVE Goal
  BY <1>13, RouteFailsIs DEF SigStep, PassStep, Routes, PassOthers
<1>14. ASSUME NEW m \in Messages, PassSaves(m) PROVE Goal
  BY <1>14, PassSavesIs, InHand, NoPassIs DEF SigStep, PassStep, Rewritten, SigOthers, PassGone, PassOthers
<1>15. ASSUME CacheFallsBehind PROVE Goal
  BY <1>15, CacheFallsBehindIs DEF SigStep, PassStep
<1>16. ASSUME CacheSyncs PROVE Goal
  BY <1>16, CacheSyncsIs DEF SigStep, PassStep
<1>17. ASSUME LeaderChanges PROVE Goal
  BY <1>17, LeaderChangesIs, NoPassIs DEF SigStep, PassStep
<1>18. ASSUME NEW v \in Convs, ConversationRuns(v) PROVE Goal
  BY <1>18, ConversationRunsIs DEF SigStep, PassStep
<1>19. ASSUME NEW v \in Convs, ConversationCloses(v) PROVE Goal
  BY <1>19, ConversationClosesIs DEF SigStep, PassStep
<1>20. ASSUME NEW c \in Claimants, ClaimantGoes(c) PROVE Goal
  BY <1>20, ClaimantGoesIs DEF SigStep, PassStep
<1>21. ASSUME NEW s \in Sources, NEW i \in Ids, WindowEnds(s, i) PROVE Goal
  BY <1>21, WindowEndsIs DEF SigStep, PassStep
<1>22. ASSUME NEW m \in Messages, BacklogFull(m) PROVE Goal
  BY <1>22, BacklogFullIs DEF SigStep, PassStep, PassOthers
<1>23. ASSUME NEW m \in Messages, BacklogFails(m) PROVE Goal
  BY <1>23, BacklogFailsIs, InHand, NoPassIs DEF SigStep, PassStep, Rewritten, Unnamed, SigOthers, PassGone, PassOthers, Alike
<1>24. ASSUME NEW v \in Convs, NEW m \in Messages, RunForgotten(v, m) PROVE Goal
  BY <1>24, RunForgottenIs DEF SigStep, PassStep
<1>25. ASSUME NEW s \in Sources, OthersSpend(s) PROVE Goal
  BY <1>25, OthersSpendIs DEF SigStep, PassStep
<1> HIDE DEF Goal
<1> QED BY <1>1, <1>2, <1>3, <1>4, <1>5, <1>6, <1>7, <1>8, <1>9, <1>10, <1>11, <1>12, <1>13, <1>14, <1>15, <1>16, <1>17, <1>18, <1>19, <1>20, <1>21, <1>22, <1>23, <1>24, <1>25 DEF Next, Route

\* Every variable stays inside its shape, a pass has a conversation in hand only while
\* it appends to it, and it works on a signal that is stored and not over.
THEOREM TypeCorrect == Spec => []TypeOK
<1>1. Fit /\ [Next]_vars => Fit'
  BY Steps
<1>2. Fit => TypeOK
  BY DEF Fit, Typed, Passing, PassingAt, TypeOK, Recs, Passes, Phases, Pcs, Books
<1> QED BY <1>1, <1>2, InitFit, PTL DEF Spec

-----------------------------------------------------------------------------
(* Who has a key. *)

\* One pass at a time; and while it goes on, none of that key that still waits
\* arrived before its message.
Alone == \A m, n \in Messages : pass[m].pc # "idle" /\ pass[n].pc # "idle" /\ SameKey(m, n) => m = n
First == past.misled \/ \A m \in Messages, n \in Live : pass[m].pc # "idle" /\ SameKey(m, n) => sig[m].at <= sig[n].at

LEMMA InitAlone == Init => Alone /\ First
BY NoPassIs DEF Init, Alone, First

LEMMA AtIs == ASSUME Typed PROVE \A m \in Messages : sig[m].at \in Nat
BY DEF Typed, Recs

\* What is stored keeps its second and its source, and does not wait again.
LEMMA StoredStays ==
  ASSUME NEW n \in Stored, SigStep(n)
  PROVE  sig'[n].at = sig[n].at /\ sig'[n].src = sig[n].src /\ n \in Stored' /\ (n \in Live' => n \in Live)
BY DEF SigStep, Newest, Rewritten, Alike, Live, Stored

LEMMA AtWork ==
  ASSUME Fit, NEW n \in Messages, PassStep(n), pass'[n].pc # "idle"
  PROVE  n \in Live /\ n \in Stored
BY InHand DEF PassStep, Begins, Live

LEMMA StepAlone == ASSUME Fit, Alone, \A n \in Messages : SigStep(n) /\ PassStep(n) PROVE Alone'
<1> SUFFICES ASSUME NEW m \in Messages, NEW n \in Messages, m # n, pass'[m].pc # "idle", pass'[n].pc # "idle", SameKey(m, n)'
             PROVE  FALSE
  BY DEF Alone
<1>1. SameKey(m, n) /\ SameKey(n, m)
  BY AtWork, StoredStays DEF SameKey
<1>2. ASSUME NEW k \in {m, n}, NEW l \in {m, n}, k # l, Begins(k) PROVE FALSE
  <2>1. pass[l].pc = "idle" /\ pass'[l] = pass[l]
    BY <1>1, <1>2 DEF Begins, Held, PassOthers
  <2> QED BY <1>2, <2>1
<1> QED BY <1>1, <1>2 DEF PassStep, Alone

LEMMA StepFirst ==
  ASSUME Fit, Fit', First, past.misled => past'.misled, \A n \in Messages : SigStep(n) /\ PassStep(n)
  PROVE  First'
<1> SUFFICES ASSUME ~past'.misled, NEW m \in Messages, NEW n \in Messages, n \in Live', pass'[m].pc # "idle", SameKey(m, n)'
             PROVE  sig'[m].at <= sig'[n].at
  BY LiveIs DEF First, Live, Stored
<1>1. m \in Live /\ m \in Stored /\ sig'[m].at = sig[m].at /\ sig'[m].src = sig[m].src
  BY AtWork, StoredStays
<1>2. CASE n \in Stored
  <2>1. n \in Live /\ sig'[n].at = sig[n].at /\ sig'[n].src = sig[n].src
    BY <1>2, StoredStays
  <2>2. SameKey(m, n)
    BY <1>1, <2>1 DEF SameKey
  <2>3. CASE pass[m].pc # "idle"
    BY <1>1, <2>1, <2>2, <2>3 DEF First
  <2>4. CASE Begins(m)
    <3>1. n = m \/ ~Before(n, m)
      BY <2>1, <2>2, <2>4 DEF Begins, IsHead
    <3>2. sig[m].at \in Nat /\ sig[n].at \in Nat
      BY AtIs DEF Fit
    <3>3. sig[m].at <= sig[n].at
      BY <3>1, <3>2 DEF Before
    <3> QED BY <1>1, <2>1, <3>3
  <2> QED BY <2>3, <2>4 DEF PassStep
<1>3. CASE n \notin Stored
  <2>1. Newest(n)
    BY <1>3 DEF SigStep, Rewritten, Live, Stored
  <2> QED BY <1>1, <2>1 DEF Newest
<1> QED BY <1>2, <1>3

-----------------------------------------------------------------------------
(* What a step does to the conversations. *)

\* One is made, unless the list shows the claimant one of the message's id; all others go on.
ConvsGoOn == \A v \in Convs : GoesOn(v) \/ \E m \in Messages : Told(m, v)
Creates(m, c) ==
  /\ Makes(m, c) /\ Reusable(m, c) = {} /\ (past'.misled <=> past.misled \/ Unlisted(m, c))
  /\ UNCHANGED sig
ConvsStep == ConvsGoOn \/ \E m \in Messages, c \in Claimants : Creates(m, c)

\* The informer cache: as it was, or of no account, or what there is.
CacheStep == cache' = cache \/ cache'.open = {} \/ (cache'.open = Open /\ UNCHANGED conv)

\* Where a pass appends: to what it chose before, to one listed, or to the one made.
HeadStep(n) ==
  pass'[n].pc = "append" =>
    \/ pass[n].pc = "append" /\ pass'[n].to = pass[n].to
    \/ \E c \in Claimants : (pass'[n].to \in Reusable(n, c) /\ UNCHANGED conv) \/ Creates(n, c)

LEMMA AllGoOn == ASSUME UNCHANGED conv PROVE ConvsStep
BY SameGoesOn DEF ConvsStep, ConvsGoOn

LEMMA ConvSteps ==
  ASSUME Fit, [Next]_vars
  PROVE  ConvsStep /\ CacheStep /\ \A n \in Messages : HeadStep(n)
<1> DEFINE Goal == ConvsStep /\ CacheStep /\ \A n \in Messages : HeadStep(n)
<1> SUFFICES Goal
  OBVIOUS
<1>1. CASE UNCHANGED vars
  BY <1>1, StutterIs, AllGoOn DEF CacheStep, HeadStep
<1>2. ASSUME NEW m \in Messages, Publish(m) PROVE Goal
  BY <1>2, PublishIs, AllGoOn DEF CacheStep, HeadStep
<1>3. ASSUME NEW m \in Messages, PassEnds(m) PROVE Goal
  BY <1>3, PassEndsIs, AllGoOn DEF CacheStep, HeadStep
<1>4. ASSUME NEW m \in Messages, PassReads(m) PROVE Goal
  BY <1>4, PassReadsIs, AllGoOn DEF CacheStep, HeadStep, PassOthers
<1>5. ASSUME NEW m \in Messages, Admit(m) PROVE Goal
  BY <1>5, AdmitIs, AllGoOn DEF CacheStep, HeadStep, PassOthers
<1>6. ASSUME NEW m \in Messages, AdmitFails(m) PROVE Goal
  BY <1>6, AdmitFailsIs, AllGoOn, NoPassIs DEF CacheStep, HeadStep, PassGone, PassOthers
<1>7. ASSUME NEW m \in Messages, Snapshot(m) PROVE Goal
  BY <1>7, SnapshotIs, AllGoOn, NoPassIs DEF CacheStep, HeadStep, PassOthers
<1>8. ASSUME NEW m \in Messages, NEW c \in Claimants, SkipGone(m, c) PROVE Goal
  BY <1>8, SkipGoneIs, AllGoOn DEF CacheStep, HeadStep, Routes, PassOthers
<1>9. ASSUME NEW m \in Messages, NEW c \in Claimants, RouteReuses(m, c) PROVE Goal
  BY <1>9, RouteReusesIs, AllGoOn DEF CacheStep, HeadStep, Routes, PassOthers
<1>10. ASSUME NEW m \in Messages, NEW c \in Claimants, RouteWaits(m, c) PROVE Goal
  BY <1>10, RouteWaitsIs, AllGoOn DEF CacheStep, HeadStep, Routes, PassOthers
<1>11. ASSUME NEW m \in Messages, NEW c \in Claimants, RouteCreates(m, c) PROVE Goal
  BY <1>11, RouteCreatesIs DEF ConvsStep, Creates, CacheStep, HeadStep, Routes, PassOthers
<1>12. ASSUME NEW m \in Messages, AppendInput(m) PROVE Goal
  BY <1>12, AppendInputIs DEF ConvsStep, ConvsGoOn, CacheStep, HeadStep, Routes, PassOthers
<1>13. ASSUME NEW m \in Messages, RouteFails(m) PROVE Goal
  BY <1>13, RouteFailsIs DEF ConvsStep, ConvsGoOn, CacheStep, HeadStep, Routes, PassOthers
<1>14. ASSUME NEW m \in Messages, PassSaves(m) PROVE Goal
  BY <1>14, PassSavesIs, AllGoOn, NoPassIs DEF CacheStep, HeadStep, PassGone, PassOthers
<1>15. ASSUME CacheFallsBehind PROVE Goal
  BY <1>15, CacheFallsBehindIs, AllGoOn, ViewIs DEF CacheStep, HeadStep
<1>16. ASSUME CacheSyncs PROVE Goal
  BY <1>16, CacheSyncsIs, AllGoOn, ViewIs DEF CacheStep, HeadStep
<1>17. ASSUME LeaderChanges PROVE Goal
  BY <1>17, LeaderChangesIs, AllGoOn, NoPassIs DEF CacheStep, HeadStep
<1>18. ASSUME NEW v \in Convs, ConversationRuns(v) PROVE Goal
  BY <1>18, ConversationRunsIs DEF ConvsStep, ConvsGoOn, CacheStep, HeadStep
<1>19. ASSUME NEW v \in Convs, ConversationCloses(v) PROVE Goal
  BY <1>19, ConversationClosesIs DEF ConvsStep, ConvsGoOn, CacheStep, HeadStep
<1>20. ASSUME NEW c \in Claimants, ClaimantGoes(c) PROVE Goal
  BY <1>20, ClaimantGoesIs, AllGoOn DEF CacheStep, HeadStep
<1>21. ASSUME NEW s \in Sources, NEW i \in Ids, WindowEnds(s, i) PROVE Goal
  BY <1>21, WindowEndsIs, AllGoOn DEF CacheStep, HeadStep
<1>22. ASSUME NEW m \in Messages, BacklogFull(m) PROVE Goal
  BY <1>22, BacklogFullIs, AllGoOn DEF CacheStep, HeadStep, PassOthers
<1>23. ASSUME NEW m \in Messages, BacklogFails(m) PROVE Goal
  BY <1>23, BacklogFailsIs, AllGoOn, NoPassIs DEF CacheStep, HeadStep, PassGone, PassOthers
<1>24. ASSUME NEW v \in Convs, NEW m \in Messages, RunForgotten(v, m) PROVE Goal
  BY <1>24, RunForgottenIs DEF ConvsStep, ConvsGoOn, CacheStep, HeadStep
<1>25. ASSUME NEW s \in Sources, OthersSpend(s) PROVE Goal
  BY <1>25, OthersSpendIs, AllGoOn DEF CacheStep, HeadStep
<1> HIDE DEF Goal
<1> QED BY <1>1, <1>2, <1>3, <1>4, <1>5, <1>6, <1>7, <1>8, <1>9, <1>10, <1>11, <1>12, <1>13, <1>14, <1>15, <1>16, <1>17, <1>18, <1>19, <1>20, <1>21, <1>22, <1>23, <1>24, <1>25 DEF Next, Route

LEMMA MadeStays ==
  ASSUME ConvsStep, NEW v \in Convs, conv[v].made
  PROVE  conv'[v].made /\ SameConv(v) /\ (conv'[v].open => conv[v].open)
<1>1. ASSUME NEW m \in Messages, NEW c \in Claimants, Creates(m, c) PROVE conv'[v] = conv[v]
  BY <1>1 DEF Creates, Makes
<1> QED BY <1>1 DEF ConvsStep, ConvsGoOn, GoesOn, Told, SameConv

\* What a conversation was told goes on as it was, by one more, or starts.
LEMMA SaidStep ==
  ASSUME ConvsStep, NEW v \in Convs
  PROVE  \/ Said(v)' = Said(v) /\ (conv[v].made => SameConv(v))
         \/ \E m \in Messages : Told(m, v)
         \/ Said(v)' = <<>>
BY MadeStays DEF ConvsStep, ConvsGoOn, Creates, Makes, New, GoesOn, Said

-----------------------------------------------------------------------------
(* Routed once. *)

\* Whom a conversation was told about by now, and by whom.
LEMMA ElemsStep ==
  ASSUME Typed, ConvsStep, NEW v \in Convs, NEW k \in Elems(Said(v)')
  PROVE  (k \in Elems(Said(v)) /\ (conv[v].made => SameConv(v))) \/ (k \in Messages /\ Told(k, v))
<1>1. PICK s \in Seq(Messages) : s = Said(v)
  BY SaidIs
<1>2. CASE Said(v)' = Said(v) /\ (conv[v].made => SameConv(v))
  BY <1>2
<1>3. ASSUME NEW m \in Messages, Told(m, v)
      PROVE  (k \in Elems(Said(v)) /\ (conv[v].made => SameConv(v))) \/ (k \in Messages /\ Told(k, v))
  BY <1>1, <1>3, ElemsOf DEF Told
<1>4. CASE Said(v)' = <<>>
  BY <1>4, ElemsOf
<1> QED BY <1>2, <1>3, <1>4, SaidStep

\* Once, but for those that were forgotten.
LEMMA AppendKeepsOnce ==
  ASSUME NEW s \in Seq(Messages), NEW m \in Messages, NEW F, m \in Elems(s) => m \in F,
         \A j, k \in DOMAIN s : s[j] = s[k] /\ s[j] \notin F => j = k
  PROVE  \A j, k \in DOMAIN Append(s, m) : Append(s, m)[j] = Append(s, m)[k] /\ Append(s, m)[j] \notin F => j = k
<1>1. PICK a \in Seq(Messages) :
        /\ a = Append(s, m) /\ DOMAIN s = 1..Len(s) /\ DOMAIN a = 1..(Len(s) + 1) /\ Len(s) \in Nat
        /\ (\A k \in 1..Len(s) : a[k] = s[k]) /\ a[Len(s) + 1] = m
  BY AppendIs
<1>2. m \notin F => \A k \in 1..Len(s) : s[k] # m
  BY <1>1 DEF Elems
<1>3. \A k \in DOMAIN a : k \in 1..Len(s) \/ k = Len(s) + 1
  BY <1>1
<1> QED BY <1>1, <1>2, <1>3

\* Of what a conversation was told, it knows of all that still waits, or has forgotten it.
Recalled ==
  \A v \in Convs : \A k \in Elems(Said(v)) :
    k \in Stored /\ (k \in Live => k \in Heard(v) \/ k \in past.forgotten)

LEMMA HeardStep ==
  ASSUME ConvsStep, NEW v \in Convs, NEW k \in Heard(v), k \in Live, Said(v)' # <<>>
  PROVE  k \in Heard(v)' \/ k \in past'.forgotten
<1>1. ASSUME NEW m \in Messages, NEW c \in Claimants, Creates(m, c) PROVE k \in Heard(v)'
  <2>1. conv'[v] = conv[v]
    BY <1>1 DEF Creates, Makes, New
  <2> QED BY <2>1 DEF Heard
<1> QED BY <1>1 DEF ConvsStep, ConvsGoOn, GoesOn, Told

LEMMA StepRecalled ==
  ASSUME Fit, Recalled, ConvsStep, past.forgotten \subseteq past'.forgotten, \A n \in Messages : SigStep(n)
  PROVE  Recalled'
<1> SUFFICES ASSUME NEW v \in Convs, NEW k \in Elems(Said(v)')
             PROVE  k \in Stored' /\ (k \in Live' => k \in Heard(v)' \/ k \in past'.forgotten)
  BY DEF Recalled
<1>1. CASE k \in Elems(Said(v))
  <2>1. k \in Stored /\ k \in Messages /\ (k \in Live => k \in Heard(v) \/ k \in past.forgotten)
    BY <1>1 DEF Recalled, Stored
  <2>2. k \in Stored' /\ (k \in Live' => k \in Live)
    BY <2>1, StoredStays
  <2>3. Said(v)' # <<>>
    BY ElemsOf
  <2> QED BY <2>1, <2>2, <2>3, HeardStep
<1>2. CASE k \in Messages /\ Told(k, v)
  <2>1. k \in Stored
    BY <1>2, InHand DEF Told, Live
  <2> QED BY <1>2, <2>1, StoredStays DEF Told
<1> QED BY <1>1, <1>2, ElemsStep DEF Fit

LEMMA StepOnce ==
  ASSUME Fit, AppendedOnce, Recalled, ConvsStep, past.forgotten \subseteq past'.forgotten
  PROVE  AppendedOnce'
<1> DEFINE Once(s, F) == \A j, k \in DOMAIN s : s[j] = s[k] /\ s[j] \notin F => j = k
<1> SUFFICES ASSUME NEW v \in Convs PROVE Once(Said(v)', past'.forgotten)
  BY DEF AppendedOnce
<1>1. PICK s \in Seq(Messages) : s = Said(v) /\ Once(s, past.forgotten)
  BY SaidIs DEF AppendedOnce, Fit
<1>2. Once(s, past'.forgotten)
  BY <1>1
<1>3. CASE Said(v)' = Said(v)
  BY <1>1, <1>2, <1>3
<1>4. ASSUME NEW m \in Messages, Told(m, v) PROVE Once(Said(v)', past'.forgotten)
  <2>1. m \in Live /\ Said(v)' = Append(s, m) /\ m \notin Heard(v)
    BY <1>1, <1>4, InHand DEF Told
  <2>2. m \in Elems(s) => m \in past'.forgotten
    BY <1>1, <2>1 DEF Recalled
  <2>3. Once(Append(s, m), past'.forgotten)
    BY <1>2, <2>2, AppendKeepsOnce
  <2> QED BY <2>1, <2>3
<1>5. CASE Said(v)' = <<>>
  BY <1>5
<1> HIDE DEF Once
<1> QED BY <1>3, <1>4, <1>5, SaidStep

\* Whoever makes a conversation was shown all that are open, or is misled.
LEMMA StepOneOpen ==
  ASSUME OneOpenConversation, ConvsStep, past.misled => past'.misled
  PROVE  OneOpenConversation'
<1> SUFFICES ASSUME ~past'.misled, NEW v \in Convs, NEW w \in Convs, v # w, conv'[v].open, conv'[w].open,
                    conv'[v].by = conv'[w].by, conv'[v].id = conv'[w].id, conv'[v].from = conv'[w].from
             PROVE  FALSE
  BY DEF OneOpenConversation, Open
<1>1. CASE ConvsGoOn
  <2>1. \A u \in Convs : SameConv(u) /\ (conv'[u].open => conv[u].open)
    BY <1>1 DEF ConvsGoOn, GoesOn, Told
  <2> QED BY <2>1 DEF OneOpenConversation, Open, SameConv
<1>2. ASSUME NEW m \in Messages, NEW c \in Claimants, Creates(m, c) PROVE FALSE
  <2>1. PICK new \in Convs :
          /\ \A u \in Convs \ {new} : conv'[u] = conv[u]
          /\ conv'[new].by = c /\ conv'[new].id = InitiationOf[m] /\ conv'[new].from = sig[m].src
    BY <1>2 DEF Creates, Makes
  <2>2. CASE v # new /\ w # new
    BY <2>1, <2>2 DEF OneOpenConversation, Open
  <2>3. ASSUME NEW u \in Convs \ {new}, conv'[u].open, conv'[u].by = c, conv'[u].id = InitiationOf[m], conv'[u].from = sig[m].src
        PROVE  FALSE
    <3>1. u \in Open /\ conv[u].by = c /\ conv[u].id = InitiationOf[m] /\ conv[u].from = sig[m].src
      BY <2>1, <2>3 DEF Open
    <3>2. u \notin Listed.open
      BY <1>2, <3>1 DEF Creates, Reusable
    <3> QED BY <1>2, <3>1, <3>2 DEF Creates, Unlisted
  <2> QED BY <2>1, <2>2, <2>3
<1> QED BY <1>1, <1>2 DEF ConvsStep

\* A message is an input of a conversation once: what is appended again after a crash or
\* an unanswered write is found there by the name derived from the message, unless the
\* conversation has forgotten the run that cites it.  And while no list was answered from a
\* cache that had fallen behind, a claimant never has two open conversations for one id of
\* one source: whoever makes one was shown those that are open.
THEOREM RoutedOnceHolds == Spec => []RoutedOnce
<1> DEFINE Inv == Fit /\ Recalled /\ AppendedOnce /\ OneOpenConversation
<1>1. Init => Inv
  <2>1. Init => \A v \in Convs : Said(v) = <<>>
    BY NoConvIs DEF Init, Said
  <2> QED BY <2>1, InitFit, NoConvIs, ElemsOf DEF Init, Recalled, AppendedOnce, OneOpenConversation, Open
<1>2. Inv /\ [Next]_vars => Inv'
  BY Steps, ConvSteps, StepRecalled, StepOnce, StepOneOpen
<1>3. Inv => RoutedOnce
  BY DEF RoutedOnce
<1> QED BY <1>1, <1>2, <1>3, PTL DEF Spec

-----------------------------------------------------------------------------
(* In the order of arrival. *)

\* What is open, or listed as open, was made; and a pass appends to a conversation
\* of its message's id.
Made == (\A v \in Open : conv[v].made) /\ (\A v \in cache.open : conv[v].made)
Heading ==
  \A m \in Messages :
    pass[m].pc = "append" => pass[m].to \in Convs /\ conv[pass[m].to].made /\ conv[pass[m].to].id = InitiationOf[m]

LEMMA InitMade == Init => Made /\ Heading
BY NoConvIs, NoPassIs, ViewIs DEF Init, Made, Heading, Open

LEMMA StepMade == ASSUME Fit, Fit', Made, ConvsStep, CacheStep PROVE Made'
<1>1. ASSUME NEW v \in Convs, conv'[v].open PROVE conv'[v].made
  <2>1. CASE ConvsGoOn
    BY <1>1, <2>1 DEF ConvsGoOn, GoesOn, Told, SameConv, Made, Open
  <2>2. ASSUME NEW m \in Messages, NEW c \in Claimants, Creates(m, c) PROVE conv'[v].made
    BY <1>1, <2>2 DEF Creates, Makes, New, Made, Open
  <2> QED BY <2>1, <2>2 DEF ConvsStep
<1>2. ASSUME NEW v \in Convs, v \in cache'.open PROVE conv'[v].made
  BY <1>2, MadeStays DEF CacheStep, Made
<1>3. cache'.open \subseteq Convs
  BY DEF Fit, Typed, Caches
<1> QED BY <1>1, <1>2, <1>3 DEF Made, Open

LEMMA ListedMade == ASSUME Fit, Made PROVE \A v \in Listed.open : v \in Convs /\ conv[v].made
BY ListedIs, ViewIs DEF Fit, Made, Listed

LEMMA StepHeading ==
  ASSUME Fit, Made, Heading, ConvsStep, \A n \in Messages : HeadStep(n)
  PROVE  Heading'
<1> SUFFICES ASSUME NEW n \in Messages, pass'[n].pc = "append"
             PROVE  pass'[n].to \in Convs /\ conv'[pass'[n].to].made /\ conv'[pass'[n].to].id = InitiationOf[n]
  BY DEF Heading
<1>1. CASE pass[n].pc = "append" /\ pass'[n].to = pass[n].to
  <2>1. PICK v \in Convs : v = pass[n].to /\ conv[v].made /\ conv[v].id = InitiationOf[n]
    BY <1>1 DEF Heading
  <2> QED BY <1>1, <2>1, MadeStays DEF SameConv
<1>2. ASSUME NEW c \in Claimants, pass'[n].to \in Reusable(n, c), UNCHANGED conv
      PROVE  pass'[n].to \in Convs /\ conv'[pass'[n].to].made /\ conv'[pass'[n].to].id = InitiationOf[n]
  BY <1>2, ListedMade DEF Reusable
<1>3. ASSUME NEW c \in Claimants, Creates(n, c)
      PROVE  pass'[n].to \in Convs /\ conv'[pass'[n].to].made /\ conv'[pass'[n].to].id = InitiationOf[n]
  BY <1>3 DEF Creates, Makes, New
<1> QED BY <1>1, <1>2, <1>3 DEF HeadStep

\* A conversation was told only what is stored and of its id; and of those of one key
\* that still wait none arrived before what it was told.
Mine == \A v \in Convs : \A k \in Elems(Said(v)) : k \in Stored /\ conv[v].made /\ InitiationOf[k] = conv[v].id
Earlier ==
  past.misled \/ \A v \in Convs : \A k \in Elems(Said(v)) : \A n \in Live : SameKey(k, n) => sig[k].at <= sig[n].at

LEMMA StepMine ==
  ASSUME Fit, Mine, Heading, ConvsStep, \A n \in Messages : SigStep(n)
  PROVE  Mine'
<1> SUFFICES ASSUME NEW v \in Convs, NEW k \in Elems(Said(v)')
             PROVE  k \in Stored' /\ conv'[v].made /\ InitiationOf[k] = conv'[v].id
  BY DEF Mine
<1>1. CASE k \in Elems(Said(v)) /\ (conv[v].made => SameConv(v))
  <2>1. k \in Stored /\ k \in Messages /\ conv[v].made /\ InitiationOf[k] = conv[v].id
    BY <1>1 DEF Mine, Stored
  <2> QED BY <1>1, <2>1, StoredStays DEF SameConv
<1>2. CASE k \in Messages /\ Told(k, v)
  <2>1. k \in Stored /\ conv[v].made /\ conv[v].id = InitiationOf[k]
    BY <1>2, InHand DEF Told, Heading, Live
  <2> QED BY <1>2, <2>1, StoredStays DEF Told, SameConv
<1> QED BY <1>1, <1>2, ElemsStep DEF Fit

LEMMA StepEarlier ==
  ASSUME Fit, Mine, First, Earlier, ConvsStep, past.misled => past'.misled, \A n \in Messages : SigStep(n)
  PROVE  Earlier'
<1> SUFFICES ASSUME ~past'.misled, NEW v \in Convs, NEW k \in Elems(Said(v)'), NEW n \in Messages, n \in Live', SameKey(k, n)'
             PROVE  sig'[k].at <= sig'[n].at
  BY LiveIs DEF Earlier, Live, Stored
<1>1. k \in Messages /\ k \in Stored
  <2>1. CASE k \in Elems(Said(v))
    BY <2>1 DEF Mine, Stored
  <2>2. CASE k \in Messages /\ Told(k, v)
    BY <2>2, InHand DEF Told, Live
  <2> QED BY <2>1, <2>2, ElemsStep DEF Fit
<1>2. sig'[k].at = sig[k].at /\ sig'[k].src = sig[k].src
  BY <1>1, StoredStays
<1>3. CASE n \in Stored
  <2>1. n \in Live /\ sig'[n].at = sig[n].at /\ SameKey(k, n)
    BY <1>2, <1>3, StoredStays DEF SameKey
  <2>2. CASE k \in Elems(Said(v))
    BY <1>2, <2>1, <2>2 DEF Earlier
  <2>3. CASE Told(k, v)
    BY <1>1, <1>2, <2>1, <2>3 DEF First, Told
  <2> QED BY <2>2, <2>3, ElemsStep DEF Fit
<1>4. CASE n \notin Stored
  <2>1. Newest(n)
    BY <1>4 DEF SigStep, Rewritten, Live, Stored
  <2> QED BY <1>1, <1>2, <2>1 DEF Newest
<1> QED BY <1>3, <1>4

InOrder(s) == \A j, k \in DOMAIN s : j < k /\ sig[s[j]].src = sig[s[k]].src => sig[s[j]].at <= sig[s[k]].at

LEMMA ArrivalIs == ArrivalOrder <=> past.misled \/ \A v \in Convs : InOrder(Said(v))
BY DEF ArrivalOrder, InOrder

\* What is stored stays in order, and may be followed by one that none of it arrived after.
LEMMA OrderStays ==
  ASSUME NEW s \in Seq(Messages), InOrder(s), Elems(s) \subseteq Stored, \A n \in Messages : SigStep(n)
  PROVE  InOrder(s)'
<1>1. \A k \in DOMAIN s : s[k] \in Stored
  BY DEF Elems
<1>2. \A k \in DOMAIN s : sig'[s[k]].at = sig[s[k]].at /\ sig'[s[k]].src = sig[s[k]].src
  BY <1>1, StoredStays DEF Stored
<1> QED BY <1>2 DEF InOrder

LEMMA OrderGrows ==
  ASSUME NEW s \in Seq(Messages), NEW m \in Messages, InOrder(s),
         \A k \in Elems(s) : sig[k].src = sig[m].src => sig[k].at <= sig[m].at
  PROVE  InOrder(Append(s, m))
<1>1. PICK a \in Seq(Messages) :
        /\ a = Append(s, m) /\ DOMAIN s = 1..Len(s) /\ DOMAIN a = 1..(Len(s) + 1) /\ Len(s) \in Nat
        /\ (\A k \in 1..Len(s) : a[k] = s[k]) /\ a[Len(s) + 1] = m
  BY AppendIs
<1>2. ASSUME NEW j \in DOMAIN a, NEW k \in DOMAIN a, j < k, sig[a[j]].src = sig[a[k]].src
      PROVE  sig[a[j]].at <= sig[a[k]].at
  <2>1. CASE k \in 1..Len(s)
    <3>1. j \in 1..Len(s)
      BY <1>1, <1>2, <2>1
    <3> QED BY <1>1, <1>2, <2>1, <3>1 DEF InOrder
  <2>2. CASE k = Len(s) + 1
    <3>1. j \in 1..Len(s)
      BY <1>1, <1>2, <2>2
    <3>2. a[j] \in Elems(s) /\ a[k] = m
      BY <1>1, <2>2, <3>1 DEF Elems
    <3> QED BY <1>2, <3>2
  <2>3. k \in 1..Len(s) \/ k = Len(s) + 1
    BY <1>1
  <2> QED BY <2>1, <2>2, <2>3
<1> QED BY <1>1, <1>2 DEF InOrder

LEMMA StepOrder ==
  ASSUME Fit, Mine, Heading, Earlier, ArrivalOrder, ConvsStep, past.misled => past'.misled,
         \A n \in Messages : SigStep(n)
  PROVE  ArrivalOrder'
<1> SUFFICES ASSUME ~past'.misled, NEW v \in Convs PROVE InOrder(Said(v))'
  BY DEF ArrivalOrder, InOrder
<1>1. PICK s \in Seq(Messages) : s = Said(v) /\ InOrder(s)
  BY SaidIs, ArrivalIs DEF Fit
<1>2. Elems(s) \subseteq Stored
  BY <1>1 DEF Mine
<1>3. CASE Said(v)' = Said(v)
  <2>1. InOrder(s)'
    BY <1>1, <1>2, OrderStays
  <2> QED BY <1>1, <1>3, <2>1 DEF InOrder
<1>4. ASSUME NEW m \in Messages, Told(m, v) PROVE InOrder(Said(v))'
  <2>1. m \in Live /\ m \in Stored /\ conv[v].id = InitiationOf[m]
    BY <1>4, InHand DEF Told, Heading, Live
  <2>2. \A k \in Elems(s) : sig[k].src = sig[m].src => sig[k].at <= sig[m].at
    BY <1>1, <2>1 DEF Mine, Earlier, SameKey
  <2>3. PICK a \in Seq(Messages) : a = Append(s, m) /\ InOrder(a) /\ Elems(a) = Elems(s) \cup {m}
    <3>1. Append(s, m) \in Seq(Messages) /\ InOrder(Append(s, m))
      BY <1>1, <2>2, OrderGrows
    <3>2. Elems(Append(s, m)) = Elems(s) \cup {m}
      BY ElemsOf
    <3> QED BY <3>1, <3>2
  <2>4. InOrder(a)'
    BY <1>2, <2>1, <2>3, OrderStays
  <2>5. Said(v)' = a
    BY <1>1, <1>4, <2>3 DEF Told
  <2> QED BY <2>4, <2>5 DEF InOrder
<1>5. CASE Said(v)' = <<>>
  BY <1>5 DEF InOrder
<1> QED BY <1>3, <1>4, <1>5, SaidStep

\* What a conversation is told by one source is in the order it arrived in, though passes
\* run beside each other, fail and start again, unless a list was answered from a cache
\* that had fallen behind: a pass takes its turn, the oldest first, and keeps it to its end.
THEOREM ArrivalIsKept == Spec => []ArrivalOrder
<1> DEFINE Inv == Fit /\ First /\ Made /\ Heading /\ Mine /\ Earlier /\ ArrivalOrder
<1>1. Init => Inv
  <2>1. Init => \A v \in Convs : Said(v) = <<>>
    BY NoConvIs DEF Init, Said
  <2>2. Init => Mine /\ Earlier /\ ArrivalOrder
    BY <2>1, ElemsOf DEF Mine, Earlier, ArrivalOrder
  <2> QED BY <2>2, InitFit, InitAlone, InitMade
<1>2. Inv /\ [Next]_vars => Inv'
  <2> SUFFICES ASSUME Inv, [Next]_vars PROVE Inv'
    OBVIOUS
  <2>1. Fit' /\ (past.misled => past'.misled) /\ \A n \in Messages : SigStep(n) /\ PassStep(n)
    BY Steps
  <2>2. ConvsStep /\ CacheStep /\ \A n \in Messages : HeadStep(n)
    BY ConvSteps
  <2>3. First' /\ Made' /\ Heading'
    BY <2>1, <2>2, StepFirst, StepMade, StepHeading
  <2> QED BY <2>1, <2>2, <2>3, StepMine, StepEarlier, StepOrder
<1>3. Inv => ArrivalOrder
  OBVIOUS
<1> QED BY <1>1, <1>2, <1>3, PTL DEF Spec

-----------------------------------------------------------------------------
(* What a step does to the cooldown windows. *)

SpentKept == \A n \in Messages : pass'[n].spent <=> pass[n].spent
Quiet == SpentKept /\ (\A s \in Sources : Opened(s)) /\ UNCHANGED window /\ SameAccount
Spending(m) == Spends(m) /\ ~pass[m].spent /\ PassOthers(m)
Deciding(m) == (Enters(m) \/ Returns(m) \/ Mistakes(m)) /\ PassOthers(m) /\ ~pass'[m].spent
Others(s) ==
  /\ SpentKept /\ (\A t \in Sources : Opened(t))
  /\ book'[s].built /\ ~book'[s].off /\ Recorded(s, book'[s].seen, past)
Ending(s, i) ==
  /\ (\A m \in Messages : Key(s, i, m) => ~pass[m].spent) /\ SpentKept /\ BooksElsewhere(s)
  /\ book'[s].built = book[s].built /\ book'[s].off = book[s].off /\ book'[s].seen = book[s].seen \ {i}
  /\ window'[s] = window[s] \ {i} /\ past'.missing[s] = past.missing[s] \ {i} /\ past'.stray[s] = past.stray[s] \ {i}
  /\ \A t \in Sources \ {s} :
       window'[t] = window[t] /\ past'.missing[t] = past.missing[t] /\ past'.stray[t] = past.stray[t]
  /\ past'.admitted[s][i] = {}
  /\ \A t \in Sources, j \in Ids : t # s \/ j # i => past'.admitted[t][j] = past.admitted[t][j]
Restarting ==
  /\ (\A n \in Messages : ~pass'[n].spent) /\ (\A s \in Sources : book'[s].built = FALSE /\ book'[s].seen = {})
  /\ \A s \in Sources : past.stray[s] \subseteq past'.stray[s]
                        /\ \A m \in Messages : pass[m].spent /\ sig[m].src = s => InitiationOf[m] \in past'.stray[s]
  /\ UNCHANGED window /\ past'.missing = past.missing /\ past'.admitted = past.admitted
CoolStep ==
  \/ Quiet
  \/ \E m \in Messages : Spending(m) \/ Deciding(m)
  \/ \E s \in Sources : Others(s) \/ \E i \in Ids : Ending(s, i)
  \/ Restarting

LEMMA SpentIs ==
  ASSUME Fit, NEW m \in Messages
  PROVE  pass[m].spent \in BOOLEAN /\ (pass[m].pc # "snap" => ~pass[m].spent)
BY DEF Fit, Typed, Passes, Passing, PassingAt

LEMMA CoolSteps ==
  ASSUME Fit, [Next]_vars
  PROVE  CoolStep
<1> DEFINE Goal == CoolStep
<1> SUFFICES Goal
  OBVIOUS
<1>1. CASE UNCHANGED vars
  BY <1>1, StutterIs DEF CoolStep, Quiet, SpentKept, Opened, SameAccount
<1>2. ASSUME NEW m \in Messages, Publish(m) PROVE Goal
  BY <1>2, PublishIs DEF CoolStep, Quiet, SpentKept, Opened, SameAccount
<1>3. ASSUME NEW m \in Messages, PassEnds(m) PROVE Goal
  BY <1>3, PassEndsIs DEF CoolStep, Quiet, SpentKept, Opened, SameAccount
<1>4. ASSUME NEW m \in Messages, PassReads(m) PROVE Goal
  BY <1>4, PassReadsIs, SpentIs DEF CoolStep, Quiet, SpentKept, PassOthers, Opened, SameAccount
<1>5. ASSUME NEW m \in Messages, Admit(m) PROVE Goal
  <2>1. pass[m].pc = "admit" /\ PassOthers(m) /\ ~pass[m].spent
    BY <1>5, AdmitIs, SpentIs
  <2>2. CASE Chosen(m) \/ Suppressed(m)
    BY <2>1, <2>2 DEF CoolStep, Quiet, SpentKept, PassOthers, Chosen, Suppressed, BooksElsewhere, Opened, SameAccount
  <2>3. CASE Spends(m)
    BY <2>1, <2>3 DEF CoolStep, Spending
  <2> QED BY <1>5, <2>2, <2>3, AdmitIs
<1>6. ASSUME NEW m \in Messages, AdmitFails(m) PROVE Goal
  BY <1>6, AdmitFailsIs, SpentIs, NoPassIs DEF CoolStep, Quiet, SpentKept, PassGone, PassOthers, Opened, SameAccount
<1>7. ASSUME NEW m \in Messages, Snapshot(m) PROVE Goal
  BY <1>7, SnapshotIs DEF CoolStep, Deciding
<1>8. ASSUME NEW m \in Messages, NEW c \in Claimants, SkipGone(m, c) PROVE Goal
  BY <1>8, SkipGoneIs, SpentIs DEF CoolStep, Quiet, SpentKept, Routes, PassOthers, Opened, SameAccount
<1>9. ASSUME NEW m \in Messages, NEW c \in Claimants, RouteReuses(m, c) PROVE Goal
  BY <1>9, RouteReusesIs, SpentIs DEF CoolStep, Quiet, SpentKept, Routes, PassOthers, Opened, SameAccount
<1>10. ASSUME NEW m \in Messages, NEW c \in Claimants, RouteWaits(m, c) PROVE Goal
  BY <1>10, RouteWaitsIs, SpentIs DEF CoolStep, Quiet, SpentKept, Routes, PassOthers, Opened, SameAccount
<1>11. ASSUME NEW m \in Messages, NEW c \in Claimants, RouteCreates(m, c) PROVE Goal
  BY <1>11, RouteCreatesIs, SpentIs DEF CoolStep, Quiet, SpentKept, Routes, PassOthers, Opened, SameAccount
<1>12. ASSUME NEW m \in Messages, AppendInput(m) PROVE Goal
  BY <1>12, AppendInputIs, SpentIs DEF CoolStep, Quiet, SpentKept, Routes, PassOthers, Opened, SameAccount
<1>13. ASSUME NEW m \in Messages, RouteFails(m) PROVE Goal
  BY <1>13, RouteFailsIs, SpentIs DEF CoolStep, Quiet, SpentKept, Routes, PassOthers, Opened, SameAccount
<1>14. ASSUME NEW m \in Messages, PassSaves(m) PROVE Goal
  BY <1>14, PassSavesIs, SpentIs, NoPassIs DEF CoolStep, Quiet, SpentKept, PassGone, PassOthers, Opened, SameAccount
<1>15. ASSUME CacheFallsBehind PROVE Goal
  BY <1>15, CacheFallsBehindIs DEF CoolStep, Quiet, SpentKept, Opened, SameAccount
<1>16. ASSUME CacheSyncs PROVE Goal
  BY <1>16, CacheSyncsIs DEF CoolStep, Quiet, SpentKept, Opened, SameAccount
<1>17. ASSUME LeaderChanges PROVE Goal
  BY <1>17, LeaderChangesIs, SpentIs, NoPassIs DEF CoolStep, Restarting
<1>18. ASSUME NEW v \in Convs, ConversationRuns(v) PROVE Goal
  BY <1>18, ConversationRunsIs DEF CoolStep, Quiet, SpentKept, Opened, SameAccount
<1>19. ASSUME NEW v \in Convs, ConversationCloses(v) PROVE Goal
  BY <1>19, ConversationClosesIs DEF CoolStep, Quiet, SpentKept, Opened, SameAccount
<1>20. ASSUME NEW c \in Claimants, ClaimantGoes(c) PROVE Goal
  BY <1>20, ClaimantGoesIs DEF CoolStep, Quiet, SpentKept, Opened, SameAccount
<1>21. ASSUME NEW s \in Sources, NEW i \in Ids, WindowEnds(s, i) PROVE Goal
  BY <1>21, WindowEndsIs DEF CoolStep, Ending, SpentKept
<1>22. ASSUME NEW m \in Messages, BacklogFull(m) PROVE Goal
  BY <1>22, BacklogFullIs DEF CoolStep, Deciding
<1>23. ASSUME NEW m \in Messages, BacklogFails(m) PROVE Goal
  BY <1>23, BacklogFailsIs, NoPassIs DEF CoolStep, Deciding, PassGone
<1>24. ASSUME NEW v \in Convs, NEW m \in Messages, RunForgotten(v, m) PROVE Goal
  BY <1>24, RunForgottenIs DEF CoolStep, Quiet, SpentKept, Opened, SameAccount
<1>25. ASSUME NEW s \in Sources, OthersSpend(s) PROVE Goal
  <2>1. \A t \in Sources : Opened(t)
    BY <1>25, OthersSpendIs DEF BooksElsewhere, Opened
  <2> QED BY <1>25, <2>1, OthersSpendIs DEF CoolStep, Quiet, Others, SpentKept, SameAccount
<1> HIDE DEF Goal
<1> QED BY <1>1, <1>2, <1>3, <1>4, <1>5, <1>6, <1>7, <1>8, <1>9, <1>10, <1>11, <1>12, <1>13, <1>14, <1>15, <1>16, <1>17, <1>18, <1>19, <1>20, <1>21, <1>22, <1>23, <1>24, <1>25 DEF Next, Route

\* Decided is whoever has claimants, or is over; it stays so.  And it is an admission
\* that finds the window taken that suppresses.
Decided(n) == sig[n].claim # Unclaimed \/ n \notin Live
DecideStep(n) ==
  /\ n \in Stored /\ Decided(n) => Decided(n)'
  /\ pass[n].pc = "admit" /\ pass'[n].rec.phase = "suppressed" => Suppressed(n)

LEMMA UndecidedIs ==
  ASSUME Fit, NEW m \in Messages
  PROVE  /\ pass[m].pc \in {"admit", "snap"} => ~Decided(m)
         /\ pass[m].pc = "admit" => pass[m].rec.phase # "suppressed" /\ ~pass[m].spent
BY DEF Fit, Passing, PassingAt, Decided, Terminal

LEMMA OthersDecided ==
  ASSUME NEW n \in Messages, sig'[n] = sig[n], Decided(n)
  PROVE  Decided(n)'
BY DEF Decided, Live, Stored

LEMMA DecideSteps ==
  ASSUME Fit, [Next]_vars
  PROVE  \A n \in Messages : DecideStep(n)
<1> DEFINE Goal == \A n \in Messages : DecideStep(n)
<1> SUFFICES Goal
  OBVIOUS
<1>1. CASE UNCHANGED vars
  BY <1>1, StutterIs, UndecidedIs, OthersDecided DEF DecideStep
<1>2. ASSUME NEW m \in Messages, Publish(m) PROVE Goal
  BY <1>2, PublishIs, UndecidedIs, OthersDecided DEF DecideStep, SigOthers
<1>3. ASSUME NEW m \in Messages, PassEnds(m) PROVE Goal
  BY <1>3, PassEndsIs, UndecidedIs, OthersDecided DEF DecideStep, SigOthers, Decided, Live
<1>4. ASSUME NEW m \in Messages, PassReads(m) PROVE Goal
  BY <1>4, PassReadsIs, UndecidedIs, OthersDecided DEF DecideStep, PassOthers
<1>5. ASSUME NEW m \in Messages, Admit(m) PROVE Goal
  BY <1>5, AdmitIs, UndecidedIs, OthersDecided DEF DecideStep, PassOthers, Chosen, Spends, Terminal
<1>6. ASSUME NEW m \in Messages, AdmitFails(m) PROVE Goal
  BY <1>6, AdmitFailsIs, UndecidedIs, OthersDecided, NoPassIs, AbsentIs DEF DecideStep, Wrote, SigOthers, PassGone, PassOthers
<1>7. ASSUME NEW m \in Messages, Snapshot(m) PROVE Goal
  BY <1>7, SnapshotIs, UndecidedIs, OthersDecided, NoPassIs, AbsentIs DEF DecideStep, Wrote, SigOthers, PassOthers, Enters, Mistakes
<1>8. ASSUME NEW m \in Messages, NEW c \in Claimants, SkipGone(m, c) PROVE Goal
  BY <1>8, SkipGoneIs, UndecidedIs, OthersDecided DEF DecideStep, Routes, PassOthers
<1>9. ASSUME NEW m \in Messages, NEW c \in Claimants, RouteReuses(m, c) PROVE Goal
  BY <1>9, RouteReusesIs, UndecidedIs, OthersDecided DEF DecideStep, Routes, PassOthers
<1>10. ASSUME NEW m \in Messages, NEW c \in Claimants, RouteWaits(m, c) PROVE Goal
  BY <1>10, RouteWaitsIs, UndecidedIs, OthersDecided DEF DecideStep, Routes, PassOthers
<1>11. ASSUME NEW m \in Messages, NEW c \in Claimants, RouteCreates(m, c) PROVE Goal
  BY <1>11, RouteCreatesIs, UndecidedIs, OthersDecided DEF DecideStep, Routes, PassOthers
<1>12. ASSUME NEW m \in Messages, AppendInput(m) PROVE Goal
  BY <1>12, AppendInputIs, UndecidedIs, OthersDecided DEF DecideStep, Routes, PassOthers
<1>13. ASSUME NEW m \in Messages, RouteFails(m) PROVE Goal
  BY <1>13, RouteFailsIs, UndecidedIs, OthersDecided DEF DecideStep, Routes, PassOthers
<1>14. ASSUME NEW m \in Messages, PassSaves(m) PROVE Goal
  BY <1>14, PassSavesIs, UndecidedIs, OthersDecided, NoPassIs, AbsentIs DEF DecideStep, Decided, SigOthers, PassGone, PassOthers
<1>15. ASSUME CacheFallsBehind PROVE Goal
  BY <1>15, CacheFallsBehindIs, UndecidedIs, OthersDecided DEF DecideStep
<1>16. ASSUME CacheSyncs PROVE Goal
  BY <1>16, CacheSyncsIs, UndecidedIs, OthersDecided DEF DecideStep
<1>17. ASSUME LeaderChanges PROVE Goal
  BY <1>17, LeaderChangesIs, UndecidedIs, OthersDecided, NoPassIs, AbsentIs DEF DecideStep
<1>18. ASSUME NEW v \in Convs, ConversationRuns(v) PROVE Goal
  BY <1>18, ConversationRunsIs, UndecidedIs, OthersDecided DEF DecideStep
<1>19. ASSUME NEW v \in Convs, ConversationCloses(v) PROVE Goal
  BY <1>19, ConversationClosesIs, UndecidedIs, OthersDecided DEF DecideStep
<1>20. ASSUME NEW c \in Claimants, ClaimantGoes(c) PROVE Goal
  BY <1>20, ClaimantGoesIs, UndecidedIs, OthersDecided DEF DecideStep
<1>21. ASSUME NEW s \in Sources, NEW i \in Ids, WindowEnds(s, i) PROVE Goal
  BY <1>21, WindowEndsIs, UndecidedIs, OthersDecided DEF DecideStep
<1>22. ASSUME NEW m \in Messages, BacklogFull(m) PROVE Goal
  BY <1>22, BacklogFullIs, UndecidedIs, OthersDecided DEF DecideStep, PassOthers
<1>23. ASSUME NEW m \in Messages, BacklogFails(m) PROVE Goal
  BY <1>23, BacklogFailsIs, UndecidedIs, OthersDecided, NoPassIs, AbsentIs DEF DecideStep, Unnamed, SigOthers, PassGone, PassOthers
<1>24. ASSUME NEW v \in Convs, NEW m \in Messages, RunForgotten(v, m) PROVE Goal
  BY <1>24, RunForgottenIs, UndecidedIs, OthersDecided DEF DecideStep
<1>25. ASSUME NEW s \in Sources, OthersSpend(s) PROVE Goal
  BY <1>25, OthersSpendIs, UndecidedIs, OthersDecided DEF DecideStep
<1> HIDE DEF Goal
<1> QED BY <1>1, <1>2, <1>3, <1>4, <1>5, <1>6, <1>7, <1>8, <1>9, <1>10, <1>11, <1>12, <1>13, <1>14, <1>15, <1>16, <1>17, <1>18, <1>19, <1>20, <1>21, <1>22, <1>23, <1>24, <1>25 DEF Next, Route

-----------------------------------------------------------------------------
(* One per cooldown window. *)

\* While a pass has spent its id, its source's book is in use and holds it.
InUse == \A m \in Messages : pass[m].spent => On(sig[m].src) /\ InitiationOf[m] \in book[sig[m].src].seen

LEMMA SpendsAt ==
  ASSUME Fit, Fit', NEW m \in Messages, SigStep(m), PassStep(m), pass[m].spent \/ pass'[m].spent
  PROVE  /\ m \in Live /\ m \in Stored /\ sig'[m].src = sig[m].src /\ sig[m].src \in Sources /\ InitiationOf[m] \in Ids
<1>1. pass[m].pc # "idle" \/ pass'[m].pc # "idle"
  BY DEF Fit, Passing, PassingAt
<1>2. m \in Live
  BY <1>1, InHand, AtWork
<1> QED BY <1>2, StoredStays, IdOf DEF Live, Fit, Typed, Recs

LEMMA SpentTurns ==
  ASSUME Fit, Alone, NEW m \in Messages, NEW n \in Messages, m # n, pass[m].spent, pass[n].spent
  PROVE  ~SameKey(m, n)
BY DEF Fit, Passing, PassingAt, Alone

LEMMA StepInUse ==
  ASSUME Fit, Fit', Alone, InUse, CoolStep, \A n \in Messages : SigStep(n) /\ PassStep(n)
  PROVE  InUse'
<1> SUFFICES ASSUME NEW n \in Messages, pass'[n].spent
             PROVE  /\ book'[sig'[n].src].built /\ ~book'[sig'[n].src].off
                    /\ InitiationOf[n] \in book'[sig'[n].src].seen
  BY DEF InUse, On
<1> DEFINE t == sig[n].src
           j == InitiationOf[n]
           Done == book'[t].built /\ ~book'[t].off /\ j \in book'[t].seen
<1>1. sig'[n].src = t /\ t \in Sources /\ j \in Ids
  BY SpendsAt
<1>2. ASSUME SpentKept, \A s \in Sources : Opened(s) PROVE Done
  BY <1>1, <1>2 DEF SpentKept, InUse, On, Opened
<1>3. ASSUME NEW m \in Messages, Spending(m) PROVE Done
  BY <1>1, <1>3 DEF Spending, Spends, PassOthers, InUse, On, BooksElsewhere, Seen
<1>4. ASSUME NEW m \in Messages, Deciding(m) PROVE Done
  <2>1. n # m /\ pass[n].spent /\ book[t].built /\ ~book[t].off /\ j \in book[t].seen
    BY <1>4 DEF Deciding, PassOthers, InUse, On
  <2>2. CASE UNCHANGED book
    BY <2>1, <2>2
  <2>3. ASSUME NEW was, GivesBack(m, was), pass[m].spent PROVE Done
    <3>1. ~SameKey(m, n)
      BY <2>1, <2>3, SpentTurns
    <3> QED BY <1>1, <2>1, <2>3, <3>1 DEF GivesBack, BooksElsewhere, SameKey
  <2>4. ASSUME NEW was, GivesBack(m, was), ~pass[m].spent PROVE UNCHANGED book
    BY <2>4 DEF GivesBack
  <2> QED BY <1>4, <2>2, <2>3, <2>4 DEF Deciding, Enters, Returns, Mistakes
<1>5. ASSUME NEW s \in Sources, NEW i \in Ids, Ending(s, i) PROVE Done
  BY <1>1, <1>5 DEF Ending, SpentKept, InUse, On, BooksElsewhere, Key
<1>6. ASSUME Restarting PROVE Done
  BY <1>6 DEF Restarting
<1> HIDE DEF Done
<1>7. Done
  BY <1>2, <1>3, <1>4, <1>5, <1>6 DEF CoolStep, Quiet, Others
<1> QED BY <1>1, <1>7 DEF Done

\* Unless some record of the window left the id out: under whom it was admitted it stays in
\* the record, and in the book while that is in use; it was one; and where a pass has just
\* spent it, it is in the record and was admitted under none.
Sound(s, i) ==
  /\ past.admitted[s][i] # {} => i \in window[s] /\ (On(s) => i \in book[s].seen)
  /\ \A a, b \in past.admitted[s][i] : a = b
  /\ \A m \in Messages : pass[m].spent /\ Key(s, i, m) => i \in window[s] /\ past.admitted[s][i] = {}
Tight == \A s \in Sources, i \in Ids : i \in past.missing[s] \/ Sound(s, i)

LEMMA InitTight == Init => InUse /\ Tight
BY NoPassIs DEF Init, InUse, Tight, Sound

Wanted(s, i) == past.admitted[s][i] # {} \/ \E m \in Messages : pass[m].spent /\ Key(s, i, m)
StillIn(s, i) == Wanted(s, i) => i \in window'[s]
StillBooked(s, i) == past.admitted[s][i] # {} => (book'[s].built /\ ~book'[s].off => i \in book'[s].seen)

LEMMA SoundKept ==
  ASSUME Fit, Fit', \A n \in Messages : SigStep(n) /\ PassStep(n), NEW s \in Sources, NEW i \in Ids, Sound(s, i),
         past'.admitted[s][i] = past.admitted[s][i], StillIn(s, i), StillBooked(s, i),
         \A m \in Messages : pass'[m].spent /\ Key(s, i, m) => pass[m].spent
  PROVE  Sound(s, i)'
<1>1. past'.admitted[s][i] # {} => i \in window'[s] /\ (On(s)' => i \in book'[s].seen)
  BY DEF StillIn, StillBooked, Wanted, On
<1>2. \A a, b \in past'.admitted[s][i] : a = b
  BY DEF Sound
<1>3. ASSUME NEW m \in Messages, pass'[m].spent, Key(s, i, m)' PROVE i \in window'[s] /\ past'.admitted[s][i] = {}
  <2>1. sig'[m].src = sig[m].src
    BY <1>3, SpendsAt
  <2>2. pass[m].spent /\ Key(s, i, m)
    BY <1>3, <2>1 DEF Key
  <2> QED BY <2>2 DEF Sound, StillIn, Wanted
<1> QED BY <1>1, <1>2, <1>3 DEF Sound

\* A record that left nothing out has what was to be recorded.
LEMMA RecordedIn ==
  ASSUME NEW s \in Sources, NEW ids, NEW was, NEW i \in ids, Recorded(s, ids, was), i \notin past'.missing[s]
  PROVE  i \in window'[s]
BY DEF Recorded

\* A use of the window keeps in the book what was in the record and in the book.
LEMMA OpenedKeeps ==
  ASSUME NEW s \in Sources, NEW i \in Ids, Sound(s, i), Opened(s)
  PROVE  StillBooked(s, i)
BY DEF Sound, Opened, StillBooked, On

LEMMA WantedIn ==
  ASSUME InUse, NEW s \in Sources, NEW i \in Ids, Sound(s, i), Wanted(s, i), On(s)
  PROVE  i \in book[s].seen
BY DEF InUse, Sound, Wanted, Key

LEMMA SpendingSound ==
  ASSUME Fit, Fit', InUse, \A n \in Messages : SigStep(n) /\ PassStep(n), NEW s \in Sources, NEW i \in Ids, Sound(s, i),
         i \notin past'.missing[s], NEW m \in Messages, Spending(m)
  PROVE  Sound(s, i)'
<1> DEFINE t == sig[m].src
           j == InitiationOf[m]
<1>1. /\ t \in Sources /\ j \in Ids /\ j \notin Seen(t) /\ BooksElsewhere(t) /\ (book[t].built => On(t))
      /\ book'[t].built /\ ~book'[t].off /\ book'[t].seen = Seen(t) \cup {j} /\ Recorded(t, Seen(t) \cup {j}, past)
      /\ PassOthers(m) /\ ~pass[m].spent /\ sig'[m].src = t
  BY SpendsAt DEF Spending, Spends
<1>2. past'.admitted = past.admitted
  BY <1>1 DEF Recorded
<1>3. \A n \in Messages : pass'[n].spent => n = m \/ pass[n].spent
  BY <1>1 DEF PassOthers
<1>4. CASE s # t
  <2>1. book'[s] = book[s] /\ window'[s] = window[s]
    BY <1>1, <1>4 DEF BooksElsewhere, Recorded
  <2>2. StillIn(s, i) /\ StillBooked(s, i)
    BY <2>1 DEF Sound, StillIn, StillBooked, Wanted, On
  <2>3. \A n \in Messages : pass'[n].spent /\ Key(s, i, n) => pass[n].spent
    BY <1>3, <1>4 DEF Key
  <2> QED BY <1>2, <2>2, <2>3, SoundKept
<1>5. CASE s = t /\ i # j
  <2>1. Wanted(s, i) => i \in Seen(s)
    BY <1>1, <1>5, WantedIn DEF Seen, Sound, Wanted
  <2>2. StillIn(s, i) /\ StillBooked(s, i)
    BY <1>1, <1>5, <2>1, RecordedIn DEF StillIn, StillBooked, Wanted
  <2>3. \A n \in Messages : pass'[n].spent /\ Key(s, i, n) => pass[n].spent
    BY <1>3, <1>5 DEF Key
  <2> QED BY <1>2, <2>2, <2>3, SoundKept
<1>6. CASE s = t /\ i = j
  <2>1. past.admitted[s][i] = {}
    BY <1>1, <1>6 DEF Sound, Seen, On
  <2>2. i \in window'[s]
    BY <1>1, <1>6, RecordedIn
  <2> QED BY <1>2, <2>1, <2>2 DEF Sound
<1> QED BY <1>4, <1>5, <1>6

LEMMA DecidingSound ==
  ASSUME Fit, Fit', Alone, InUse, \A n \in Messages : SigStep(n) /\ PassStep(n), NEW s \in Sources, NEW i \in Ids, Sound(s, i),
         i \notin past'.missing[s], NEW m \in Messages, Deciding(m)
  PROVE  Sound(s, i)'
<1> DEFINE t == sig[m].src
           j == InitiationOf[m]
<1>1. PassOthers(m) /\ ~pass'[m].spent /\ \A n \in Messages : pass'[n].spent => n # m /\ pass[n].spent
  BY DEF Deciding, PassOthers
<1>2. ASSUME ~pass[m].spent PROVE Sound(s, i)'
  <2>1. UNCHANGED <<book, window, past>>
    BY <1>2 DEF Deciding, Enters, Returns, Mistakes, GivesBack, Admitted, Mistaken
  <2>2. StillIn(s, i) /\ StillBooked(s, i)
    BY <2>1 DEF Sound, StillIn, StillBooked, Wanted, On
  <2> QED BY <1>1, <2>1, <2>2, SoundKept
<1>3. ASSUME pass[m].spent PROVE Sound(s, i)'
  <2>1. t \in Sources /\ j \in Ids /\ On(t) /\ j \in book[t].seen /\ sig'[m].src = t
    BY <1>3, SpendsAt DEF InUse
  <2>2. \A n \in Messages : pass'[n].spent => ~Key(t, j, n)
    BY <1>1, <1>3, SpentTurns DEF Key, SameKey
  <2>3. CASE s = t /\ i = j
    <3>1. past.admitted[s][i] = {} /\ i \in window[s]
      BY <1>3, <2>3 DEF Sound, Key
    <3>2. \A n \in Messages : pass'[n].spent => ~Key(s, i, n)'
      BY <2>2, <2>3, SpendsAt DEF Key
    <3>3. CASE Enters(m)
      <4>1. Joined(m, past') /\ UNCHANGED <<book, window>>
        BY <3>3, AdmittedIs DEF Enters
      <4>2. past'.admitted[s][i] = {m}
        BY <1>3, <2>3, <3>1, <4>1 DEF Joined, Key
      <4> QED BY <2>1, <2>3, <3>1, <3>2, <4>1, <4>2 DEF Sound
    <3>4. CASE Returns(m)
      <4>1. past'.admitted[s][i] = {}
        BY <1>3, <3>1, <3>4 DEF Returns, GivesBack, Recorded
      <4> QED BY <3>2, <4>1 DEF Sound
    <3>5. CASE Mistakes(m)
      <4>1. i \in past'.missing[s]
        BY <1>3, <2>3, <3>5, MistakenIs DEF Mistakes, GivesBack, Recorded
      <4> QED BY <4>1
    <3> QED BY <3>3, <3>4, <3>5 DEF Deciding
  <2>4. CASE s # t \/ i # j
    <3>1. ~Key(s, i, m)
      BY <2>4 DEF Key
    <3>2. \A p : Joined(m, p) => p.admitted[s][i] = past.admitted[s][i]
      <4> SUFFICES ASSUME NEW p, Joined(m, p) PROVE p.admitted[s][i] = past.admitted[s][i]
        OBVIOUS
      <4>1. p.admitted[s][i] = past.admitted[s][i] \cup {}
        BY <3>1 DEF Joined
      <4> QED BY <4>1
    <3>3. CASE Enters(m)
      <4>1. Joined(m, past') /\ UNCHANGED <<book, window>>
        BY <3>3, AdmittedIs DEF Enters
      <4>2. StillIn(s, i) /\ StillBooked(s, i)
        BY <4>1 DEF Sound, StillIn, StillBooked, Wanted, On
      <4> QED BY <1>1, <3>2, <4>1, <4>2, SoundKept
    <3>4. ASSUME NEW was, GivesBack(m, was), was.admitted[s][i] = past.admitted[s][i] PROVE Sound(s, i)'
      <4>1. /\ BooksElsewhere(t) /\ book'[t].built = book[t].built /\ book'[t].off = book[t].off
            /\ book'[t].seen = book[t].seen \ {j} /\ Recorded(t, book[t].seen \ {j}, was)
        BY <1>3, <3>4 DEF GivesBack
      <4>2. past'.admitted[s][i] = past.admitted[s][i]
        BY <3>4, <4>1 DEF Recorded
      <4>3. StillIn(s, i)
        <5>1. CASE s # t
          BY <4>1, <5>1 DEF Recorded, Sound, StillIn, Wanted
        <5>2. CASE s = t
          <6> SUFFICES ASSUME Wanted(s, i) PROVE i \in window'[s]
            BY DEF StillIn
          <6>1. i \in book[t].seen \ {j}
            BY <2>1, <2>4, <5>2, WantedIn
          <6> QED BY <4>1, <5>2, <6>1, RecordedIn
        <5> QED BY <5>1, <5>2
      <4>4. StillBooked(s, i)
        BY <2>1, <2>4, <4>1 DEF StillBooked, Sound, On, BooksElsewhere
      <4> QED BY <1>1, <4>2, <4>3, <4>4, SoundKept
    <3>5. Mistaken(m).admitted[s][i] = past.admitted[s][i]
      BY <1>3, <3>2, MistakenIs
    <3> QED BY <3>3, <3>4, <3>5 DEF Deciding, Returns, Mistakes
  <2> QED BY <2>3, <2>4
<1> QED BY <1>2, <1>3

LEMMA EndingSound ==
  ASSUME Fit, Fit', \A n \in Messages : SigStep(n) /\ PassStep(n), NEW s \in Sources, NEW i \in Ids,
         i \in past.missing[s] \/ Sound(s, i), i \notin past'.missing[s], NEW t \in Sources, NEW j \in Ids, Ending(t, j)
  PROVE  Sound(s, i)'
<1>1. CASE s = t /\ i = j
  <2>1. \A n \in Messages : pass'[n].spent => ~Key(s, i, n)'
    BY <1>1, SpendsAt DEF Ending, SpentKept, Key
  <2> QED BY <1>1, <2>1 DEF Ending, Sound
<1>2. CASE s # t \/ i # j
  <2>1. Sound(s, i) /\ past'.admitted[s][i] = past.admitted[s][i]
    BY <1>2 DEF Ending
  <2>2. StillIn(s, i) /\ StillBooked(s, i)
    BY <1>2, <2>1 DEF Ending, BooksElsewhere, Sound, StillIn, StillBooked, Wanted, On
  <2> QED BY <2>1, <2>2, SoundKept DEF Ending, SpentKept
<1> QED BY <1>1, <1>2

LEMMA StepTight ==
  ASSUME Fit, Fit', Alone, InUse, Tight, CoolStep, \A n \in Messages : SigStep(n) /\ PassStep(n)
  PROVE  Tight'
<1> SUFFICES ASSUME NEW s \in Sources, NEW i \in Ids, i \notin past'.missing[s] PROVE Sound(s, i)'
  BY DEF Tight
<1>1. i \in past.missing[s] \/ Sound(s, i)
  BY DEF Tight
<1>2. CASE Quiet
  <2>1. Sound(s, i) /\ past'.admitted[s][i] = past.admitted[s][i] /\ Opened(s)
    BY <1>1, <1>2 DEF Quiet, SameAccount
  <2>2. StillIn(s, i)
    BY <1>2, <2>1 DEF Quiet, Sound, StillIn, Wanted
  <2> QED BY <1>2, <2>1, <2>2, OpenedKeeps, SoundKept DEF Quiet, SpentKept
<1>3. ASSUME NEW m \in Messages, Spending(m) PROVE Sound(s, i)'
  <2>1. Sound(s, i)
    BY <1>1, <1>3 DEF Spending, Spends, Recorded
  <2> QED BY <1>3, <2>1, SpendingSound
<1>4. ASSUME NEW m \in Messages, Deciding(m) PROVE Sound(s, i)'
  <2>1. past.missing[s] \subseteq past'.missing[s]
    <3>1. CASE pass[m].spent
      <4>1. past.missing[s] \subseteq Mistaken(m).missing[s] /\ past.missing[s] = Admitted(m).missing[s]
        BY <3>1, MistakenIs, AdmittedIs
      <4>2. ASSUME NEW was, GivesBack(m, was) PROVE was.missing[s] \subseteq past'.missing[s]
        BY <3>1, <4>2 DEF GivesBack, Recorded
      <4> QED BY <1>4, <4>1, <4>2 DEF Deciding, Enters, Returns, Mistakes
    <3>2. CASE ~pass[m].spent
      BY <1>4, <3>2 DEF Deciding, Enters, Returns, Mistakes, GivesBack, Admitted, Mistaken
    <3> QED BY <3>1, <3>2
  <2>2. Sound(s, i)
    BY <1>1, <2>1
  <2> QED BY <1>4, <2>2, DecidingSound
<1>5. ASSUME NEW t \in Sources, Others(t) PROVE Sound(s, i)'
  <2>1. Sound(s, i) /\ past'.admitted[s][i] = past.admitted[s][i] /\ Opened(s)
    BY <1>1, <1>5 DEF Others, Recorded
  <2>2. StillBooked(s, i)
    BY <2>1, OpenedKeeps
  <2>3. StillIn(s, i)
    <3>1. CASE s # t
      BY <1>5, <2>1, <3>1 DEF Others, Recorded, Sound, StillIn, Wanted
    <3>2. CASE s = t
      <4> SUFFICES ASSUME Wanted(s, i) PROVE i \in window'[s]
        BY DEF StillIn
      <4>1. i \in book'[s].seen
        <5>1. CASE past.admitted[s][i] # {}
          BY <1>5, <2>2, <3>2, <5>1 DEF StillBooked, Others
        <5>2. ASSUME NEW m \in Messages, pass[m].spent, Key(s, i, m) PROVE i \in book'[s].seen
          BY <2>1, <5>2 DEF InUse, On, Key, Opened
        <5> QED BY <5>1, <5>2 DEF Wanted
      <4> QED BY <1>5, <3>2, <4>1, RecordedIn DEF Others
    <3> QED BY <3>1, <3>2
  <2> QED BY <1>5, <2>1, <2>2, <2>3, SoundKept DEF Others, SpentKept
<1>6. ASSUME NEW t \in Sources, NEW j \in Ids, Ending(t, j) PROVE Sound(s, i)'
  BY <1>1, <1>6, EndingSound
<1>7. CASE Restarting
  <2>1. Sound(s, i) /\ past'.admitted[s][i] = past.admitted[s][i]
    BY <1>1, <1>7 DEF Restarting
  <2>2. StillIn(s, i) /\ StillBooked(s, i)
    BY <1>7, <2>1 DEF Restarting, Sound, StillIn, StillBooked, Wanted
  <2> QED BY <1>7, <2>1, <2>2, SoundKept DEF Restarting
<1> QED BY <1>2, <1>3, <1>4, <1>5, <1>6, <1>7 DEF CoolStep

LEMMA OneAtMost == ASSUME Fit, Tight PROVE CooldownHolds
<1> SUFFICES ASSUME NEW s \in Sources, NEW i \in Ids, i \notin past.missing[s] PROVE Cardinality(past.admitted[s][i]) <= 1
  BY DEF CooldownHolds
<1>1. \A a, b \in past.admitted[s][i] : a = b
  BY DEF Tight, Sound
<1>2. CASE past.admitted[s][i] = {}
  BY <1>2, FS_EmptySet
<1>3. ASSUME NEW a \in past.admitted[s][i] PROVE Cardinality(past.admitted[s][i]) <= 1
  <2>1. past.admitted[s][i] = {a}
    BY <1>1
  <2>2. Cardinality({a}) = 1
    BY FS_Singleton
  <2> QED BY <2>1, <2>2
<1> QED BY <1>2, <1>3

\* Two signals of one id, machines' or persons', do not spend it in one cooldown window of
\* their source: across restarts that lose the book, decisions given back, windows that
\* others use and times in which the source is found off; unless some write of the record
\* left the id out, as a write that fails or an overflow does, or a decision that was
\* recorded was taken for one that was not.
THEOREM CooldownIsKept == Spec => []CooldownHolds
<1> DEFINE Inv == Fit /\ Alone /\ InUse /\ Tight
<1>1. Init => Inv
  BY InitFit, InitAlone, InitTight
<1>2. Inv /\ [Next]_vars => Inv'
  BY Steps, CoolSteps, StepAlone, StepInUse, StepTight
<1>3. Inv => CooldownHolds
  BY OneAtMost
<1> QED BY <1>1, <1>2, <1>3, PTL DEF Spec

-----------------------------------------------------------------------------
(* Suppressed by another. *)

\* Whoever was admitted is stored and decided; and each id in the book or the record is held
\* by somebody admitted under it or by a pass that has spent it, or is known to be astray:
\* left in the record when it was given back, or spent by a pass whose process died.
Entered ==
  \A s \in Sources, i \in Ids : \A n \in past.admitted[s][i] : n \in Stored /\ Key(s, i, n) /\ Decided(n)
Holds(s, i, n) == n \in past.admitted[s][i] \/ (n \in Stored /\ Key(s, i, n) /\ pass[n].spent)
Accounted ==
  \A s \in Sources, i \in Ids :
    i \in window[s] \cup book[s].seen => i \in past.stray[s] \/ \E n \in Messages : Holds(s, i, n)

LEMMA InitAccounted == Init => Entered /\ Accounted
BY DEF Init, Entered, Accounted, Unbuilt

LEMMA LedgerIs == ASSUME Fit, NEW s \in Sources, NEW i \in Ids PROVE past.admitted[s][i] \subseteq Messages
BY DEF Fit, Typed, Pasts, Ledgers

\* What a decision makes of the ledger and of the strays.
LEMMA DecidingIs ==
  ASSUME Fit, NEW m \in Messages, Deciding(m), NEW s \in Sources, NEW i \in Ids
  PROVE  /\ \/ past'.admitted[s][i] = past.admitted[s][i]
            \/ Wrote(m) /\ pass[m].spent /\ Key(s, i, m) /\ past'.admitted[s][i] = past.admitted[s][i] \cup {m}
         /\ past.stray[s] \subseteq past'.stray[s]
<1>1. ASSUME NEW p, Joined(m, p)
      PROVE  \/ p.admitted[s][i] = past.admitted[s][i]
             \/ pass[m].spent /\ Key(s, i, m) /\ p.admitted[s][i] = past.admitted[s][i] \cup {m}
  <2>1. CASE pass[m].spent /\ Key(s, i, m)
    BY <1>1, <2>1 DEF Joined
  <2>2. CASE ~(pass[m].spent /\ Key(s, i, m))
    <3>1. p.admitted[s][i] = past.admitted[s][i] \cup {}
      BY <1>1, <2>2 DEF Joined
    <3> QED BY <3>1
  <2> QED BY <2>1, <2>2
<1>2. CASE Enters(m)
  BY <1>1, <1>2, AdmittedIs DEF Enters
<1>3. ASSUME NEW was, GivesBack(m, was) PROVE past'.admitted[s][i] = was.admitted[s][i] /\ was.stray[s] \subseteq past'.stray[s]
  <2>1. CASE pass[m].spent
    BY <1>3, <2>1 DEF GivesBack, Recorded
  <2>2. CASE ~pass[m].spent
    BY <1>3, <2>2 DEF GivesBack
  <2> QED BY <2>1, <2>2
<1>4. CASE Returns(m)
  BY <1>3, <1>4 DEF Returns
<1>5. CASE Mistakes(m)
  <2>1. CASE pass[m].spent
    BY <1>1, <1>3, <1>5, <2>1, MistakenIs DEF Mistakes
  <2>2. CASE ~pass[m].spent
    BY <1>3, <1>5, <2>2 DEF Mistakes, Mistaken
  <2> QED BY <2>1, <2>2
<1> QED BY <1>2, <1>4, <1>5 DEF Deciding

\* Who joins the ledger, and when.
LEMMA JoinsIs ==
  ASSUME Fit, CoolStep, NEW s \in Sources, NEW i \in Ids
  PROVE  \/ past'.admitted[s][i] \subseteq past.admitted[s][i]
         \/ \E m \in Messages : /\ Wrote(m) /\ pass[m].spent /\ Key(s, i, m)
                                /\ past'.admitted[s][i] = past.admitted[s][i] \cup {m}
<1>1. ASSUME NEW t \in Sources, NEW j \in Ids, Ending(t, j) PROVE past'.admitted[s][i] \subseteq past.admitted[s][i]
  BY <1>1 DEF Ending
<1> QED BY <1>1, DecidingIs DEF CoolStep, Quiet, SameAccount, Spending, Spends, Others, Recorded, Restarting

LEMMA StepEntered ==
  ASSUME Fit, Fit', Entered, CoolStep, \A n \in Messages : SigStep(n) /\ PassStep(n) /\ DecideStep(n)
  PROVE  Entered'
<1> SUFFICES ASSUME NEW s \in Sources, NEW i \in Ids, NEW n \in past'.admitted[s][i]
             PROVE  n \in Stored' /\ Key(s, i, n)' /\ Decided(n)'
  BY DEF Entered
<1>1. CASE n \in past.admitted[s][i]
  <2>1. n \in Messages /\ n \in Stored /\ Key(s, i, n) /\ Decided(n)
    BY <1>1, LedgerIs DEF Entered
  <2> QED BY <2>1, StoredStays DEF DecideStep, Key
<1>2. ASSUME NEW m \in Messages, n = m, Wrote(m), pass[m].spent, Key(s, i, m)
      PROVE  n \in Stored' /\ Key(s, i, n)' /\ Decided(n)'
  <2>1. pass[m].rec.claim # Unclaimed
    BY <1>2 DEF Fit, Passing, PassingAt
  <2>2. Decided(m)'
    BY <1>2, <2>1 DEF Wrote, Decided
  <2> QED BY <1>2, <2>2, SpendsAt, StoredStays DEF Key
<1> QED BY <1>1, <1>2, JoinsIs

\* Who holds an id goes on holding it while it is not given back and its window lasts.
LEMMA HoldsOn ==
  ASSUME NEW s \in Sources, NEW i \in Ids, NEW n \in Messages, Holds(s, i, n), SigStep(n),
         past.admitted[s][i] \subseteq past'.admitted[s][i], pass[n].spent => pass'[n].spent
  PROVE  Holds(s, i, n)'
BY StoredStays DEF Holds, Key

LEMMA StepAccounted ==
  ASSUME Fit, Fit', Accounted, CoolStep, \A n \in Messages : SigStep(n) /\ PassStep(n)
  PROVE  Accounted'
<1> SUFFICES ASSUME NEW s \in Sources, NEW i \in Ids, i \in window'[s] \cup book'[s].seen, i \notin past'.stray[s]
             PROVE  \E n \in Messages : Holds(s, i, n)'
  BY DEF Accounted
<1> DEFINE Was == i \in window[s] \cup book[s].seen
           Kept == \E n \in Messages : Holds(s, i, n)'
<1>1. ASSUME Was, i \notin past.stray[s] PROVE \E n \in Messages : Holds(s, i, n)
  BY <1>1 DEF Accounted
<1>2. ASSUME Was, i \notin past.stray[s], past.admitted[s][i] \subseteq past'.admitted[s][i],
             \A n \in Messages : pass[n].spent => pass'[n].spent
      PROVE  Kept
  BY <1>1, <1>2, HoldsOn
<1>3. ASSUME Quiet PROVE Kept
  <2>1. Was
    BY <1>3 DEF Quiet, Opened
  <2> QED BY <1>2, <1>3, <2>1 DEF Quiet, SpentKept, SameAccount
<1>4. ASSUME NEW m \in Messages, Spending(m) PROVE Kept
  <2>1. CASE Key(s, i, m)
    <3>1. pass'[m].spent /\ m \in Stored' /\ Key(s, i, m)'
      BY <1>4, <2>1, SpendsAt, StoredStays DEF Spending, Spends, Key
    <3> QED BY <3>1 DEF Holds
  <2>2. CASE ~Key(s, i, m)
    <3>1. Was /\ i \notin past.stray[s] /\ past'.admitted = past.admitted
      BY <1>4, <2>2 DEF Spending, Spends, BooksElsewhere, Recorded, Seen, Key
    <3>2. \A n \in Messages : pass[n].spent => pass'[n].spent
      BY <1>4 DEF Spending, Spends, PassOthers
    <3> QED BY <1>2, <3>1, <3>2
  <2> QED BY <2>1, <2>2
<1>5. ASSUME NEW m \in Messages, Deciding(m) PROVE Kept
  <2>1. past.admitted[s][i] \subseteq past'.admitted[s][i] /\ i \notin past.stray[s]
    BY <1>5, DecidingIs
  <2>2. ASSUME NEW was, GivesBack(m, was), pass[m].spent PROVE Was /\ ~Key(s, i, m)
    BY <2>2 DEF GivesBack, BooksElsewhere, Recorded, Key
  <2>3. Was
    <3>1. ASSUME NEW was, GivesBack(m, was), ~pass[m].spent PROVE Was
      BY <3>1 DEF GivesBack
    <3> QED BY <1>5, <2>2, <3>1 DEF Deciding, Enters, Returns, Mistakes
  <2>4. PICK n \in Messages : Holds(s, i, n)
    BY <1>1, <2>1, <2>3
  <2>5. CASE n # m
    <3>1. pass'[n] = pass[n]
      BY <1>5, <2>5 DEF Deciding, PassOthers
    <3> QED BY <2>1, <2>4, <3>1, HoldsOn
  <2>6. CASE n = m /\ m \in past.admitted[s][i]
    BY <2>1, <2>6 DEF Holds
  <2>7. CASE n = m /\ Key(s, i, m) /\ pass[m].spent
    <3>1. Enters(m)
      BY <1>5, <2>2, <2>7 DEF Deciding, Returns, Mistakes
    <3>2. m \in past'.admitted[s][i]
      BY <2>7, <3>1, AdmittedIs DEF Enters, Joined
    <3> QED BY <3>2 DEF Holds
  <2> QED BY <2>4, <2>5, <2>6, <2>7 DEF Holds
<1>6. ASSUME NEW t \in Sources, Others(t) PROVE Kept
  <2>1. Was /\ i \notin past.stray[s] /\ past'.admitted = past.admitted
    BY <1>6 DEF Others, Recorded, Opened
  <2> QED BY <1>2, <1>6, <2>1 DEF Others, SpentKept
<1>7. ASSUME NEW t \in Sources, NEW j \in Ids, Ending(t, j) PROVE Kept
  <2>1. Was /\ (t # s \/ j # i) /\ i \notin past.stray[s]
    BY <1>7 DEF Ending, BooksElsewhere
  <2>2. past'.admitted[s][i] = past.admitted[s][i]
    BY <1>7, <2>1 DEF Ending
  <2> QED BY <1>2, <1>7, <2>1, <2>2 DEF Ending, SpentKept
<1>8. ASSUME Restarting PROVE Kept
  <2>1. Was /\ i \notin past.stray[s] /\ past'.admitted = past.admitted
    BY <1>8 DEF Restarting
  <2>2. PICK n \in Messages : Holds(s, i, n)
    BY <1>1, <2>1
  <2>3. ~(Key(s, i, n) /\ pass[n].spent)
    BY <1>8 DEF Restarting, Key
  <2> QED BY <2>1, <2>2, <2>3 DEF Holds
<1> HIDE DEF Kept
<1>9. Kept
  BY <1>3, <1>4, <1>5, <1>6, <1>7, <1>8 DEF CoolStep
<1> QED BY <1>9 DEF Kept

\* What finds its id in the window finds another's, or a stray.
LEMMA AnotherWas ==
  ASSUME Fit, Alone, Entered, Accounted, NEW m \in Messages, pass[m].pc = "admit", Suppressed(m)
  PROVE  \/ past.admitted[sig[m].src][InitiationOf[m]] \ {m} # {}
         \/ InitiationOf[m] \in past.stray[sig[m].src]
<1> DEFINE s == sig[m].src
           i == InitiationOf[m]
<1>1. s \in Sources /\ i \in Ids
  BY IdOf DEF Fit, Typed, Recs
<1>2. i \in window[s] \cup book[s].seen
  BY DEF Suppressed, Seen
<1>3. i \in past.stray[s] \/ \E n \in Messages : Holds(s, i, n)
  BY <1>1, <1>2 DEF Accounted
<1>4. ASSUME NEW n \in Messages, Holds(s, i, n) PROVE past.admitted[s][i] \ {m} # {}
  <2>1. CASE n \in past.admitted[s][i]
    <3>1. Decided(n) /\ ~Decided(m)
      BY <1>1, <2>1, UndecidedIs DEF Entered
    <3> QED BY <2>1, <3>1
  <2>2. CASE Key(s, i, n) /\ pass[n].spent
    <3>1. pass[n].pc = "snap" /\ SameKey(m, n)
      BY <2>2, SpentIs DEF Key, SameKey
    <3> QED BY <3>1 DEF Alone
  <2> QED BY <1>4, <2>1, <2>2 DEF Holds
<1> QED BY <1>3, <1>4

\* A signal is suppressed only because another of its id was admitted in the window, or the
\* id is astray: spent by a pass whose process died before it recorded or gave back what it
\* had decided, or left in the record by a write that failed.  Never is it for what its own
\* earlier passes spent while the record of that was given back.
THEOREM NeverByItself == Spec => SuppressedByAnother
<1> DEFINE Inv == Fit /\ Alone /\ Entered /\ Accounted
           Step == \A m \in Messages :
                     pass[m].pc = "admit" /\ pass'[m].rec.phase = "suppressed" =>
                       LET s == sig[m].src  i == InitiationOf[m] IN
                         past.admitted[s][i] \ {m} # {} \/ i \in past.stray[s]
<1>1. Init => Inv
  BY InitFit, InitAlone, InitAccounted
<1>2. Inv /\ [Next]_vars => Inv'
  BY Steps, CoolSteps, DecideSteps, StepAlone, StepEntered, StepAccounted
<1>3. Inv /\ [Next]_vars => Step
  BY DecideSteps, AnotherWas DEF DecideStep
<1>4. Spec => [][Step]_vars
  BY <1>1, <1>2, <1>3, PTL DEF Spec
<1> QED BY <1>4 DEF SuppressedByAnother

-----------------------------------------------------------------------------
(***************************************************************************)
(* Where messages come from: one Home Assistant source.  Its constants and  *)
(* variables are declared here, whatever they are, and the theorem is about *)
(* its specification; nothing above is used.                                *)
(*                                                                         *)
(* An occurrence that has been considered is either still marked as seen, or*)
(* lies behind the cursor where no path brings it again: what is on the wire*)
(* of its key is later, and so is what the sweep will look at.              *)
(***************************************************************************)

CONSTANTS Keys, Deferred, MaxTime
VARIABLES log, now, session, wire, src, saved, th, dwell, flush, homeFaults, homePast
Home == INSTANCE HomeAssistant WITH faults <- homeFaults, past <- homePast

Occurrences == [key : Keys, at : Nat \ {0}]
Working == {"see", "hold", "post", "advance", "persist"}
Places == Working \cup {"idle", "cursor", "next"}
Readers == [pc : Places, rec : Occurrences \cup {Home!NoRecord}, listed : SUBSET Keys, todo : Seq(Occurrences),
            cursor : Int]
PastFields == {"settled", "life", "twice", "vain", "raced", "again"}

HomeTyped ==
  /\ log \in [Keys -> Nat] /\ IsFiniteSet(Home!Logged) /\ now \in Nat
  /\ wire \in Seq(Occurrences) /\ src \in [cursor : Int, seen : [Keys -> Nat]] /\ saved \in Int
  /\ th \in [Home!Paths -> Readers]
  /\ \A p \in Home!Paths : th[p].pc \in Working => th[p].rec \in Occurrences
  /\ DOMAIN dwell = {"at", "quiet"} /\ DOMAIN flush = {"pc", "at"}
  /\ DOMAIN homePast = PastFields /\ homePast.life \in [Keys -> Nat]

Event == th["event"]
Sweep == th["sweep"]

\* What is on its way of a key, or in the reader's hand, is later than all of that key
\* that this process has considered.
Untouched(k) ==
  /\ \A i \in 1..Len(wire) : wire[i].key = k => wire[i].at > homePast.life[k]
  /\ Event.pc = "see" /\ Event.rec.key = k => Event.rec.at > homePast.life[k]

\* Events of one key come in the order it occurred.
OccurInOrder ==
  /\ \A i, j \in 1..Len(wire) : i < j /\ wire[i].key = wire[j].key => wire[i].at < wire[j].at
  /\ Event.pc = "see" => \A i \in 1..Len(wire) : wire[i].key = Event.rec.key => Event.rec.at < wire[i].at

Logs(r) == r.at <= log[r.key]
FromLog ==
  /\ \A k \in Keys : homePast.life[k] <= log[k]
  /\ \A i \in 1..Len(wire) : Logs(wire[i])
  /\ Event.pc = "see" => Logs(Event.rec)
  /\ Sweep.pc = "see" => Logs(Sweep.rec) /\ Sweep.rec.key \in Sweep.listed
  /\ \A i \in 1..Len(Sweep.todo) : Logs(Sweep.todo[i]) /\ Sweep.todo[i].key \in Sweep.listed

\* What a listing lacks had not occurred when it was read.
NotListed == Sweep.pc # "idle" => \A k \in Keys \ Sweep.listed : Untouched(k)

\* What has been considered is still known as seen, or is behind the cursor, where
\* neither path can bring it again.
Behind(k) ==
  /\ src.seen[k] = Home!Never /\ homePast.life[k] < src.cursor /\ Untouched(k)
  /\ Sweep.pc \notin {"idle", "cursor"} => homePast.life[k] < Sweep.cursor
  /\ Sweep.pc = "see" /\ Sweep.rec.key = k => Sweep.rec.at > homePast.life[k]
Remembered == \A k \in Keys : src.seen[k] # homePast.life[k] => Behind(k)

Once == OccurInOrder /\ FromLog /\ NotListed /\ Remembered /\ Home!ConsideredOnce

\* The integration is quiet and a wait is open, or being judged, only if the two met
\* while an earlier verdict was being formed.
KeepsQuiet ==
  /\ flush.pc = "decide" \/ dwell.quiet => dwell.at = Home!NoEntry \/ "queued" \in homePast.raced
  /\ flush.pc = "decide" /\ dwell.quiet => "taken" \in homePast.raced
  /\ Home!QuietIsKept


LEMMA HomeInitTyped == Home!Init => HomeTyped
<1> SUFFICES ASSUME Home!Init PROVE HomeTyped
  OBVIOUS
<1>1. Home!AtRest \in Readers /\ Home!AtRest.pc = "idle"
  BY DEF Home!AtRest, Readers, Places, Home!Never
<1>2. th \in [Home!Paths -> Readers] /\ \A p \in Home!Paths : th[p].pc \notin Working
  BY <1>1 DEF Home!Init, Working
<1>3. Home!Logged = {}
  BY DEF Home!Init, Home!Logged
<1>4. IsFiniteSet(Home!Logged)
  BY <1>3, FS_EmptySet
<1>5. log \in [Keys -> Nat] /\ now \in Nat /\ wire \in Seq(Occurrences) /\ src \in [cursor : Int, seen : [Keys -> Nat]] /\ saved \in Int
  BY DEF Home!Init, Home!Never, Home!Start
<1>6. DOMAIN dwell = {"at", "quiet"} /\ DOMAIN flush = {"pc", "at"} /\ DOMAIN homePast = PastFields /\ homePast.life \in [Keys -> Nat]
  BY DEF Home!Init, Home!Never, Home!Resting, PastFields
<1> QED BY <1>2, <1>4, <1>5, <1>6 DEF HomeTyped

LEMMA HomeInitOnce == Home!Init => Once /\ KeepsQuiet
<1> SUFFICES ASSUME Home!Init PROVE Once /\ KeepsQuiet
  OBVIOUS
<1>1. Event = Home!AtRest /\ Sweep = Home!AtRest /\ wire = <<>> /\ Home!AtRest.pc = "idle" /\ Home!AtRest.todo = <<>>
  BY DEF Home!Init, Event, Sweep, Home!Paths, Home!AtRest
<1>2. homePast.life = [k \in Keys |-> 0] /\ src.seen = [k \in Keys |-> 0] /\ log = [k \in Keys |-> 0] /\ ~homePast.twice /\ ~homePast.again
  BY DEF Home!Init, Home!Never
<1>3. OccurInOrder /\ FromLog /\ NotListed /\ Remembered
  BY <1>1, <1>2 DEF OccurInOrder, FromLog, NotListed, Remembered
<1>4. KeepsQuiet
  BY <1>2 DEF Home!Init, KeepsQuiet, Home!Resting, Home!QuietIsKept
<1> QED BY <1>2, <1>3, <1>4 DEF Once, Home!ConsideredOnce

-----------------------------------------------------------------------------
(* One path's step. *)

\* Path p moves, the other does not.
Moved(p) ==
  /\ th' \in [Home!Paths -> Readers]
  /\ \A q \in Home!Paths \ {p} : th'[q] = th[q]
  /\ th'[p].listed = th[p].listed /\ th'[p].todo = th[p].todo /\ th'[p].cursor = th[p].cursor

LEMMA PathGoesIs ==
  ASSUME HomeTyped, NEW p \in Home!Paths, NEW pc \in Places, Home!Goes(p, pc)
  PROVE  Moved(p) /\ th'[p].pc = pc /\ th'[p].rec = th[p].rec
<1>1. th \in [Home!Paths -> Readers]
  BY DEF HomeTyped
<1>2. th' = [th EXCEPT ![p].pc = pc]
  BY DEF Home!Goes
<1>3. th[p] \in Readers
  BY <1>1
<1>4. th' = [th EXCEPT ![p] = [th[p] EXCEPT !.pc = pc]]
  BY <1>1, <1>2
<1>5. [th[p] EXCEPT !.pc = pc] \in Readers
  BY <1>3 DEF Readers
<1>6. th' \in [Home!Paths -> Readers] /\ th'[p] = [th[p] EXCEPT !.pc = pc] /\ \A q \in Home!Paths \ {p} : th'[q] = th[q]
  BY <1>1, <1>4, <1>5
<1> QED BY <1>3, <1>6 DEF Moved, Readers

LEMMA DoneIs ==
  ASSUME HomeTyped, NEW p \in Home!Paths, Home!Done(p)
  PROVE  Moved(p) /\ th'[p].pc = (IF p = "sweep" THEN "next" ELSE "idle") /\ th'[p].rec = Home!NoRecord
<1> DEFINE next == IF p = "sweep" THEN "next" ELSE "idle"
           to == [th[p] EXCEPT !.pc = next, !.rec = Home!NoRecord]
<1>1. th \in [Home!Paths -> Readers]
  BY DEF HomeTyped
<1>2. th' = [th EXCEPT ![p].pc = next, ![p].rec = Home!NoRecord]
  BY DEF Home!Done
<1>3. th[p] \in Readers /\ next \in Places
  BY <1>1 DEF Places
<1>4. th' = [th EXCEPT ![p] = to]
  BY <1>1, <1>2, <1>3 DEF Readers
<1>5. to \in Readers
  BY <1>3 DEF Readers
<1>6. th' \in [Home!Paths -> Readers] /\ th'[p] = to /\ \A q \in Home!Paths \ {p} : th'[q] = th[q]
  BY <1>1, <1>4, <1>5
<1> QED BY <1>3, <1>6 DEF Moved, Readers


\* A step that takes no record from the log, the wire or the listing, and looks at none.
PassesBy ==
  /\ log' = log /\ wire' = wire /\ src'.seen = src.seen /\ src'.cursor \in Int /\ src'.cursor >= src.cursor
  /\ homePast'.life = homePast.life /\ homePast'.twice = homePast.twice
  /\ Event'.pc = "see" => Event.pc = "see" /\ Event'.rec = Event.rec
  /\ Sweep'.listed = Sweep.listed /\ Sweep'.todo = Sweep.todo /\ Sweep'.cursor = Sweep.cursor
  /\ Sweep'.pc = "see" => Sweep.pc = "see" /\ Sweep'.rec = Sweep.rec
  /\ Sweep'.pc # "idle" => Sweep.pc # "idle"
  /\ Sweep'.pc \notin {"idle", "cursor"} => Sweep.pc \notin {"idle", "cursor"}

LEMMA GoesOnOnce == HomeTyped /\ Once /\ PassesBy => Once'
<1> SUFFICES ASSUME HomeTyped, Once, PassesBy PROVE Once'
  OBVIOUS
<1>1. /\ log' = log /\ wire' = wire /\ src'.seen = src.seen /\ src'.cursor \in Int /\ src'.cursor >= src.cursor
      /\ homePast'.life = homePast.life /\ homePast'.twice = homePast.twice
  BY DEF PassesBy
<1>2. OccurInOrder'
  BY <1>1 DEF Once, OccurInOrder, PassesBy
<1>3. FromLog'
  BY <1>1 DEF Once, FromLog, Logs, PassesBy
<1>4. \A k \in Keys : Untouched(k) => Untouched(k)'
  BY <1>1 DEF Untouched, PassesBy
<1>5. NotListed'
  BY <1>4 DEF Once, NotListed, PassesBy
<1>6. Remembered'
  <2> SUFFICES ASSUME NEW k \in Keys, src'.seen[k] # homePast'.life[k] PROVE Behind(k)'
    BY DEF Remembered
  <2>1. Behind(k)
    BY <1>1 DEF Once, Remembered
  <2>2. src'.seen[k] = Home!Never /\ Untouched(k)'
    BY <1>1, <1>4, <2>1 DEF Behind
  <2>3. homePast'.life[k] < src'.cursor
    <3>1. homePast.life[k] \in Nat /\ src.cursor \in Int /\ homePast.life[k] < src.cursor
      BY <2>1 DEF HomeTyped, Behind
    <3> QED BY <1>1, <3>1
  <2>4. Sweep'.pc \notin {"idle", "cursor"} => homePast'.life[k] < Sweep'.cursor
    BY <1>1, <2>1 DEF Behind, PassesBy
  <2>5. Sweep'.pc = "see" /\ Sweep'.rec.key = k => Sweep'.rec.at > homePast'.life[k]
    BY <1>1, <2>1 DEF Behind, PassesBy
  <2> QED BY <2>2, <2>3, <2>4, <2>5 DEF Behind
<1>7. Home!ConsideredOnce'
  BY <1>1 DEF Once, Home!ConsideredOnce
<1> QED BY <1>2, <1>3, <1>5, <1>6, <1>7 DEF Once

\* What a path's step that takes and looks at nothing amounts to.
LEMMA MovesOn ==
  ASSUME HomeTyped, NEW p \in Home!Paths, Moved(p), th[p].pc \in {"hold", "post", "advance", "persist"},
         th'[p].pc \in {"hold", "post", "advance", "persist"} \/ th'[p].pc = (IF p = "sweep" THEN "next" ELSE "idle"),
         UNCHANGED <<log, wire>>, src'.seen = src.seen, src'.cursor \in Int, src'.cursor >= src.cursor,
         homePast'.life = homePast.life, homePast'.twice = homePast.twice
  PROVE  PassesBy
<1>1. CASE p = "event"
  <2>1. Sweep' = Sweep
    BY <1>1 DEF Moved, Sweep, Home!Paths
  <2>2. Event'.pc # "see"
    BY <1>1 DEF Event
  <2> QED BY <2>1, <2>2 DEF PassesBy
<1>2. CASE p = "sweep"
  <2>1. Event' = Event
    BY <1>2 DEF Moved, Event, Home!Paths
  <2>2. Sweep'.pc # "see" /\ Sweep.pc \notin {"idle", "cursor"}
    BY <1>2 DEF Sweep
  <2>3. Sweep'.listed = Sweep.listed /\ Sweep'.todo = Sweep.todo /\ Sweep'.cursor = Sweep.cursor
    BY <1>2 DEF Moved, Sweep
  <2> QED BY <2>1, <2>2, <2>3 DEF PassesBy
<1> QED BY <1>1, <1>2 DEF Home!Paths

\* What a path's step leaves typed: its record is one of the log as long as it is at work.
LEMMA MovedTyped ==
  ASSUME HomeTyped, NEW p \in Home!Paths, Moved(p),
         th'[p].pc \in Working => th'[p].rec = th[p].rec /\ th[p].pc \in Working,
         UNCHANGED <<log, now, wire>>, src' \in [cursor : Int, seen : [Keys -> Nat]], saved' \in Int,
         DOMAIN dwell' = DOMAIN dwell, flush' = flush,
         DOMAIN homePast' = DOMAIN homePast, homePast'.life \in [Keys -> Nat]
  PROVE  HomeTyped'
<1>1. Home!Logged' = Home!Logged
  BY DEF Home!Logged
<1>2. \A q \in Home!Paths : th'[q].pc \in Working => th'[q].rec \in Occurrences
  <2> SUFFICES ASSUME NEW q \in Home!Paths, th'[q].pc \in Working PROVE th'[q].rec \in Occurrences
    OBVIOUS
  <2>1. CASE q = p
    BY <2>1 DEF HomeTyped
  <2>2. CASE q # p
    BY <2>2 DEF HomeTyped, Moved
  <2> QED BY <2>1, <2>2
<1>3. th' \in [Home!Paths -> Readers]
  BY DEF Moved
<1> QED BY <1>1, <1>2, <1>3 DEF HomeTyped


\* consider, after the look at what has been seen.
LEMMA ConsidersGoesOn ==
  ASSUME HomeTyped, NEW p \in Home!Paths, Home!Holds(p) \/ Home!Posts(p) \/ Home!Advances(p) \/ Home!Persists(p)
  PROVE  HomeTyped' /\ PassesBy
<1> USE DEF Working
<1>0. /\ log \in [Keys -> Nat] /\ src \in [cursor : Int, seen : [Keys -> Nat]] /\ saved \in Int
      /\ DOMAIN homePast = PastFields /\ homePast.life \in [Keys -> Nat] /\ DOMAIN dwell = {"at", "quiet"}
      /\ src.cursor \in Int /\ src.seen \in [Keys -> Nat] /\ src.cursor >= src.cursor
  BY DEF HomeTyped
<1>1. CASE Home!Holds(p)
  <2>1. Moved(p) /\ th'[p].pc = "advance" /\ th'[p].rec = th[p].rec /\ th[p].pc = "hold"
    BY <1>1, PathGoesIs DEF Home!Holds, Home!Path, Places
  <2>2. UNCHANGED <<log, now, session, wire, src, saved, flush, homeFaults>>
    BY <1>1 DEF Home!Holds
  <2>3. DOMAIN dwell' = DOMAIN dwell /\ DOMAIN homePast' = DOMAIN homePast /\ homePast'.life = homePast.life /\ homePast'.twice = homePast.twice
    BY <1>0, <1>1 DEF Home!Holds, PastFields
  <2>4. HomeTyped'
    BY <1>0, <2>1, <2>2, <2>3, MovedTyped
  <2>5. PassesBy
    BY <1>0, <2>1, <2>2, <2>3, MovesOn
  <2> QED BY <2>4, <2>5
<1>2. CASE Home!Posts(p)
  <2>1. /\ Moved(p) /\ th[p].pc = "post"
        /\ \/ th'[p].pc = "advance" /\ th'[p].rec = th[p].rec
           \/ th'[p].pc = IF p = "sweep" THEN "next" ELSE "idle"
    BY <1>2, PathGoesIs, DoneIs DEF Home!Posts, Home!Path, Places
  <2>2. UNCHANGED <<log, now, session, wire, src, saved, dwell, flush>>
    BY <1>2 DEF Home!Posts, Home!queue
  <2>3. DOMAIN homePast' = DOMAIN homePast /\ homePast'.life = homePast.life /\ homePast'.twice = homePast.twice
    BY <1>0, <1>2 DEF Home!Posts, PastFields
  <2>4. HomeTyped'
    BY <1>0, <2>1, <2>2, <2>3, MovedTyped
  <2>5. PassesBy
    BY <1>0, <2>1, <2>2, <2>3, MovesOn
  <2> QED BY <2>4, <2>5
<1>3. CASE Home!Advances(p)
  <2>1. /\ Moved(p) /\ th[p].pc = "advance"
        /\ \/ th'[p].pc = "persist" /\ th'[p].rec = th[p].rec
           \/ th'[p].pc = IF p = "sweep" THEN "next" ELSE "idle"
    BY <1>3, PathGoesIs, DoneIs DEF Home!Advances, Home!Path, Places
  <2>2. UNCHANGED <<log, now, session, wire, saved, homeFaults, dwell, flush>>
    BY <1>3 DEF Home!Advances, Home!queue
  <2>3. DOMAIN homePast' = DOMAIN homePast /\ homePast'.life = homePast.life /\ homePast'.twice = homePast.twice
    BY <1>0, <1>3 DEF Home!Advances, PastFields
  <2>4. th[p].rec.at \in Nat
    BY <2>1 DEF HomeTyped, Occurrences
  <2>5. src' = [src EXCEPT !.cursor = Home!Later(@, th[p].rec.at)]
    BY <1>3 DEF Home!Advances
  <2>6. src' \in [cursor : Int, seen : [Keys -> Nat]] /\ src'.seen = src.seen /\ src'.cursor \in Int /\ src'.cursor >= src.cursor
    BY <1>0, <2>4, <2>5 DEF Home!Later
  <2>7. HomeTyped'
    BY <1>0, <2>1, <2>2, <2>3, <2>6, MovedTyped
  <2>8. PassesBy
    BY <1>0, <2>1, <2>2, <2>3, <2>6, MovesOn
  <2> QED BY <2>7, <2>8
<1>4. CASE Home!Persists(p)
  <2>1. /\ Moved(p) /\ th[p].pc = "persist" /\ th'[p].pc = IF p = "sweep" THEN "next" ELSE "idle"
    BY <1>4, DoneIs DEF Home!Persists, Home!Path
  <2>2. UNCHANGED <<log, now, session, wire, src, homePast, dwell, flush>>
    BY <1>4 DEF Home!Persists, Home!queue
  <2>3. th[p].rec.at \in Nat
    BY <2>1 DEF HomeTyped, Occurrences
  <2>4. saved' \in Int
    BY <1>0, <1>4, <2>3 DEF Home!Persists
  <2>5. HomeTyped'
    BY <1>0, <2>1, <2>2, <2>4, MovedTyped
  <2>6. PassesBy
    BY <1>0, <2>1, <2>2, MovesOn
  <2> QED BY <2>5, <2>6
<1> QED BY <1>1, <1>2, <1>3, <1>4

\* Everything else that takes and looks at nothing.
LEMMA OthersGoOn ==
  ASSUME HomeTyped, Home!Subscribes \/ Home!QuietEnds \/ Home!FlushGoesOn \/ UNCHANGED Home!vars
  PROVE  HomeTyped' /\ PassesBy
<1>1. UNCHANGED <<log, now, wire, src, saved, th>>
  BY DEF Home!Subscribes, Home!QuietEnds, Home!FlushGoesOn, Home!FlushTakes, Home!FlushDecides, Home!FlushEmits, Home!vars
<1>2. /\ DOMAIN dwell = {"at", "quiet"} /\ DOMAIN flush = {"pc", "at"} /\ DOMAIN homePast = PastFields
      /\ src.cursor \in Int /\ src.cursor >= src.cursor
  BY DEF HomeTyped
<1>3. DOMAIN dwell' = DOMAIN dwell /\ DOMAIN flush' = {"pc", "at"}
  BY <1>2 DEF Home!Subscribes, Home!QuietEnds, Home!FlushGoesOn, Home!FlushTakes, Home!FlushDecides, Home!FlushEmits, Home!vars,
              Home!queue, Home!Resting
<1>4. DOMAIN homePast' = DOMAIN homePast /\ homePast'.life = homePast.life /\ homePast'.twice = homePast.twice
  BY <1>2 DEF Home!Subscribes, Home!QuietEnds, Home!FlushGoesOn, Home!FlushTakes, Home!FlushDecides, Home!FlushEmits, Home!vars,
              PastFields
<1>5. HomeTyped'
  BY <1>1, <1>3, <1>4 DEF HomeTyped, Home!Logged
<1>6. PassesBy
  BY <1>1, <1>2, <1>4 DEF PassesBy, Event, Sweep
<1> QED BY <1>5, <1>6


\* Home Assistant logs a record: it is later than all of its key.
LEMMA OccursOnce ==
  ASSUME HomeTyped, Once, NEW k \in Keys, Home!Occurs(k)
  PROVE  HomeTyped' /\ Once'
<1>1. PICK t \in {now, now + 1} :
        /\ t > log[k] /\ t > Home!Start
        /\ now' = t /\ log' = [log EXCEPT ![k] = t]
        /\ wire' = IF session = "down" THEN wire ELSE Append(wire, [key |-> k, at |-> t])
        /\ UNCHANGED <<session, src, saved, th, homeFaults, homePast, dwell, flush>>
  BY DEF Home!Occurs, Home!queue
<1> DEFINE r == [key |-> k, at |-> t]
<1>2. t \in Nat \ {0} /\ r \in Occurrences /\ log[k] \in Nat /\ now' \in Nat
  BY <1>1 DEF HomeTyped, Home!Start, Occurrences
<1>3. log' \in [Keys -> Nat] /\ \A j \in Keys : log[j] \in Nat /\ log'[j] \in Nat /\ log[j] <= log'[j]
  BY <1>1, <1>2 DEF HomeTyped
<1>4. IsFiniteSet(Home!Logged')
  <2>1. Home!Logged' \subseteq Home!Logged \cup {k}
    BY <1>1 DEF Home!Logged
  <2>2. IsFiniteSet(Home!Logged)
    BY DEF HomeTyped
  <2>3. IsFiniteSet(Home!Logged \cup {k})
    BY <2>2, FS_AddElement
  <2> QED BY <2>1, <2>3, FS_Subset
<1>5. wire' = wire \/ wire' = Append(wire, r)
  BY <1>1
<1>6. wire \in Seq(Occurrences) /\ wire' \in Seq(Occurrences)
  <2>1. wire \in Seq(Occurrences)
    BY DEF HomeTyped
  <2> QED BY <1>2, <1>5, <2>1
<1>7. UNCHANGED <<src, saved, th, homePast, dwell, flush>>
  BY <1>1
<1>8. HomeTyped'
  BY <1>2, <1>3, <1>4, <1>6, <1>7 DEF HomeTyped
<1>9. \A i \in 1..Len(wire') : (i \in 1..Len(wire) /\ wire'[i] = wire[i]) \/ (i = Len(wire) + 1 /\ wire'[i] = r)
  BY <1>5, <1>6
<1>10. \A i \in 1..Len(wire) : wire[i].at <= log[wire[i].key] /\ wire[i].key \in Keys /\ wire[i].at \in Nat
  <2>1. \A i \in 1..Len(wire) : Logs(wire[i]) /\ wire[i] \in Occurrences
    BY <1>6 DEF Once, FromLog
  <2> QED BY <2>1 DEF Logs, Occurrences
<1>11. Event' = Event /\ Sweep' = Sweep
  BY <1>7 DEF Event, Sweep
<1>12. Event.pc = "see" => Event.rec.at <= log[Event.rec.key] /\ Event.rec \in Occurrences
  BY DEF Once, FromLog, Logs, HomeTyped, Event, Working, Home!Paths
<1>13. t > log[k] /\ r.at = t /\ r.key = k
  BY <1>1
<1>14. OccurInOrder'
  <2>1. ASSUME NEW i \in 1..Len(wire'), NEW j \in 1..Len(wire'), i < j, wire'[i].key = wire'[j].key
        PROVE  wire'[i].at < wire'[j].at
    <3>1. CASE j = Len(wire) + 1 /\ wire'[j] = r
      <4>1. i \in 1..Len(wire) /\ wire'[i] = wire[i]
        BY <1>6, <1>9, <2>1, <3>1
      <4>2. wire[i].at <= log[k] /\ wire[i].at \in Nat
        BY <1>10, <1>13, <2>1, <3>1, <4>1
      <4> QED BY <1>2, <1>13, <3>1, <4>1, <4>2
    <3>2. CASE j \in 1..Len(wire) /\ wire'[j] = wire[j]
      <4>1. i \in 1..Len(wire) /\ wire'[i] = wire[i]
        BY <1>6, <1>9, <2>1, <3>2
      <4> QED BY <2>1, <3>2, <4>1 DEF Once, OccurInOrder
    <3> QED BY <1>9, <3>1, <3>2
  <2>2. ASSUME Event.pc = "see", NEW i \in 1..Len(wire'), wire'[i].key = Event.rec.key
        PROVE  Event.rec.at < wire'[i].at
    <3>1. CASE wire'[i] = r
      <4>1. Event.rec.at <= log[k] /\ Event.rec.at \in Nat
        BY <1>12, <1>13, <2>2, <3>1 DEF Occurrences
      <4> QED BY <1>2, <1>13, <3>1, <4>1
    <3>2. CASE i \in 1..Len(wire) /\ wire'[i] = wire[i]
      BY <2>2, <3>2 DEF Once, OccurInOrder
    <3> QED BY <1>9, <3>1, <3>2
  <2> QED BY <1>11, <2>1, <2>2 DEF OccurInOrder
<1>15. ASSUME NEW q \in Occurrences, Logs(q) PROVE q.at <= log'[q.key]
  <2>1. q.key \in Keys /\ q.at \in Nat /\ q.at <= log[q.key]
    BY <1>15 DEF Logs, Occurrences
  <2>2. log[q.key] \in Nat /\ log'[q.key] \in Nat /\ log[q.key] <= log'[q.key]
    BY <1>3, <2>1
  <2> QED BY <2>1, <2>2
<1>16. FromLog'
  <2>1. \A j \in Keys : homePast.life[j] <= log'[j]
    <3> SUFFICES ASSUME NEW j \in Keys PROVE homePast.life[j] <= log'[j]
      OBVIOUS
    <3>1. homePast.life[j] <= log[j] /\ homePast.life[j] \in Nat
      BY DEF Once, FromLog, HomeTyped
    <3> QED BY <1>3, <3>1
  <2>2. ASSUME NEW i \in 1..Len(wire') PROVE wire'[i].at <= log'[wire'[i].key]
    <3>1. CASE wire'[i] = r
      <4>1. log'[k] = t /\ t \in Nat
        BY <1>1, <1>2 DEF HomeTyped
      <4> QED BY <1>13, <3>1, <4>1
    <3>2. CASE i \in 1..Len(wire) /\ wire'[i] = wire[i]
      <4>1. Logs(wire[i]) /\ wire[i] \in Occurrences
        BY <1>6, <3>2 DEF Once, FromLog
      <4> QED BY <1>15, <3>2, <4>1
    <3> QED BY <1>9, <3>1, <3>2
  <2>3. Event.pc = "see" => Event.rec.at <= log'[Event.rec.key]
    BY <1>12, <1>15 DEF Once, FromLog
  <2>4. Sweep.pc = "see" => Sweep.rec.at <= log'[Sweep.rec.key] /\ Sweep.rec.key \in Sweep.listed
    <3>1. Sweep.pc = "see" => Sweep.rec \in Occurrences
      BY DEF HomeTyped, Sweep, Working, Home!Paths
    <3> QED BY <1>15, <3>1 DEF Once, FromLog
  <2>5. ASSUME NEW i \in 1..Len(Sweep.todo)
        PROVE  Sweep.todo[i].at <= log'[Sweep.todo[i].key] /\ Sweep.todo[i].key \in Sweep.listed
    <3>1. Sweep.todo \in Seq(Occurrences)
      BY DEF HomeTyped, Sweep, Home!Paths, Readers
    <3>2. Sweep.todo[i] \in Occurrences
      BY <3>1
    <3>3. Logs(Sweep.todo[i]) /\ Sweep.todo[i].key \in Sweep.listed
      BY DEF Once, FromLog
    <3> QED BY <1>15, <3>2, <3>3
  <2>6. homePast' = homePast
    BY <1>7
  <2> QED BY <1>11, <2>1, <2>2, <2>3, <2>4, <2>5, <2>6 DEF FromLog, Logs
<1>17. \A j \in Keys : Untouched(j) => Untouched(j)'
  <2> SUFFICES ASSUME NEW j \in Keys, Untouched(j) PROVE Untouched(j)'
    OBVIOUS
  <2>1. ASSUME NEW i \in 1..Len(wire'), wire'[i].key = j PROVE wire'[i].at > homePast.life[j]
    <3>1. CASE wire'[i] = r
      <4>1. homePast.life[j] <= log[k] /\ homePast.life[j] \in Nat /\ j = k
        BY <1>13, <2>1, <3>1 DEF Once, FromLog, HomeTyped
      <4> QED BY <1>2, <1>13, <3>1, <4>1
    <3>2. CASE i \in 1..Len(wire) /\ wire'[i] = wire[i]
      BY <2>1, <3>2 DEF Untouched
    <3> QED BY <1>9, <3>1, <3>2
  <2> QED BY <1>7, <1>11, <2>1 DEF Untouched
<1>18. NotListed' /\ Remembered' /\ Home!ConsideredOnce'
  BY <1>7, <1>11, <1>17 DEF Once, NotListed, Remembered, Behind, Home!ConsideredOnce
<1> QED BY <1>8, <1>14, <1>16, <1>18 DEF Once

LEMMA SessionEndsOnce == HomeTyped /\ Once /\ Home!SessionEnds => HomeTyped' /\ Once'
<1> SUFFICES ASSUME HomeTyped, Once, Home!SessionEnds PROVE HomeTyped' /\ Once'
  OBVIOUS
<1>1. wire' = <<>> /\ UNCHANGED <<log, now, src, saved, th, homePast, dwell, flush>>
  BY DEF Home!SessionEnds, Home!queue
<1>2. Event' = Event /\ Sweep' = Sweep
  BY <1>1 DEF Event, Sweep
<1>3. HomeTyped'
  BY <1>1 DEF HomeTyped, Home!Logged
<1>4. \A k \in Keys : Untouched(k) => Untouched(k)'
  BY <1>1, <1>2 DEF Untouched
<1>5. OccurInOrder' /\ FromLog'
  BY <1>1, <1>2 DEF Once, OccurInOrder, FromLog, Logs
<1>6. NotListed' /\ Remembered' /\ Home!ConsideredOnce'
  BY <1>1, <1>2, <1>4 DEF Once, NotListed, Remembered, Behind, Home!ConsideredOnce
<1> QED BY <1>3, <1>5, <1>6 DEF Once

LEMMA RestartsOnce == HomeTyped /\ Once /\ Home!Restarts => HomeTyped' /\ Once'
<1> SUFFICES ASSUME HomeTyped, Once, Home!Restarts PROVE HomeTyped' /\ Once'
  OBVIOUS
<1>1. /\ wire' = <<>> /\ th' = [p \in Home!Paths |-> Home!AtRest] /\ dwell' = [at |-> Home!NoEntry, quiet |-> FALSE]
      /\ flush' = Home!Resting /\ UNCHANGED <<log, now, saved>>
  BY DEF Home!Restarts
<1>2. /\ src' \in [cursor : Int, seen : [Keys -> Nat]] /\ src'.seen = [k \in Keys |-> 0]
  BY DEF Home!Restarts, HomeTyped, Home!Never
<1>3. /\ DOMAIN homePast' = PastFields /\ homePast'.life = [k \in Keys |-> 0] /\ homePast'.raced = {} /\ homePast'.twice = homePast.twice
  BY DEF Home!Restarts, HomeTyped, Home!Never, PastFields
<1>4. Home!AtRest \in Readers /\ Home!AtRest.pc = "idle" /\ Home!AtRest.todo = <<>>
  BY DEF Home!AtRest, Readers, Places, Home!Never
<1>5. Event' = Home!AtRest /\ Sweep' = Home!AtRest
  BY <1>1 DEF Event, Sweep, Home!Paths
<1>6. HomeTyped'
  BY <1>1, <1>2, <1>3, <1>4 DEF HomeTyped, Working, Home!Resting, Home!Logged
<1>7. OccurInOrder' /\ FromLog' /\ NotListed' /\ Remembered' /\ Home!ConsideredOnce'
  BY <1>1, <1>2, <1>3, <1>4, <1>5 DEF Once, HomeTyped, OccurInOrder, FromLog, NotListed, Remembered, Home!ConsideredOnce
<1> QED BY <1>6, <1>7 DEF Once


LEMMA EventArrivesOnce == HomeTyped /\ Once /\ Home!EventArrives => HomeTyped' /\ Once'
<1> SUFFICES ASSUME HomeTyped, Once, Home!EventArrives PROVE HomeTyped' /\ Once'
  OBVIOUS
<1>1. /\ Event.pc = "idle" /\ wire # <<>>
      /\ th' = [th EXCEPT !["event"].pc = "see", !["event"].rec = Head(wire)]
      /\ wire' = Tail(wire)
      /\ UNCHANGED <<log, now, session, src, saved, homeFaults, homePast, dwell, flush>>
  BY DEF Home!EventArrives, Home!Path, Event, Home!queue
<1>2. /\ wire \in Seq(Occurrences) /\ wire' \in Seq(Occurrences) /\ Head(wire) = wire[1] /\ wire[1] \in Occurrences
      /\ Len(wire') = Len(wire) - 1 /\ Len(wire) \in Nat \ {0}
      /\ \A i \in 1..Len(wire') : wire'[i] = wire[i + 1] /\ i + 1 \in 1..Len(wire)
  <2>1. wire \in Seq(Occurrences)
    BY DEF HomeTyped
  <2> QED BY <1>1, <2>1
<1> DEFINE to == [th["event"] EXCEPT !.pc = "see", !.rec = wire[1]]
<1>3. th \in [Home!Paths -> Readers] /\ th["event"] \in Readers
  BY DEF HomeTyped, Home!Paths
<1>4. th' = [th EXCEPT !["event"] = to]
  BY <1>1, <1>2, <1>3 DEF Home!Paths, Readers
<1>5. to \in Readers /\ to.pc = "see" /\ to.rec = wire[1]
  BY <1>2, <1>3 DEF Readers, Places, Working
<1>6. th' \in [Home!Paths -> Readers] /\ Event' = to /\ Sweep' = Sweep
  BY <1>3, <1>4, <1>5 DEF Event, Sweep, Home!Paths
<1>7. HomeTyped'
  <2>1. \A p \in Home!Paths : th'[p].pc \in Working => th'[p].rec \in Occurrences
    BY <1>2, <1>3, <1>4, <1>5 DEF HomeTyped, Home!Paths
  <2> QED BY <1>1, <1>2, <1>6, <2>1 DEF HomeTyped, Home!Logged
<1>8. OccurInOrder'
  <2>1. ASSUME NEW i \in 1..Len(wire'), NEW j \in 1..Len(wire'), i < j, wire'[i].key = wire'[j].key
        PROVE  wire'[i].at < wire'[j].at
    <3>1. i + 1 < j + 1
      BY <2>1
    <3> QED BY <1>2, <2>1, <3>1 DEF Once, OccurInOrder
  <2>2. ASSUME NEW i \in 1..Len(wire'), wire'[i].key = wire[1].key PROVE wire[1].at < wire'[i].at
    <3>1. 1 < i + 1 /\ 1 \in 1..Len(wire)
      BY <1>2
    <3> QED BY <1>2, <2>2, <3>1 DEF Once, OccurInOrder
  <2> QED BY <1>5, <1>6, <2>1, <2>2 DEF OccurInOrder
<1>9. \A k \in Keys : Untouched(k) => Untouched(k)'
  <2> SUFFICES ASSUME NEW k \in Keys, Untouched(k) PROVE Untouched(k)'
    OBVIOUS
  <2>1. \A i \in 1..Len(wire') : wire'[i].key = k => wire'[i].at > homePast.life[k]
    BY <1>2 DEF Untouched
  <2>2. wire[1].key = k => wire[1].at > homePast.life[k]
    BY <1>2 DEF Untouched
  <2> QED BY <1>1, <1>5, <1>6, <2>1, <2>2 DEF Untouched
<1>10. FromLog'
  <2>1. \A i \in 1..Len(wire') : Logs(wire[i + 1])
    BY <1>2 DEF Once, FromLog
  <2>2. Logs(wire[1])
    BY <1>2 DEF Once, FromLog
  <2> QED BY <1>1, <1>2, <1>5, <1>6, <2>1, <2>2 DEF Once, FromLog, Logs
<1>11. NotListed' /\ Remembered' /\ Home!ConsideredOnce'
  BY <1>1, <1>6, <1>9 DEF Once, NotListed, Remembered, Behind, Home!ConsideredOnce
<1> QED BY <1>7, <1>8, <1>10, <1>11 DEF Once

\* What is looked at and not found seen has not been considered.
LEMMA SeenOnce ==
  ASSUME HomeTyped, Once, NEW p \in Home!Paths, Home!Path(p, "see"), ~Home!SeenBefore(th[p].rec)
  PROVE  homePast.life[th[p].rec.key] < th[p].rec.at
<1> DEFINE r == th[p].rec
<1>1. r.key \in Keys /\ r.at \in Nat \ {0} /\ src.seen[r.key] \in Nat /\ homePast.life[r.key] \in Nat /\ src.seen[r.key] < r.at
  BY DEF HomeTyped, Home!Path, Home!SeenBefore, Working, Occurrences
<1>2. CASE src.seen[r.key] = homePast.life[r.key]
  BY <1>1, <1>2
<1>3. CASE src.seen[r.key] # homePast.life[r.key]
  <2>1. Behind(r.key)
    BY <1>1, <1>3 DEF Once, Remembered
  <2>2. CASE p = "event"
    BY <2>1, <2>2 DEF Behind, Untouched, Event, Home!Path
  <2>3. CASE p = "sweep"
    BY <2>1, <2>3 DEF Behind, Sweep, Home!Path
  <2>4. p \in {"event", "sweep"} /\ r.at > homePast.life[r.key]
    BY <2>2, <2>3 DEF Home!Paths
  <2> QED BY <1>1, <2>4
<1> QED BY <1>2, <1>3

\* A record found seen is left.
LEMMA LeavesSeen ==
  ASSUME HomeTyped, NEW p \in Home!Paths, Home!Path(p, "see"), Home!Done(p),
         UNCHANGED <<log, now, wire, src, saved, dwell, flush, homePast>>
  PROVE  HomeTyped' /\ PassesBy
<1>1. Moved(p) /\ th'[p].pc = (IF p = "sweep" THEN "next" ELSE "idle") /\ th'[p].rec = Home!NoRecord
  BY DoneIs
<1>2. src.cursor \in Int /\ src.cursor >= src.cursor /\ DOMAIN homePast = PastFields
  BY DEF HomeTyped
<1>3. HomeTyped'
  BY <1>1, MovedTyped DEF HomeTyped, Working
<1>4. PassesBy
  <2>1. CASE p = "event"
    <3>1. Sweep' = Sweep /\ Event'.pc # "see"
      BY <1>1, <2>1 DEF Moved, Sweep, Event, Home!Paths
    <3> QED BY <1>2, <3>1 DEF PassesBy
  <2>2. CASE p = "sweep"
    <3>1. /\ Event' = Event /\ Sweep'.pc # "see" /\ Sweep.pc = "see"
          /\ Sweep'.listed = Sweep.listed /\ Sweep'.todo = Sweep.todo /\ Sweep'.cursor = Sweep.cursor
      BY <1>1, <2>2 DEF Moved, Sweep, Event, Home!Path, Home!Paths
    <3> QED BY <1>2, <3>1 DEF PassesBy
  <2> QED BY <2>1, <2>2 DEF Home!Paths
<1> QED BY <1>3, <1>4

LEMMA SeesOnce ==
  ASSUME HomeTyped, Once, NEW p \in Home!Paths, Home!Sees(p)
  PROVE  HomeTyped' /\ Once'
<1> DEFINE r == th[p].rec
<1>1. Home!Path(p, "see") /\ UNCHANGED <<log, now, session, wire, saved, homeFaults, dwell, flush>>
  BY DEF Home!Sees, Home!queue
<1>2. CASE Home!SeenBefore(r)
  <2>1. Home!Done(p) /\ UNCHANGED <<src, homePast>>
    BY <1>2 DEF Home!Sees
  <2> QED BY <1>1, <2>1, LeavesSeen, GoesOnOnce
<1>3. CASE ~Home!SeenBefore(r)
  <2>1. /\ src' = [src EXCEPT !.seen[r.key] = r.at]
        /\ homePast' = [homePast EXCEPT !.twice = @ \/ homePast.life[r.key] >= r.at, !.life[r.key] = Home!Later(@, r.at)]
        /\ \E pc \in {"hold", "post"} : Home!Goes(p, pc)
    BY <1>3 DEF Home!Sees
  <2>2. r \in Occurrences /\ r.key \in Keys /\ r.at \in Nat \ {0} /\ homePast.life[r.key] \in Nat /\ th[p].pc = "see"
    BY <1>1 DEF HomeTyped, Home!Path, Working, Occurrences
  <2>3. homePast.life[r.key] < r.at
    BY <1>1, <1>3, SeenOnce
  <2>4. Moved(p) /\ th'[p].pc \in {"hold", "post"} /\ th'[p].rec = r
    BY <2>1, PathGoesIs DEF Places, Working
  <2>5. src \in [cursor : Int, seen : [Keys -> Nat]] /\ DOMAIN homePast = PastFields /\ homePast.life \in [Keys -> Nat]
    BY DEF HomeTyped
  <2>6. src' \in [cursor : Int, seen : [Keys -> Nat]] /\ src'.cursor = src.cursor /\ src'.seen = [src.seen EXCEPT ![r.key] = r.at]
    BY <2>1, <2>2, <2>5
  <2>7. /\ DOMAIN homePast' = PastFields /\ homePast'.life = [homePast.life EXCEPT ![r.key] = Home!Later(homePast.life[r.key], r.at)]
        /\ homePast'.twice <=> homePast.twice \/ homePast.life[r.key] >= r.at
    BY <2>1, <2>5 DEF PastFields
  <2>8. Home!Later(homePast.life[r.key], r.at) = r.at
    BY <2>2, <2>3 DEF Home!Later
  <2>9. homePast'.life = [homePast.life EXCEPT ![r.key] = r.at] /\ homePast'.life \in [Keys -> Nat]
    BY <2>2, <2>5, <2>7, <2>8
  <2>10. Home!ConsideredOnce'
    BY <2>2, <2>3, <2>7 DEF Once, Home!ConsideredOnce
  <2>11. HomeTyped'
    <3>1. th'[p].pc \in Working => th'[p].rec = th[p].rec /\ th[p].pc \in Working
      BY <2>2, <2>4 DEF Working
    <3>2. saved' \in Int /\ DOMAIN dwell' = DOMAIN dwell
      BY <1>1 DEF HomeTyped
    <3> QED BY <1>1, <2>4, <2>5, <2>6, <2>7, <2>9, <3>1, <3>2, MovedTyped
  <2>12. \A k \in Keys : /\ homePast'.life[k] = IF k = r.key THEN r.at ELSE homePast.life[k]
                         /\ src'.seen[k] = IF k = r.key THEN r.at ELSE src.seen[k]
    BY <2>2, <2>5, <2>6, <2>9
  <2>13. Logs(r)
    BY <1>1 DEF Once, FromLog, Home!Path, Home!Paths, Event, Sweep
  <2>14. CASE p = "event"
    <3>1. Sweep' = Sweep /\ Event'.pc # "see" /\ Event.pc = "see" /\ Event.rec = r
      BY <2>2, <2>4, <2>14 DEF Moved, Sweep, Event, Home!Paths
    <3>2. OccurInOrder'
      BY <1>1, <3>1 DEF Once, OccurInOrder
    <3>3. FromLog'
      BY <1>1, <2>12, <2>13, <3>1 DEF Once, FromLog, Logs
    <3>4. \A k \in Keys : Untouched(k) => Untouched(k)'
      BY <1>1, <2>12, <3>1 DEF Once, OccurInOrder, Untouched
    <3>5. NotListed'
      BY <3>1, <3>4 DEF Once, NotListed
    <3>6. Remembered'
      BY <2>6, <2>12, <3>1, <3>4 DEF Once, Remembered, Behind
    <3> QED BY <2>10, <2>11, <3>2, <3>3, <3>5, <3>6 DEF Once
  <2>15. CASE p = "sweep"
    <3>1. /\ Event' = Event /\ Sweep'.pc \in {"hold", "post"} /\ Sweep.pc = "see" /\ Sweep.rec = r
          /\ Sweep'.listed = Sweep.listed /\ Sweep'.todo = Sweep.todo /\ Sweep'.cursor = Sweep.cursor
      BY <2>2, <2>4, <2>15 DEF Moved, Sweep, Event, Home!Paths
    <3>2. OccurInOrder'
      BY <1>1, <3>1 DEF Once, OccurInOrder
    <3>3. FromLog'
      BY <1>1, <2>12, <2>13, <3>1 DEF Once, FromLog, Logs
    <3>4. \A k \in Keys \ {r.key} : Untouched(k) => Untouched(k)'
      BY <1>1, <2>12, <3>1 DEF Untouched
    <3>5. r.key \in Sweep.listed
      BY <3>1 DEF Once, FromLog
    <3>6. NotListed'
      BY <3>1, <3>4, <3>5 DEF Once, NotListed
    <3>7. Remembered'
      BY <2>6, <2>12, <3>1, <3>4 DEF Once, Remembered, Behind
    <3> QED BY <2>10, <2>11, <3>2, <3>3, <3>6, <3>7 DEF Once
  <2> QED BY <2>14, <2>15 DEF Home!Paths
<1> QED BY <1>2, <1>3


\* The source's module counts a listing as this one does.
LEMMA SameCount == ASSUME NEW S PROVE Home!Cardinality(S) = Cardinality(S)
  BY Zenon DEF Home!Cardinality, Cardinality

LEMMA ListingIs ==
  ASSUME NEW s \in Home!Listing
  PROVE  s \in [1..Cardinality(Home!Logged) -> {[key |-> k, at |-> log[k]] : k \in Home!Logged}]
<1> DEFINE F == [1..Cardinality(Home!Logged) -> {[key |-> k, at |-> log[k]] : k \in Home!Logged}]
<1>1. Home!Listing = {f \in F : Home!IsInjective(f)}
  BY SameCount DEF Home!Listing
<1> HIDE DEF F
<1>2. s \in F
  BY <1>1
<1> QED BY <1>2 DEF F

LEMMA SweepReadsOnce == HomeTyped /\ Once /\ Home!SweepReads => HomeTyped' /\ Once'
<1> SUFFICES ASSUME HomeTyped, Once, Home!SweepReads PROVE HomeTyped' /\ Once'
  OBVIOUS
<1>1. PICK s \in Home!Listing :
        th' = [th EXCEPT !["sweep"] = [Home!AtRest EXCEPT !.pc = "cursor", !.listed = Home!Logged, !.todo = s]]
  BY DEF Home!SweepReads
<1>2. Sweep.pc = "idle" /\ UNCHANGED <<log, now, wire, src, saved, homeFaults, homePast, dwell, flush>>
  BY DEF Home!SweepReads, Home!Path, Home!queue, Sweep
<1>3. log \in [Keys -> Nat] /\ Cardinality(Home!Logged) \in Nat
  BY FS_CardinalityType DEF HomeTyped
<1> DEFINE rows == {[key |-> k, at |-> log[k]] : k \in Home!Logged}
           to == [Home!AtRest EXCEPT !.pc = "cursor", !.listed = Home!Logged, !.todo = s]
<1>4. rows \subseteq Occurrences /\ \A r \in rows : Logs(r) /\ r.key \in Home!Logged
  BY <1>3 DEF Home!Logged, Home!Never, Occurrences, Logs
<1>5. s \in [1..Cardinality(Home!Logged) -> rows]
  BY ListingIs
<1>6. s \in Seq(Occurrences) /\ \A i \in 1..Len(s) : s[i] \in rows
  <2>1. s \in Seq(rows) /\ Len(s) = Cardinality(Home!Logged)
    BY <1>3, <1>5
  <2> QED BY <1>4, <2>1
<1>7. to \in Readers /\ to.pc = "cursor" /\ to.listed = Home!Logged /\ to.todo = s
  <2>1. Home!Logged \in SUBSET Keys
    BY DEF Home!Logged
  <2>2. Home!AtRest \in Readers
    BY DEF Home!AtRest, Readers, Places, Home!Never
  <2> QED BY <1>6, <2>1, <2>2 DEF Readers, Places
<1>8. th' \in [Home!Paths -> Readers] /\ Sweep' = to /\ Event' = Event
  BY <1>1, <1>7 DEF HomeTyped, Home!Paths, Sweep, Event
<1>9. HomeTyped'
  <2>1. \A p \in Home!Paths : th'[p].pc \in Working => th'[p].rec \in Occurrences
    BY <1>1, <1>7 DEF HomeTyped, Home!Paths, Working
  <2> QED BY <1>2, <1>8, <2>1 DEF HomeTyped, Home!Logged
<1>10. OccurInOrder'
  BY <1>2, <1>8 DEF Once, OccurInOrder
<1>11. FromLog'
  BY <1>2, <1>4, <1>6, <1>7, <1>8 DEF Once, FromLog, Logs
<1>12. \A k \in Keys : Untouched(k) => Untouched(k)'
  BY <1>2, <1>8 DEF Untouched
<1>13. ASSUME NEW k \in Keys, k \notin Home!Logged PROVE Untouched(k)
  <2>1. log[k] = 0 /\ homePast.life[k] = 0
    BY <1>13, <1>3 DEF Home!Logged, Home!Never, Once, FromLog, HomeTyped
  <2>2. \A i \in 1..Len(wire) : wire[i].at > 0
    <3>1. wire \in Seq(Occurrences)
      BY DEF HomeTyped
    <3>2. \A i \in 1..Len(wire) : wire[i] \in Occurrences
      BY <3>1
    <3> QED BY <3>2 DEF Occurrences
  <2>3. Event.pc = "see" => Event.rec.at > 0
    BY DEF HomeTyped, Event, Working, Home!Paths, Occurrences
  <2> QED BY <2>1, <2>2, <2>3 DEF Untouched
<1>14. NotListed'
  BY <1>7, <1>8, <1>12, <1>13 DEF NotListed
<1>15. Remembered' /\ Home!ConsideredOnce'
  BY <1>2, <1>7, <1>8, <1>12 DEF Once, Remembered, Behind, Home!ConsideredOnce
<1> QED BY <1>9, <1>10, <1>11, <1>14, <1>15 DEF Once

LEMMA SweepStartsOnce == HomeTyped /\ Once /\ Home!SweepStarts => HomeTyped' /\ Once'
<1> SUFFICES ASSUME HomeTyped, Once, Home!SweepStarts PROVE HomeTyped' /\ Once'
  OBVIOUS
<1> DEFINE to == [Sweep EXCEPT !.pc = "next", !.cursor = src.cursor]
<1>1. Sweep.pc = "cursor" /\ UNCHANGED <<log, now, wire, src, saved, homeFaults, homePast, dwell, flush>>
  BY DEF Home!SweepStarts, Home!Path, Home!queue, Sweep
<1>2. th \in [Home!Paths -> Readers] /\ Sweep \in Readers /\ src.cursor \in Int
  BY DEF HomeTyped, Home!Paths, Sweep
<1>3. th' = [th EXCEPT !["sweep"] = to]
  BY <1>2 DEF Home!SweepStarts, Sweep, Home!Paths, Readers
<1>4. to \in Readers /\ to.pc = "next" /\ to.cursor = src.cursor /\ to.listed = Sweep.listed /\ to.todo = Sweep.todo
  BY <1>2 DEF Readers, Places
<1>5. th' \in [Home!Paths -> Readers] /\ Sweep' = to /\ Event' = Event
  BY <1>2, <1>3, <1>4 DEF Home!Paths, Sweep, Event
<1>6. HomeTyped'
  <2>1. \A p \in Home!Paths : th'[p].pc \in Working => th'[p].rec \in Occurrences
    BY <1>2, <1>3, <1>4 DEF HomeTyped, Home!Paths, Working
  <2> QED BY <1>1, <1>5, <2>1 DEF HomeTyped, Home!Logged
<1>7. OccurInOrder' /\ FromLog'
  BY <1>1, <1>4, <1>5 DEF Once, OccurInOrder, FromLog, Logs
<1>8. \A k \in Keys : Untouched(k) => Untouched(k)'
  BY <1>1, <1>5 DEF Untouched
<1>9. NotListed' /\ Remembered' /\ Home!ConsideredOnce'
  BY <1>1, <1>4, <1>5, <1>8 DEF Once, NotListed, Remembered, Behind, Home!ConsideredOnce
<1> QED BY <1>6, <1>7, <1>9 DEF Once

LEMMA SweepTakesOnce == HomeTyped /\ Once /\ Home!SweepTakes => HomeTyped' /\ Once'
<1> SUFFICES ASSUME HomeTyped, Once, Home!SweepTakes PROVE HomeTyped' /\ Once'
  OBVIOUS
<1> DEFINE r == Head(Sweep.todo)
           pc == IF Home!Old(r) THEN "next" ELSE "see"
           to == [Sweep EXCEPT !.todo = Tail(Sweep.todo), !.rec = r, !.pc = pc]
<1>1. /\ Sweep.pc = "next" /\ Sweep.todo # <<>>
      /\ UNCHANGED <<log, now, wire, src, saved, homeFaults, homePast, dwell, flush>>
  BY DEF Home!SweepTakes, Home!Path, Home!queue, Sweep
<1>2. th \in [Home!Paths -> Readers] /\ Sweep \in Readers /\ Sweep.todo \in Seq(Occurrences) /\ Sweep.cursor \in Int
  BY DEF HomeTyped, Home!Paths, Sweep, Readers
<1>3. th' = [th EXCEPT !["sweep"] = to]
  BY <1>2 DEF Home!SweepTakes, Sweep, Home!Paths, Readers
<1>4. /\ r \in Occurrences /\ r = Sweep.todo[1] /\ 1 \in 1..Len(Sweep.todo) /\ Tail(Sweep.todo) \in Seq(Occurrences)
      /\ \A i \in 1..Len(Tail(Sweep.todo)) : i + 1 \in 1..Len(Sweep.todo) /\ Tail(Sweep.todo)[i] = Sweep.todo[i + 1]
  BY <1>1, <1>2
<1>5. /\ to \in Readers /\ to.pc = pc /\ to.rec = r /\ to.cursor = Sweep.cursor /\ to.listed = Sweep.listed
      /\ to.todo = Tail(Sweep.todo) /\ pc \in {"next", "see"}
  BY <1>2, <1>4 DEF Readers, Places, Working
<1>6. th' \in [Home!Paths -> Readers] /\ Sweep' = to /\ Event' = Event
  BY <1>2, <1>3, <1>5 DEF Home!Paths, Sweep, Event
<1>7. HomeTyped'
  <2>1. \A p \in Home!Paths : th'[p].pc \in Working => th'[p].rec \in Occurrences
    BY <1>2, <1>3, <1>4, <1>5 DEF HomeTyped, Home!Paths
  <2> QED BY <1>1, <1>6, <2>1 DEF HomeTyped, Home!Logged
<1>8. OccurInOrder'
  BY <1>1, <1>6 DEF Once, OccurInOrder
<1>9. FromLog'
  <2>1. Logs(r) /\ r.key \in Sweep.listed
    BY <1>4 DEF Once, FromLog
  <2>2. \A i \in 1..Len(to.todo) : Logs(to.todo[i]) /\ to.todo[i].key \in Sweep.listed
    BY <1>4, <1>5 DEF Once, FromLog
  <2> QED BY <1>1, <1>5, <1>6, <2>1, <2>2 DEF Once, FromLog, Logs
<1>10. \A k \in Keys : Untouched(k) => Untouched(k)'
  BY <1>1, <1>6 DEF Untouched
<1>11. NotListed'
  BY <1>1, <1>5, <1>6, <1>10 DEF Once, NotListed
<1>12. Remembered'
  <2> SUFFICES ASSUME NEW k \in Keys, src.seen[k] # homePast.life[k] PROVE Behind(k)'
    BY <1>1 DEF Remembered
  <2>1. Behind(k) /\ homePast.life[k] < Sweep.cursor
    BY <1>1 DEF Once, Remembered, Behind
  <2>2. pc = "see" => r.at > homePast.life[k]
    <3>1. pc = "see" => r.at >= Sweep.cursor
      BY <1>2, <1>4 DEF Home!Old, Sweep, Occurrences
    <3>2. homePast.life[k] \in Nat /\ r.at \in Nat
      BY <1>4 DEF HomeTyped, Occurrences
    <3> QED BY <1>2, <2>1, <3>1, <3>2
  <2> QED BY <1>1, <1>5, <1>6, <1>10, <2>1, <2>2 DEF Behind
<1>13. Home!ConsideredOnce'
  BY <1>1 DEF Once, Home!ConsideredOnce
<1> QED BY <1>7, <1>8, <1>9, <1>11, <1>12, <1>13 DEF Once

\* What is forgotten was not listed, and is behind the cursor.
LEMMA SweepEndsOnce == HomeTyped /\ Once /\ Home!SweepEnds => HomeTyped' /\ Once'
<1> SUFFICES ASSUME HomeTyped, Once, Home!SweepEnds PROVE HomeTyped' /\ Once'
  OBVIOUS
<1>1. /\ Sweep.pc = "next" /\ th' = [th EXCEPT !["sweep"] = Home!AtRest]
      /\ UNCHANGED <<log, now, wire, saved, homeFaults, homePast, dwell, flush>>
  BY DEF Home!SweepEnds, Home!Path, Home!queue, Sweep
<1>2. /\ src \in [cursor : Int, seen : [Keys -> Nat]] /\ src'.cursor = src.cursor
      /\ src'.seen = [k \in Keys |-> IF Home!Forgets(k) THEN Home!Never ELSE src.seen[k]]
  BY DEF Home!SweepEnds, HomeTyped
<1>3. src' \in [cursor : Int, seen : [Keys -> Nat]]
  <2>1. [k \in Keys |-> IF Home!Forgets(k) THEN Home!Never ELSE src.seen[k]] \in [Keys -> Nat]
    BY <1>2 DEF Home!Never
  <2> QED BY <1>2, <2>1 DEF Home!SweepEnds
<1>4. Home!AtRest \in Readers /\ Home!AtRest.pc = "idle" /\ Home!AtRest.todo = <<>>
  BY DEF Home!AtRest, Readers, Places, Home!Never
<1>5. th' \in [Home!Paths -> Readers] /\ Sweep' = Home!AtRest /\ Event' = Event
  BY <1>1, <1>4 DEF HomeTyped, Home!Paths, Sweep, Event
<1>6. HomeTyped'
  <2>1. \A p \in Home!Paths : th'[p].pc \in Working => th'[p].rec \in Occurrences
    BY <1>1, <1>4 DEF HomeTyped, Home!Paths, Working
  <2> QED BY <1>1, <1>3, <1>5, <2>1 DEF HomeTyped, Home!Logged
<1>7. OccurInOrder' /\ FromLog' /\ NotListed'
  BY <1>1, <1>4, <1>5 DEF Once, OccurInOrder, FromLog, Logs, NotListed
<1>8. \A k \in Keys : Untouched(k) => Untouched(k)'
  BY <1>1, <1>5 DEF Untouched
<1>9. Remembered'
  <2> SUFFICES ASSUME NEW k \in Keys, src'.seen[k] # homePast.life[k] PROVE Behind(k)'
    BY <1>1 DEF Remembered
  <2>1. CASE src.seen[k] # homePast.life[k]
    <3>1. Behind(k) /\ src'.seen[k] = Home!Never
      BY <1>2, <2>1 DEF Once, Remembered, Behind
    <3> QED BY <1>1, <1>2, <1>4, <1>5, <1>8, <3>1 DEF Behind
  <2>2. CASE src.seen[k] = homePast.life[k]
    <3>1. Home!Forgets(k) /\ src'.seen[k] = Home!Never
      BY <1>2, <2>2
    <3>2. k \notin Sweep.listed /\ homePast.life[k] < src.cursor
      BY <2>2, <3>1 DEF Home!Forgets, Home!Unlisted, Sweep
    <3>3. Untouched(k)
      BY <1>1, <3>2 DEF Once, NotListed
    <3> QED BY <1>1, <1>2, <1>4, <1>5, <1>8, <3>1, <3>2, <3>3 DEF Behind
  <2> QED BY <2>1, <2>2
<1>10. Home!ConsideredOnce'
  BY <1>1 DEF Once, Home!ConsideredOnce
<1> QED BY <1>6, <1>7, <1>9, <1>10 DEF Once


LEMMA StepOccurOnce == HomeTyped /\ Once /\ [Home!Next]_(Home!vars) => HomeTyped' /\ Once'
<1> SUFFICES ASSUME HomeTyped, Once, [Home!Next]_(Home!vars) PROVE HomeTyped' /\ Once'
  OBVIOUS
<1>1. ASSUME NEW k \in Keys, Home!Occurs(k) PROVE HomeTyped' /\ Once'
  BY <1>1, OccursOnce
<1>2. CASE Home!Subscribes \/ Home!QuietEnds \/ Home!FlushGoesOn \/ UNCHANGED Home!vars
  BY <1>2, OthersGoOn, GoesOnOnce
<1>3. CASE Home!SessionEnds \/ Home!Restarts \/ Home!SweepReads \/ Home!EventArrives
  BY <1>3, SessionEndsOnce, RestartsOnce, SweepReadsOnce, EventArrivesOnce
<1>4. CASE Home!SweepStarts \/ Home!SweepTakes \/ Home!SweepEnds
  BY <1>4, SweepStartsOnce, SweepTakesOnce, SweepEndsOnce
<1>5. ASSUME NEW p \in Home!Paths, Home!Considers(p) PROVE HomeTyped' /\ Once'
  BY <1>5, SeesOnce, ConsidersGoesOn, GoesOnOnce DEF Home!Considers
<1> QED BY <1>1, <1>2, <1>3, <1>4, <1>5 DEF Home!Next, Home!SweepGoesOn, Home!EventGoesOn, Home!Paths

-----------------------------------------------------------------------------
(* The dwell queue. *)

LEMMA HoldsQuiet ==
  ASSUME HomeTyped, KeepsQuiet, NEW p \in Home!Paths, Home!Holds(p)
  PROVE  KeepsQuiet'
<1>1. DOMAIN dwell = {"at", "quiet"} /\ DOMAIN homePast = PastFields /\ flush' = flush
  BY DEF HomeTyped, Home!Holds
<1>2. CASE dwell.quiet
  <2>1. dwell' = dwell /\ homePast'.raced = homePast.raced /\ homePast'.again = homePast.again
    BY <1>1, <1>2 DEF Home!Holds, Home!Silenced, PastFields
  <2> QED BY <1>1, <2>1 DEF KeepsQuiet, Home!QuietIsKept
<1>3. CASE ~dwell.quiet
  <2>1. /\ homePast'.raced = (IF flush.pc = "decide" THEN homePast.raced \cup {"queued"} ELSE homePast.raced)
        /\ homePast'.again = homePast.again /\ (dwell'.quiet <=> dwell.quiet)
    BY <1>1, <1>3 DEF Home!Holds, Home!Silenced, PastFields
  <2> QED BY <1>1, <1>3, <2>1 DEF KeepsQuiet, Home!QuietIsKept
<1> QED BY <1>2, <1>3

\* A step that leaves the queue and the flusher alone.
LEMMA LeavesQuiet ==
  ASSUME KeepsQuiet, dwell' = dwell, flush' = flush, homePast'.raced = homePast.raced, homePast'.again = homePast.again
  PROVE  KeepsQuiet'
BY DEF KeepsQuiet, Home!QuietIsKept

LEMMA StepQuiet == HomeTyped /\ KeepsQuiet /\ [Home!Next]_(Home!vars) => KeepsQuiet'
<1> SUFFICES ASSUME HomeTyped, KeepsQuiet, [Home!Next]_(Home!vars) PROVE KeepsQuiet'
  OBVIOUS
<1>1. DOMAIN dwell = {"at", "quiet"} /\ DOMAIN flush = {"pc", "at"} /\ DOMAIN homePast = PastFields
  BY DEF HomeTyped
<1>2. ASSUME NEW k \in Keys, Home!Occurs(k) PROVE KeepsQuiet'
  BY <1>2, LeavesQuiet DEF Home!Occurs, Home!queue
<1>3. CASE Home!Subscribes \/ Home!SessionEnds \/ Home!SweepReads \/ Home!EventArrives \/ UNCHANGED Home!vars
  BY <1>3, LeavesQuiet DEF Home!Subscribes, Home!SessionEnds, Home!SweepReads, Home!EventArrives, Home!vars, Home!queue
<1>4. CASE Home!SweepStarts \/ Home!SweepTakes \/ Home!SweepEnds
  BY <1>4, LeavesQuiet DEF Home!SweepStarts, Home!SweepTakes, Home!SweepEnds, Home!queue
<1>5. CASE Home!Restarts
  <2>1. dwell' = [at |-> Home!NoEntry, quiet |-> FALSE] /\ flush' = [pc |-> "idle", at |-> Home!NoEntry]
    BY <1>5 DEF Home!Restarts, Home!Resting
  <2>2. homePast'.again = homePast.again
    BY <1>1, <1>5 DEF Home!Restarts, PastFields
  <2> QED BY <2>1, <2>2 DEF KeepsQuiet, Home!QuietIsKept
<1>6. CASE Home!QuietEnds
  <2>1. dwell'.at = dwell.at /\ ~dwell'.quiet /\ flush' = flush /\ homePast'.raced = homePast.raced /\ homePast'.again = homePast.again
    BY <1>1, <1>6 DEF Home!QuietEnds, PastFields
  <2> QED BY <2>1 DEF KeepsQuiet, Home!QuietIsKept
<1>7. CASE Home!FlushTakes
  <2>1. /\ dwell'.at = Home!NoEntry /\ (dwell'.quiet <=> dwell.quiet) /\ dwell.at # Home!NoEntry
        /\ homePast'.raced = (IF "queued" \in homePast.raced THEN {"taken"} ELSE {}) /\ homePast'.again = homePast.again
    BY <1>1, <1>7 DEF Home!FlushTakes, PastFields
  <2> QED BY <2>1 DEF KeepsQuiet, Home!QuietIsKept
<1>8. CASE Home!FlushDecides
  <2>1. flush.pc = "decide" /\ flush'.pc # "decide" /\ dwell'.at = dwell.at /\ homePast'.raced = homePast.raced \ {"taken"}
    <3>1. flush.pc = "decide" /\ (flush' = Home!Resting \/ flush' = [flush EXCEPT !.pc = "emit"])
      BY <1>8 DEF Home!FlushDecides
    <3>2. flush'.pc # "decide"
      BY <1>1, <3>1 DEF Home!Resting
    <3>3. dwell'.at = dwell.at
      BY <1>1, <1>8 DEF Home!FlushDecides
    <3>4. homePast'.raced = homePast.raced \ {"taken"}
      BY <1>1, <1>8 DEF Home!FlushDecides, PastFields
    <3> QED BY <3>1, <3>2, <3>3, <3>4
  <2>2. homePast'.again = homePast.again \/ (homePast'.again <=> homePast.again \/ (dwell.quiet /\ "taken" \notin homePast.raced))
    BY <1>1, <1>8 DEF Home!FlushDecides, PastFields
  <2> QED BY <2>1, <2>2 DEF KeepsQuiet, Home!QuietIsKept
<1>9. CASE Home!FlushEmits
  <2>1. flush.pc # "decide" /\ flush'.pc # "decide" /\ dwell' = dwell /\ homePast'.raced = homePast.raced /\ homePast'.again = homePast.again
    BY <1>1, <1>9 DEF Home!FlushEmits, PastFields, Home!Resting
  <2> QED BY <2>1 DEF KeepsQuiet, Home!QuietIsKept
<1>10. ASSUME NEW p \in Home!Paths, Home!Considers(p) PROVE KeepsQuiet'
  <2>1. CASE Home!Holds(p)
    BY <2>1, HoldsQuiet
  <2>2. CASE Home!Sees(p)
    <3>1. homePast'.raced = homePast.raced /\ homePast'.again = homePast.again
      BY <1>1, <2>2 DEF Home!Sees, PastFields
    <3> QED BY <2>2, <3>1, LeavesQuiet DEF Home!Sees, Home!queue
  <2>3. CASE Home!Posts(p)
    <3>1. homePast'.raced = homePast.raced /\ homePast'.again = homePast.again
      BY <1>1, <2>3 DEF Home!Posts, PastFields
    <3> QED BY <2>3, <3>1, LeavesQuiet DEF Home!Posts, Home!queue
  <2>4. CASE Home!Advances(p)
    <3>1. homePast'.raced = homePast.raced /\ homePast'.again = homePast.again
      BY <1>1, <2>4 DEF Home!Advances, PastFields
    <3> QED BY <2>4, <3>1, LeavesQuiet DEF Home!Advances, Home!queue
  <2>5. CASE Home!Persists(p)
    BY <2>5, LeavesQuiet DEF Home!Persists, Home!queue
  <2> QED BY <1>10, <2>1, <2>2, <2>3, <2>4, <2>5 DEF Home!Considers
<1> QED BY <1>2, <1>3, <1>4, <1>5, <1>6, <1>7, <1>8, <1>9, <1>10
        DEF Home!Next, Home!SweepGoesOn, Home!EventGoesOn, Home!FlushGoesOn, Home!Paths

\* One Home Assistant occurrence is considered once in a process' life, whichever of the
\* reader and the sweep brings it first, and an integration is not reported again while it
\* is to be quiet (but for a wait that began under a verdict): whatever the log, the
\* sessions lost, the restarts and the listings.
THEOREM ReportedOnceAlways == Home!Spec => []Home!ReportedOnce
<1>1. Home!Init => HomeTyped /\ Once /\ KeepsQuiet
  BY HomeInitTyped, HomeInitOnce
<1>2. HomeTyped /\ Once /\ KeepsQuiet /\ [Home!Next]_(Home!vars) => (HomeTyped /\ Once /\ KeepsQuiet)'
  BY StepOccurOnce, StepQuiet
<1>3. HomeTyped /\ Once /\ KeepsQuiet => Home!ReportedOnce
  BY DEF Once, KeepsQuiet, Home!ReportedOnce
<1> QED BY <1>1, <1>2, <1>3, PTL DEF Home!Spec

-----------------------------------------------------------------------------
(***************************************************************************)
(* The record that stands for one message at the apiserver, likewise.       *)
(*                                                                         *)
(* Everybody works on what it read of the object.  What it read has the     *)
(* name's present uid and revision only if it still is so, but for the time *)
(* that has passed; and a live record has no expiry, so what expired when it*)
(* was read is no live record now.                                          *)
(***************************************************************************)

CONSTANTS Handlers, MaxSends, MaxIdentities, Attempts
VARIABLES obj, uids, source, last, handler, sends, queued, release, dueByName, sweep, armed, feed,
  recPass, recCache, recFaults, recPast
Store == INSTANCE SignalStore WITH pass <- recPass, cache <- recCache, faults <- recFaults, past <- recPast

Objects == [uid : Nat, rev : Nat, owner : Nat, done : BOOLEAN, expires : {"never", "ahead", "passed"}]
Requests == [pc : {"idle", "create", "get", "delete", "recreate"}, src : Nat, found : Objects]
Releasings == [pc : {"idle", "list", "delete"}, departed : Nat, listed : Objects]
RecPassing(p) ==
  /\ DOMAIN p = {"pc", "read", "done", "left"}
  /\ p.pc \in {"idle", "write", "settle"} /\ p.read \in Objects /\ p.done \in BOOLEAN

StoreTyped ==
  /\ obj \in Objects /\ uids \in Nat /\ obj.uid <= uids /\ source \in Nat /\ last \in Nat
  /\ handler \in [Handlers -> Requests]
  /\ RecPassing(recPass)
  /\ release \in [Store!Releasers -> Releasings]
  /\ sweep \in [pc : {"idle", "list", "delete"}, listed : Objects]
  /\ DOMAIN recPast = {"misled", "skipped", "swapped"}

\* What was read of an object, when the object by that name is b and so many have been
\* created: the revision tells what has been written since; that time has passed it does
\* not tell.
Reads(o, b, made) ==
  /\ o.uid <= made
  /\ o.uid # 0 /\ o.uid = b.uid =>
       /\ o.owner = b.owner /\ o.rev <= b.rev
       /\ o.rev = b.rev => o.done = b.done /\ (o.expires = b.expires \/ (o.expires = "ahead" /\ b.expires = "passed"))

Readings ==
  /\ \A h \in Handlers : Reads(handler[h].found, obj, uids)
  /\ \A r \in Store!Releasers : Reads(release[r].listed, obj, uids)
  /\ Reads(recPass.read, obj, uids) /\ Reads(sweep.listed, obj, uids)

\* What is about to be deleted for its expiry had expired when it was read.
Expiring ==
  /\ \A h \in Handlers : handler[h].pc = "delete" => handler[h].found.expires = "passed"
  /\ sweep.pc = "delete" => sweep.listed.expires = "passed"

\* A record has the source it was published on; so has a pass that releases one.
Owned ==
  /\ obj.uid # 0 => obj.owner # 0
  /\ \A h \in Handlers : handler[h].pc # "idle" => handler[h].src # 0
  /\ release["pass"].pc # "idle" => release["pass"].departed # 0

\* A pass writes no finished record back to unfinished, and settles the expiry of the
\* record as it wrote it.
Written ==
  /\ recPass.pc = "write" /\ recPass.read.done => recPass.done
  /\ recPass.pc # "idle" => recPass.read.uid # 0
  /\ recPass.pc = "settle" /\ ~recPast.swapped /\ obj.uid = recPass.read.uid => (obj.done <=> recPass.done)

StoreSound == Readings /\ Expiring /\ Owned /\ Written /\ Store!LiveNeverExpires


LEMMA NoneIs == Store!None \in Objects /\ Store!None.uid = 0 /\ Store!None.expires = "never" /\ ~Store!None.done
BY DEF Store!None, Objects

LEMMA StoreInit == Store!Init => StoreTyped /\ StoreSound
<1> SUFFICES ASSUME Store!Init PROVE StoreTyped /\ StoreSound
  OBVIOUS
<1> USE NoneIs
<1>1. StoreTyped
  BY DEF StoreTyped, Store!Init, Requests, Releasings, Store!NoPass, Store!NoRelease, Store!NoSweep, RecPassing
<1>2. \A o \in {Store!None} : Reads(o, obj, uids)
  BY DEF Store!Init, Reads
<1>3. Readings
  BY <1>2 DEF Readings, Store!Init, Store!NoPass, Store!NoRelease, Store!NoSweep
<1>4. Expiring /\ Owned /\ Written
  BY DEF Expiring, Owned, Written, Store!Init, Store!NoPass, Store!NoRelease, Store!NoSweep, Store!Releasers
<1>5. Store!LiveNeverExpires
  BY DEF Store!Init, Store!LiveNeverExpires, Store!Live, Store!Exists
<1> QED BY <1>1, <1>3, <1>4, <1>5 DEF StoreSound

-----------------------------------------------------------------------------
(* What is read, and what becomes of the object. *)

\* The object, b of so many made, stays, goes, is made, is written, or its time passes.
Becomes(b, made, b2, made2) ==
  \/ b2 = b /\ made2 = made
  \/ b2.uid = 0 /\ made2 = made
  \/ b.uid = 0 /\ b2.uid = made + 1 /\ made2 = made + 1
  \/ b2.uid = b.uid /\ b2.owner = b.owner /\ b2.rev = b.rev + 1 /\ made2 = made
  \/ /\ b2.uid = b.uid /\ b2.owner = b.owner /\ b2.rev = b.rev /\ b2.done = b.done /\ made2 = made
     /\ b.expires = "ahead" /\ b2.expires = "passed"

LEMMA ReadsOn ==
  ASSUME NEW o \in Objects, NEW b \in Objects, NEW b2 \in Objects, NEW made \in Nat, NEW made2 \in Nat,
         b.uid <= made, Becomes(b, made, b2, made2), Reads(o, b, made)
  PROVE  Reads(o, b2, made2)
<1>1. o.uid \in Nat /\ b.uid \in Nat /\ b2.uid \in Nat /\ o.rev \in Nat /\ b.rev \in Nat /\ b2.rev \in Nat
  BY DEF Objects
<1>2. o.uid <= made /\ made <= made2
  BY DEF Becomes, Reads
<1>3. CASE b2 = b /\ made2 = made
  BY <1>3
<1>4. CASE b2.uid = 0 /\ made2 = made
  BY <1>1, <1>2, <1>4 DEF Reads
<1>5. CASE b.uid = 0 /\ b2.uid = made + 1 /\ made2 = made + 1
  BY <1>1, <1>2, <1>5 DEF Reads
<1>6. CASE b2.uid = b.uid /\ b2.owner = b.owner /\ b2.rev = b.rev + 1 /\ made2 = made
  BY <1>1, <1>2, <1>6 DEF Reads
<1>7. CASE /\ b2.uid = b.uid /\ b2.owner = b.owner /\ b2.rev = b.rev /\ b2.done = b.done /\ made2 = made
           /\ b.expires = "ahead" /\ b2.expires = "passed"
  BY <1>1, <1>2, <1>7 DEF Reads
<1> QED BY <1>3, <1>4, <1>5, <1>6, <1>7 DEF Becomes

LEMMA ReadsItself == ASSUME NEW b \in Objects, NEW made \in Nat, b.uid <= made PROVE Reads(b, b, made)
BY DEF Reads, Objects

LEMMA ReadsNone == ASSUME NEW b \in Objects, NEW made \in Nat PROVE Reads(Store!None, b, made)
BY NoneIs DEF Reads

\* A request, a release, the sweep and the pass each keep what they read, or read the
\* object as it is.
Rereads ==
  /\ \A h \in Handlers : handler'[h].found \in {handler[h].found, Store!None, obj}
  /\ \A r \in Store!Releasers : release'[r].listed \in {release[r].listed, Store!None, obj}
  /\ sweep'.listed \in {sweep.listed, Store!None, obj}
  /\ recPass'.read \in {recPass.read, Store!None, obj, obj'}

LEMMA ReadingsOn ==
  ASSUME StoreTyped, StoreTyped', Readings, Becomes(obj, uids, obj', uids'), Rereads
  PROVE  Readings'
<1>1. obj \in Objects /\ obj' \in Objects /\ uids \in Nat /\ uids' \in Nat /\ obj.uid <= uids /\ obj'.uid <= uids'
  BY DEF StoreTyped
<1>2. Reads(obj, obj', uids') /\ Reads(obj', obj', uids') /\ Reads(Store!None, obj', uids')
  BY <1>1, ReadsItself, ReadsNone, ReadsOn
<1>3. \A o \in Objects : Reads(o, obj, uids) => Reads(o, obj', uids')
  BY <1>1, ReadsOn
<1>4. ASSUME NEW h \in Handlers PROVE Reads(handler'[h].found, obj', uids')
  <2>1. handler[h].found \in Objects /\ Reads(handler[h].found, obj, uids)
    BY DEF StoreTyped, Readings, Requests
  <2> QED BY <1>2, <1>3, <2>1 DEF Rereads
<1>5. ASSUME NEW r \in Store!Releasers PROVE Reads(release'[r].listed, obj', uids')
  <2>1. release[r].listed \in Objects /\ Reads(release[r].listed, obj, uids)
    BY DEF StoreTyped, Readings, Releasings
  <2> QED BY <1>2, <1>3, <2>1 DEF Rereads
<1>6. Reads(sweep'.listed, obj', uids')
  <2>1. sweep.listed \in Objects /\ Reads(sweep.listed, obj, uids)
    BY DEF StoreTyped, Readings
  <2> QED BY <1>2, <1>3, <2>1 DEF Rereads
<1>7. Reads(recPass'.read, obj', uids')
  <2>1. recPass.read \in Objects /\ Reads(recPass.read, obj, uids)
    BY DEF StoreTyped, Readings, RecPassing
  <2> QED BY <1>2, <1>3, <2>1 DEF Rereads
<1> QED BY <1>4, <1>5, <1>6, <1>7 DEF Readings


\* The rest of the invariant, where a step changes it.
SoundRequest(q) == (q.pc = "delete" => q.found.expires = "passed") /\ (q.pc # "idle" => q.src # 0)
SoundActors ==
  /\ \A h \in Handlers : handler'[h] = handler[h] \/ SoundRequest(handler'[h])
  /\ sweep' = sweep \/ (sweep'.pc = "delete" => sweep'.listed.expires = "passed")
  /\ release'["pass"] = release["pass"] \/ (release'["pass"].pc # "idle" => release'["pass"].departed # 0)

LEMMA SoundOn ==
  ASSUME StoreTyped, StoreSound, StoreTyped', Becomes(obj, uids, obj', uids'), Rereads, SoundActors,
         obj'.uid # 0 => obj'.owner # 0, Written', Store!LiveNeverExpires'
  PROVE  StoreSound'
<1>1. Readings'
  BY ReadingsOn DEF StoreSound
<1>2. ASSUME NEW h \in Handlers PROVE SoundRequest(handler'[h])
  BY DEF StoreSound, Expiring, Owned, SoundActors, SoundRequest
<1>3. sweep'.pc = "delete" => sweep'.listed.expires = "passed"
  BY DEF StoreSound, Expiring, SoundActors
<1>4. release'["pass"].pc # "idle" => release'["pass"].departed # 0
  BY DEF StoreSound, Owned, SoundActors
<1>5. Expiring' /\ Owned'
  BY <1>2, <1>3, <1>4 DEF Expiring, Owned, SoundRequest
<1> QED BY <1>1, <1>5 DEF StoreSound

\* The object and the pass stay.
LEMMA SoundStays ==
  ASSUME StoreTyped, StoreSound, StoreTyped', UNCHANGED <<obj, uids, recPass>>, recPast'.swapped = recPast.swapped,
         \A h \in Handlers : handler'[h].found \in {handler[h].found, Store!None, obj},
         \A r \in Store!Releasers : release'[r].listed \in {release[r].listed, Store!None, obj},
         sweep'.listed \in {sweep.listed, Store!None, obj}, SoundActors
  PROVE  StoreSound'
<1>1. Becomes(obj, uids, obj', uids') /\ Rereads
  BY DEF Becomes, Rereads
<1>2. (obj'.uid # 0 => obj'.owner # 0) /\ Written'
  BY DEF StoreSound, Owned, Written
<1>3. Store!LiveNeverExpires'
  BY DEF StoreSound, Store!LiveNeverExpires, Store!Live, Store!Exists
<1> QED BY <1>1, <1>2, <1>3, SoundOn

\* The object goes, the pass stays.
LEMMA SoundGoes ==
  ASSUME StoreTyped, StoreSound, StoreTyped', obj'.uid = 0, UNCHANGED <<uids, recPass>>,
         \A h \in Handlers : handler'[h].found \in {handler[h].found, Store!None, obj},
         \A r \in Store!Releasers : release'[r].listed \in {release[r].listed, Store!None, obj},
         sweep'.listed \in {sweep.listed, Store!None, obj}, SoundActors
  PROVE  StoreSound'
<1>1. Becomes(obj, uids, obj', uids') /\ Rereads
  BY DEF Becomes, Rereads
<1>2. Written'
  BY DEF StoreSound, Written
<1>3. Store!LiveNeverExpires'
  BY DEF Store!LiveNeverExpires, Store!Live, Store!Exists
<1> QED BY <1>1, <1>2, <1>3, SoundOn

LEMMA HandlerMoves ==
  ASSUME StoreTyped, NEW h \in Handlers, NEW q \in Requests, handler' = [handler EXCEPT ![h] = q]
  PROVE  handler' \in [Handlers -> Requests] /\ handler'[h] = q /\ \A g \in Handlers \ {h} : handler'[g] = handler[g]
BY DEF StoreTyped

LEMMA ReleaseMoves ==
  ASSUME StoreTyped, NEW r \in Store!Releasers, NEW q \in Releasings, release' = [release EXCEPT ![r] = q]
  PROVE  /\ release' \in [Store!Releasers -> Releasings] /\ release'[r] = q
         /\ \A g \in Store!Releasers \ {r} : release'[g] = release[g]
BY DEF StoreTyped

LEMMA Gone == [Store!None EXCEPT !.rev = 0] = Store!None
BY DEF Store!None

\* Put(None).
LEMMA PutsNone == Store!Put(Store!None) => obj' = Store!None
BY NoneIs, Gone DEF Store!Put

Sent == [pc |-> "idle", src |-> 0, found |-> Store!None]
LEMMA SentIs ==
  ASSUME StoreTyped, NEW h \in Handlers, Store!Answered(h)
  PROVE  /\ handler' \in [Handlers -> Requests] /\ handler'[h].pc = "idle" /\ handler'[h].found = Store!None
         /\ \A g \in Handlers \ {h} : handler'[g] = handler[g]
<1>1. Sent \in Requests /\ handler' = [handler EXCEPT ![h] = Sent]
  BY NoneIs DEF Sent, Requests, Store!Answered
<1>2. Sent.pc = "idle" /\ Sent.found = Store!None
  BY DEF Sent
<1> QED BY <1>1, <1>2, HandlerMoves

-----------------------------------------------------------------------------
(* The requests. *)

LEMMA RequestArrivesSound ==
  ASSUME StoreTyped, StoreSound, NEW h \in Handlers, Store!RequestArrives(h)
  PROVE  StoreTyped' /\ StoreSound'
<1> DEFINE q == [pc |-> "create", src |-> source, found |-> Store!None]
<1>1. q \in Requests /\ handler' = [handler EXCEPT ![h] = q] /\ source # 0
  BY NoneIs DEF StoreTyped, Requests, Store!RequestArrives
<1>2. UNCHANGED <<obj, uids, source, last, recPass, release, sweep, recPast>>
  BY DEF Store!RequestArrives, Store!world
<1>3. handler' \in [Handlers -> Requests] /\ handler'[h] = q /\ \A g \in Handlers \ {h} : handler'[g] = handler[g]
  BY <1>1, HandlerMoves
<1>4. StoreTyped'
  BY <1>2, <1>3 DEF StoreTyped
<1>5. SoundActors
  BY <1>1, <1>2, <1>3 DEF SoundActors, SoundRequest
<1>6. \A g \in Handlers : handler'[g].found \in {handler[g].found, Store!None, obj}
  BY <1>3
<1> QED BY <1>2, <1>4, <1>5, <1>6, SoundStays

LEMMA CreateSound ==
  ASSUME StoreTyped, StoreSound, NEW h \in Handlers, Store!Create(h)
  PROVE  StoreTyped' /\ StoreSound'
<1>1. UNCHANGED <<source, last, recPass, release, sweep, recPast>> /\ handler[h].pc \in {"create", "recreate"}
  BY DEF Store!Create, Store!world
<1>2. handler[h] \in Requests /\ handler[h].src # 0 /\ handler[h].src \in Nat
  BY <1>1 DEF StoreTyped, StoreSound, Owned, Requests
<1>3. CASE Store!Exists
  <2>1. UNCHANGED <<obj, uids>>
    BY <1>3 DEF Store!Create
  <2>2. CASE Store!Answered(h)
    <3>1. /\ handler' \in [Handlers -> Requests] /\ handler'[h].pc = "idle" /\ handler'[h].found = Store!None
          /\ \A g \in Handlers \ {h} : handler'[g] = handler[g]
      BY <2>2, SentIs
    <3>2. StoreTyped'
      BY <1>1, <2>1, <3>1 DEF StoreTyped
    <3>3. SoundActors /\ \A g \in Handlers : handler'[g].found \in {handler[g].found, Store!None, obj}
      BY <1>1, <3>1 DEF SoundActors, SoundRequest
    <3> QED BY <1>1, <2>1, <3>2, <3>3, SoundStays
  <2>3. CASE handler' = [handler EXCEPT ![h].pc = "get"]
    <3> DEFINE q == [handler[h] EXCEPT !.pc = "get"]
    <3>1. q \in Requests /\ q.pc = "get" /\ q.src # 0 /\ q.found = handler[h].found
      BY <1>2 DEF Requests
    <3>2. handler' = [handler EXCEPT ![h] = q]
      BY <2>3 DEF StoreTyped
    <3>3. handler' \in [Handlers -> Requests] /\ handler'[h] = q /\ \A g \in Handlers \ {h} : handler'[g] = handler[g]
      BY <3>1, <3>2, HandlerMoves
    <3>4. StoreTyped'
      BY <1>1, <2>1, <3>3 DEF StoreTyped
    <3>5. SoundActors /\ \A g \in Handlers : handler'[g].found \in {handler[g].found, Store!None, obj}
      BY <1>1, <3>1, <3>3 DEF SoundActors, SoundRequest
    <3> QED BY <1>1, <2>1, <3>4, <3>5, SoundStays
  <2> QED BY <1>3, <2>2, <2>3 DEF Store!Create
<1>4. CASE ~Store!Exists
  <2>1. uids' = uids + 1 /\ Store!Answered(h)
    BY <1>4 DEF Store!Create
  <2>2. obj' = [[Store!None EXCEPT !.uid = uids + 1, !.owner = handler[h].src] EXCEPT !.rev =
                  IF [Store!None EXCEPT !.uid = uids + 1, !.owner = handler[h].src].uid = 0 THEN 0 ELSE obj.rev + 1]
    BY <1>4 DEF Store!Create, Store!Put
  <2>3. obj \in Objects /\ uids \in Nat /\ obj.uid = 0 /\ obj.rev + 1 \in Nat
    BY <1>4 DEF StoreTyped, Store!Exists, Objects
  <2>4. obj' \in Objects /\ obj'.uid = uids + 1 /\ obj'.owner = handler[h].src /\ obj'.expires = "never"
    <3>1. PICK o : o = [Store!None EXCEPT !.uid = uids + 1, !.owner = handler[h].src]
      OBVIOUS
    <3>2. o = [uid |-> uids + 1, rev |-> 0, owner |-> handler[h].src, done |-> FALSE, expires |-> "never"]
      BY <3>1 DEF Store!None
    <3>3. uids + 1 # 0 /\ uids + 1 \in Nat
      BY <2>3
    <3>4. obj' = [o EXCEPT !.rev = obj.rev + 1]
      BY <2>2, <3>1, <3>2, <3>3
    <3> QED BY <1>2, <2>3, <3>2, <3>3, <3>4 DEF Objects
  <2>5. /\ handler' \in [Handlers -> Requests] /\ handler'[h].pc = "idle" /\ handler'[h].found = Store!None
        /\ \A g \in Handlers \ {h} : handler'[g] = handler[g]
    BY <2>1, SentIs
  <2>6. StoreTyped'
    BY <1>1, <2>1, <2>3, <2>4, <2>5 DEF StoreTyped
  <2>7. Becomes(obj, uids, obj', uids') /\ Rereads
    BY <1>1, <2>1, <2>3, <2>4, <2>5 DEF Becomes, Rereads
  <2>8. SoundActors
    BY <1>1, <2>5 DEF SoundActors, SoundRequest
  <2>9. Written'
    <3>1. recPass.read.uid <= uids /\ recPass.read.uid \in Nat
      BY DEF StoreSound, Readings, Reads, StoreTyped, Objects, RecPassing
    <3> QED BY <1>1, <2>3, <2>4, <3>1 DEF StoreSound, Written
  <2>10. Store!LiveNeverExpires'
    BY <2>4 DEF Store!LiveNeverExpires
  <2> QED BY <1>2, <2>4, <2>6, <2>7, <2>8, <2>9, <2>10, SoundOn
<1> QED BY <1>3, <1>4


LEMMA GetExistingSound ==
  ASSUME StoreTyped, StoreSound, NEW h \in Handlers, Store!GetExisting(h)
  PROVE  StoreTyped' /\ StoreSound'
<1>1. UNCHANGED <<obj, uids, source, last, recPass, release, sweep, recPast>> /\ handler[h].pc = "get"
  BY DEF Store!GetExisting, Store!world
<1>2. CASE Store!Answered(h)
  <2>1. /\ handler' \in [Handlers -> Requests] /\ handler'[h].pc = "idle" /\ handler'[h].found = Store!None
        /\ \A g \in Handlers \ {h} : handler'[g] = handler[g]
    BY <1>2, SentIs
  <2>2. StoreTyped'
    BY <1>1, <2>1 DEF StoreTyped
  <2>3. SoundActors /\ \A g \in Handlers : handler'[g].found \in {handler[g].found, Store!None, obj}
    BY <1>1, <2>1 DEF SoundActors, SoundRequest
  <2> QED BY <1>1, <2>2, <2>3, SoundStays
<1>3. CASE /\ Store!Expired /\ handler' = [handler EXCEPT ![h].pc = "delete", ![h].found = obj]
  <2> DEFINE q == [handler[h] EXCEPT !.pc = "delete", !.found = obj]
  <2>1. handler[h] \in Requests /\ handler[h].src # 0 /\ obj \in Objects
    BY <1>1 DEF StoreTyped, StoreSound, Owned
  <2>2. q \in Requests /\ q.pc = "delete" /\ q.src # 0 /\ q.found = obj
    BY <2>1 DEF Requests
  <2>3. handler' = [handler EXCEPT ![h] = q]
    BY <1>3, <2>1 DEF StoreTyped, Requests
  <2>4. handler' \in [Handlers -> Requests] /\ handler'[h] = q /\ \A g \in Handlers \ {h} : handler'[g] = handler[g]
    BY <2>2, <2>3, HandlerMoves
  <2>5. StoreTyped'
    BY <1>1, <2>4 DEF StoreTyped
  <2>6. SoundActors /\ \A g \in Handlers : handler'[g].found \in {handler[g].found, Store!None, obj}
    BY <1>1, <1>3, <2>2, <2>4 DEF SoundActors, SoundRequest, Store!Expired
  <2> QED BY <1>1, <2>5, <2>6, SoundStays
<1> QED BY <1>2, <1>3 DEF Store!GetExisting

LEMMA DeleteExpiredSound ==
  ASSUME StoreTyped, StoreSound, NEW h \in Handlers, Store!DeleteExpired(h)
  PROVE  StoreTyped' /\ StoreSound'
<1>1. UNCHANGED <<uids, source, last, recPass, release, sweep, recPast>> /\ handler[h].pc = "delete"
  BY DEF Store!DeleteExpired, Store!world, Store!bounds
<1>2. obj' = obj \/ obj' = Store!None
  BY PutsNone DEF Store!DeleteExpired
<1>3. /\ handler' \in [Handlers -> Requests] /\ SoundRequest(handler'[h]) /\ handler'[h].found \in {handler[h].found, Store!None}
      /\ \A g \in Handlers \ {h} : handler'[g] = handler[g]
  <2>1. CASE Store!Answered(h)
    BY <2>1, SentIs DEF SoundRequest
  <2>2. CASE handler' = [handler EXCEPT ![h].pc = "recreate"]
    <3> DEFINE q == [handler[h] EXCEPT !.pc = "recreate"]
    <3>1. handler[h] \in Requests /\ handler[h].src # 0
      BY <1>1 DEF StoreTyped, StoreSound, Owned
    <3>2. q \in Requests /\ q.pc = "recreate" /\ q.src # 0 /\ q.found = handler[h].found
      BY <3>1 DEF Requests
    <3>3. handler' = [handler EXCEPT ![h] = q]
      BY <2>2 DEF StoreTyped
    <3>4. handler' \in [Handlers -> Requests] /\ handler'[h] = q /\ \A g \in Handlers \ {h} : handler'[g] = handler[g]
      BY <3>2, <3>3, HandlerMoves
    <3> QED BY <3>2, <3>4 DEF SoundRequest
  <2> QED BY <2>1, <2>2 DEF Store!DeleteExpired
<1>4. StoreTyped'
  <2>1. obj' \in Objects /\ obj'.uid <= uids
    BY <1>2, NoneIs DEF StoreTyped
  <2> QED BY <1>1, <1>3, <2>1 DEF StoreTyped
<1>5. SoundActors /\ \A g \in Handlers : handler'[g].found \in {handler[g].found, Store!None, obj}
  BY <1>1, <1>3 DEF SoundActors
<1> QED BY <1>1, <1>2, <1>4, <1>5, NoneIs, SoundStays, SoundGoes

-----------------------------------------------------------------------------
(* The pass. *)

LEMMA NoRecPassIs == RecPassing(Store!NoPass) /\ Store!NoPass.pc = "idle" /\ Store!NoPass.read = Store!None
BY NoneIs DEF Store!NoPass, RecPassing

\* The pass ends, or another process takes over: nothing is at hand.
LEMMA PassEnded ==
  ASSUME StoreTyped, StoreSound, recPass' = Store!NoPass, UNCHANGED <<obj, uids, source, last, handler>>,
         UNCHANGED <<release, sweep>> \/ (release' = [r \in Store!Releasers |-> Store!NoRelease] /\ sweep' = Store!NoSweep),
         DOMAIN recPast' = DOMAIN recPast, recPast'.swapped = recPast.swapped
  PROVE  StoreTyped' /\ StoreSound'
<1>1. /\ release' \in [Store!Releasers -> Releasings] /\ sweep' \in [pc : {"idle", "list", "delete"}, listed : Objects]
      /\ \A r \in Store!Releasers : release'[r] = release[r] \/ (release'[r].pc = "idle" /\ release'[r].listed = Store!None)
      /\ sweep' = sweep \/ (sweep'.pc = "idle" /\ sweep'.listed = Store!None)
  BY NoneIs DEF StoreTyped, Releasings, Store!NoRelease, Store!NoSweep
<1>2. RecPassing(recPass') /\ recPass'.pc = "idle" /\ recPass'.read = Store!None
  BY NoRecPassIs
<1>3. StoreTyped'
  BY <1>1, <1>2 DEF StoreTyped, RecPassing
<1>4. Becomes(obj, uids, obj', uids') /\ Rereads
  BY <1>1, <1>2 DEF Becomes, Rereads
<1>5. SoundActors
  BY <1>1 DEF SoundActors, Store!Releasers
<1>6. (obj'.uid # 0 => obj'.owner # 0) /\ Written'
  BY <1>2 DEF StoreSound, Owned, Written
<1>7. Store!LiveNeverExpires'
  BY DEF StoreSound, Store!LiveNeverExpires, Store!Live, Store!Exists
<1> QED BY <1>3, <1>4, <1>5, <1>6, <1>7, SoundOn

LEMMA PassReadsSound == StoreTyped /\ StoreSound /\ Store!PassReads => StoreTyped' /\ StoreSound'
<1> SUFFICES ASSUME StoreTyped, StoreSound, Store!PassReads PROVE StoreTyped' /\ StoreSound'
  OBVIOUS
<1>1. UNCHANGED <<obj, uids, source, last, handler, sweep, recPast>> /\ obj \in Objects
  BY DEF Store!PassReads, Store!world, Store!bounds, StoreTyped
<1>2. CASE UNCHANGED <<recPass, release>>
  <2>1. StoreTyped'
    BY <1>1, <1>2 DEF StoreTyped
  <2>2. SoundActors
    BY <1>1, <1>2 DEF SoundActors
  <2> QED BY <1>1, <1>2, <2>1, <2>2, SoundStays
<1>3. CASE /\ obj.uid # 0 /\ recPass' = recPass
           /\ release' = [release EXCEPT !["pass"] = [Store!NoRelease EXCEPT !.pc = "list", !.departed = obj.owner]]
  <2> DEFINE q == [Store!NoRelease EXCEPT !.pc = "list", !.departed = obj.owner]
  <2>1. q \in Releasings /\ q.departed = obj.owner /\ q.listed = Store!None
    BY <1>1, NoneIs DEF Store!NoRelease, Releasings, Objects
  <2>2. obj.owner # 0
    BY <1>3 DEF StoreSound, Owned
  <2>3. /\ release' \in [Store!Releasers -> Releasings] /\ release'["pass"] = q
        /\ \A g \in Store!Releasers \ {"pass"} : release'[g] = release[g]
    BY <1>3, <2>1, ReleaseMoves DEF Store!Releasers
  <2>4. StoreTyped'
    BY <1>1, <1>3, <2>3 DEF StoreTyped
  <2>5. SoundActors /\ \A g \in Store!Releasers : release'[g].listed \in {release[g].listed, Store!None, obj}
    BY <1>1, <2>1, <2>2, <2>3 DEF SoundActors
  <2> QED BY <1>1, <1>3, <2>4, <2>5, SoundStays
<1>4. ASSUME NEW done \in BOOLEAN, obj.done => done, obj.uid # 0, release' = release,
             recPass' = [Store!NoPass EXCEPT !.pc = "write", !.read = obj, !.done = done]
      PROVE  StoreTyped' /\ StoreSound'
  <2>1. RecPassing(recPass') /\ recPass'.pc = "write" /\ recPass'.read = obj /\ (recPass'.done <=> done)
    <3>1. recPass' = [pc |-> "write", read |-> obj, done |-> done, left |-> 0]
      BY <1>4 DEF Store!NoPass
    <3> QED BY <1>1, <3>1 DEF RecPassing
  <2>2. StoreTyped'
    BY <1>1, <1>4, <2>1 DEF StoreTyped, RecPassing
  <2>3. Becomes(obj, uids, obj', uids') /\ Rereads
    BY <1>1, <1>4, <2>1 DEF Becomes, Rereads
  <2>4. SoundActors
    BY <1>1, <1>4 DEF SoundActors
  <2>5. (obj'.uid # 0 => obj'.owner # 0) /\ Written'
    BY <1>1, <1>4, <2>1 DEF StoreSound, Owned, Written
  <2>6. Store!LiveNeverExpires'
    BY <1>1 DEF StoreSound, Store!LiveNeverExpires, Store!Live, Store!Exists
  <2> QED BY <2>2, <2>3, <2>4, <2>5, <2>6, SoundOn
<1> QED
  <2>1. CASE ~Store!Visible \/ (obj.done /\ ~Store!NeedsStamp)
    BY <1>2, <2>1 DEF Store!PassReads
  <2>2. CASE Store!Visible /\ obj.done /\ Store!NeedsStamp
    <3>1. recPass' = [Store!NoPass EXCEPT !.pc = "write", !.read = obj, !.done = TRUE] /\ UNCHANGED release
      BY <2>2 DEF Store!PassReads
    <3> QED BY <1>4, <2>2, <3>1 DEF Store!Visible, Store!Exists
  <2>3. CASE Store!Visible /\ ~obj.done /\ source = 0
    BY <1>3, <2>3 DEF Store!PassReads, Store!Visible, Store!Exists
  <2>4. CASE Store!Visible /\ ~obj.done /\ source # 0
    <3>1. PICK done \in BOOLEAN : recPass' = [Store!NoPass EXCEPT !.pc = "write", !.read = obj, !.done = done]
      BY <2>4 DEF Store!PassReads
    <3>2. release' = release
      BY <2>4 DEF Store!PassReads
    <3> QED BY <1>4, <2>4, <3>1, <3>2 DEF Store!Visible, Store!Exists
  <2> QED BY <2>1, <2>2, <2>3, <2>4


\* The status is written under the revision that was read.
LEMMA PassWritesSound == StoreTyped /\ StoreSound /\ Store!PassWrites => StoreTyped' /\ StoreSound'
<1> SUFFICES ASSUME StoreTyped, StoreSound, Store!PassWrites PROVE StoreTyped' /\ StoreSound'
  OBVIOUS
<1>1. UNCHANGED <<uids, source, last, handler, release, sweep, recPast>> /\ recPass.pc = "write"
  BY DEF Store!PassWrites, Store!world, Store!bounds
<1>2. CASE ~(Store!Visible /\ Store!Same(recPass.read))
  <2>1. recPass' = Store!NoPass /\ obj' = obj
    BY <1>2 DEF Store!PassWrites
  <2> QED BY <1>1, <2>1, PassEnded
<1>3. CASE Store!Visible /\ Store!Same(recPass.read)
  <2>1. /\ IF obj.done = recPass.done THEN UNCHANGED <<obj, feed>> ELSE Store!Put([obj EXCEPT !.done = recPass.done])
        /\ recPass' = [recPass EXCEPT !.pc = "settle", !.read = obj', !.left = Attempts]
    BY <1>3 DEF Store!PassWrites
  <2>2. obj \in Objects /\ RecPassing(recPass) /\ recPass.done \in BOOLEAN /\ obj.done \in BOOLEAN /\ obj.rev \in Nat /\ obj.uid # 0
    BY <1>3 DEF StoreTyped, RecPassing, Store!Visible, Store!Exists, Objects
  <2>3. obj.done => recPass.done
    <3>1. recPass.read.uid = obj.uid /\ recPass.read.rev = obj.rev /\ Reads(recPass.read, obj, uids)
      BY <1>3 DEF Store!Same, StoreSound, Readings
    <3>2. recPass.read.done = obj.done
      BY <2>2, <3>1 DEF Reads
    <3> QED BY <1>1, <3>2 DEF StoreSound, Written
  <2>4. /\ obj' \in Objects /\ obj'.uid = obj.uid /\ obj'.owner = obj.owner /\ obj'.expires = obj.expires
        /\ (obj'.done <=> recPass.done) /\ (obj' = obj \/ obj'.rev = obj.rev + 1)
    <3>1. CASE obj.done = recPass.done
      BY <2>1, <2>2, <3>1
    <3>2. CASE obj.done # recPass.done
      <4>1. PICK o : o = [obj EXCEPT !.done = recPass.done]
        OBVIOUS
      <4>2. o \in Objects /\ o.uid = obj.uid /\ o.owner = obj.owner /\ o.expires = obj.expires /\ (o.done <=> recPass.done)
        BY <2>2, <4>1 DEF Objects
      <4>3. obj' = [o EXCEPT !.rev = obj.rev + 1]
        BY <2>1, <2>2, <3>2, <4>1, <4>2 DEF Store!Put
      <4>4. obj.rev + 1 \in Nat
        BY <2>2
      <4> QED BY <4>2, <4>3, <4>4 DEF Objects
    <3> QED BY <3>1, <3>2
  <2>5. RecPassing(recPass') /\ recPass'.pc = "settle" /\ recPass'.read = obj' /\ (recPass'.done <=> recPass.done)
    BY <2>1, <2>2, <2>4 DEF RecPassing
  <2>6. StoreTyped'
    BY <1>1, <2>4, <2>5 DEF StoreTyped
  <2>7. Becomes(obj, uids, obj', uids') /\ Rereads /\ SoundActors
    BY <1>1, <2>4, <2>5 DEF Becomes, Rereads, SoundActors
  <2>8. obj'.owner # 0 /\ Written'
    BY <2>2, <2>4, <2>5 DEF StoreSound, Owned, Written
  <2>9. Store!LiveNeverExpires'
    BY <1>1, <2>2, <2>3, <2>4 DEF StoreSound, Store!LiveNeverExpires, Store!Live, Store!Exists
  <2> QED BY <2>6, <2>7, <2>8, <2>9, SoundOn
<1> QED BY <1>2, <1>3

\* The expiry is settled under the revision of the write before it; after a conflict, on
\* what bears the name.
LEMMA PassSettlesSound == StoreTyped /\ StoreSound /\ Store!PassSettles => StoreTyped' /\ StoreSound'
<1> SUFFICES ASSUME StoreTyped, StoreSound, Store!PassSettles PROVE StoreTyped' /\ StoreSound'
  OBVIOUS
<1>1. /\ UNCHANGED <<uids, source, last, handler, release, sweep>> /\ recPass.pc = "settle"
      /\ obj \in Objects /\ RecPassing(recPass) /\ DOMAIN recPast = {"misled", "skipped", "swapped"}
  BY DEF Store!PassSettles, Store!world, Store!bounds, StoreTyped
<1>2. CASE recPass' = Store!NoPass /\ obj' = obj /\ recPast' = recPast
  BY <1>1, <1>2, PassEnded
<1>3. CASE /\ Store!Exists /\ Store!Same(recPass.read) /\ recPass' = Store!NoPass /\ recPast' = recPast
           /\ Store!Put([obj EXCEPT !.expires = IF Store!ToExpire THEN "ahead" ELSE "never"])
  <2>1. obj.rev \in Nat /\ obj.uid # 0 /\ recPass.read.uid = obj.uid
    BY <1>1, <1>3 DEF Objects, Store!Exists, Store!Same
  <2>2. PICK o : o = [obj EXCEPT !.expires = IF Store!ToExpire THEN "ahead" ELSE "never"]
    OBVIOUS
  <2>3. /\ o \in Objects /\ o.uid = obj.uid /\ o.owner = obj.owner /\ o.done = obj.done
        /\ ~recPass.done => o.expires = "never"
    BY <1>1, <2>2 DEF Objects, Store!ToExpire
  <2>4. obj' = [o EXCEPT !.rev = obj.rev + 1]
    BY <1>3, <2>1, <2>2, <2>3 DEF Store!Put
  <2>5. obj.rev + 1 \in Nat
    BY <2>1
  <2>6. /\ obj' \in Objects /\ obj'.uid = obj.uid /\ obj'.owner = obj.owner /\ obj'.done = obj.done /\ obj'.rev = obj.rev + 1
        /\ ~recPass.done => obj'.expires = "never"
    BY <2>3, <2>4, <2>5 DEF Objects
  <2>7. RecPassing(recPass') /\ recPass'.pc = "idle" /\ recPass'.read = Store!None
    BY <1>3, NoRecPassIs
  <2>8. StoreTyped'
    BY <1>1, <1>3, <2>6, <2>7 DEF StoreTyped
  <2>9. Becomes(obj, uids, obj', uids') /\ Rereads /\ SoundActors
    BY <1>1, <2>6, <2>7 DEF Becomes, Rereads, SoundActors
  <2>10. obj'.owner # 0 /\ Written'
    BY <2>1, <2>6, <2>7 DEF StoreSound, Owned, Written
  <2>11. Store!LiveNeverExpires'
    <3>1. ~recPast.swapped => (obj.done <=> recPass.done)
      BY <1>1, <2>1 DEF StoreSound, Written
    <3> QED BY <1>3, <2>6, <3>1 DEF Store!LiveNeverExpires, Store!Live
  <2> QED BY <2>8, <2>9, <2>10, <2>11, SoundOn
<1>4. CASE /\ Store!Exists /\ obj' = obj /\ recPass' = [recPass EXCEPT !.read = obj, !.left = @ - 1]
           /\ recPast' = [recPast EXCEPT !.swapped = @ \/ obj.uid # recPass.read.uid]
  <2>1. /\ RecPassing(recPass') /\ recPass'.pc = "settle" /\ recPass'.read = obj /\ (recPass'.done <=> recPass.done)
        /\ obj.uid # 0
    BY <1>1, <1>4 DEF RecPassing, Store!Exists
  <2>2. DOMAIN recPast' = DOMAIN recPast /\ (recPast'.swapped <=> recPast.swapped \/ obj.uid # recPass.read.uid)
    BY <1>1, <1>4
  <2>3. StoreTyped'
    BY <1>1, <1>4, <2>1, <2>2 DEF StoreTyped
  <2>4. Becomes(obj, uids, obj', uids') /\ Rereads /\ SoundActors
    BY <1>1, <1>4, <2>1 DEF Becomes, Rereads, SoundActors
  <2>5. obj'.owner # 0 /\ Written'
    BY <1>1, <1>4, <2>1, <2>2 DEF StoreSound, Owned, Written
  <2>6. Store!LiveNeverExpires'
    BY <1>4, <2>2 DEF StoreSound, Store!LiveNeverExpires, Store!Live, Store!Exists
  <2> QED BY <2>3, <2>4, <2>5, <2>6, SoundOn
<1> QED BY <1>2, <1>3, <1>4 DEF Store!PassSettles, Store!PassEnds

LEMMA SettleFailsSound == StoreTyped /\ StoreSound /\ Store!SettleFails => StoreTyped' /\ StoreSound'
<1> SUFFICES ASSUME StoreTyped, StoreSound, Store!SettleFails PROVE StoreTyped' /\ StoreSound'
  OBVIOUS
<1>1. recPass' = Store!NoPass /\ UNCHANGED <<obj, uids, source, last, handler, release, sweep, recPast>>
  BY DEF Store!SettleFails, Store!PassEnds, Store!world
<1> QED BY <1>1, PassEnded

LEMMA LeaderChangesSound == StoreTyped /\ StoreSound /\ Store!LeaderChanges => StoreTyped' /\ StoreSound'
<1> SUFFICES ASSUME StoreTyped, StoreSound, Store!LeaderChanges PROVE StoreTyped' /\ StoreSound'
  OBVIOUS
<1>1. /\ recPass' = Store!NoPass /\ UNCHANGED <<obj, uids, source, last, handler>>
      /\ release' = [r \in Store!Releasers |-> Store!NoRelease] /\ sweep' = Store!NoSweep
  BY DEF Store!LeaderChanges
<1>2. DOMAIN recPast' = DOMAIN recPast /\ recPast'.swapped = recPast.swapped
  BY DEF Store!LeaderChanges, StoreTyped
<1> QED BY <1>1, <1>2, PassEnded


-----------------------------------------------------------------------------
(* The release of a source, the sweep, and the rest. *)

LEMMA ReconcilerReleasesSound == StoreTyped /\ StoreSound /\ Store!ReconcilerReleases => StoreTyped' /\ StoreSound'
<1> SUFFICES ASSUME StoreTyped, StoreSound, Store!ReconcilerReleases PROVE StoreTyped' /\ StoreSound'
  OBVIOUS
<1> DEFINE q == [pc |-> "list", departed |-> 0, listed |-> Store!None]
<1>1. UNCHANGED <<obj, uids, source, last, handler, recPass, sweep, recPast>>
  BY DEF Store!ReconcilerReleases, Store!bounds
<1>2. q \in Releasings /\ release' = [release EXCEPT !["reconciler"] = q]
  <2>1. [Store!NoRelease EXCEPT !.pc = "list"] = q
    BY DEF Store!NoRelease
  <2>2. q \in Releasings
    BY NoneIs DEF Releasings
  <2> QED BY <2>1, <2>2 DEF Store!ReconcilerReleases
<1>3. /\ release' \in [Store!Releasers -> Releasings] /\ release'["reconciler"] = q
      /\ \A g \in Store!Releasers \ {"reconciler"} : release'[g] = release[g]
  BY <1>2, ReleaseMoves DEF Store!Releasers
<1>4. StoreTyped'
  BY <1>1, <1>3 DEF StoreTyped
<1>5. SoundActors /\ \A g \in Store!Releasers : release'[g].listed \in {release[g].listed, Store!None, obj}
  BY <1>1, <1>3 DEF SoundActors, Store!Releasers
<1> QED BY <1>1, <1>4, <1>5, SoundStays

LEMMA ReleaseListsSound ==
  ASSUME StoreTyped, StoreSound, NEW r \in Store!Releasers, Store!ReleaseLists(r)
  PROVE  StoreTyped' /\ StoreSound'
<1> DEFINE q == [release[r] EXCEPT !.pc = "delete", !.listed = obj]
<1>1. UNCHANGED <<obj, uids, source, last, handler, recPass, sweep, recPast>> /\ release[r].pc = "list"
  BY DEF Store!ReleaseLists, Store!bounds, Store!world
<1>2. release[r] \in Releasings /\ obj \in Objects
  BY DEF StoreTyped
<1>3. q \in Releasings /\ q.listed = obj /\ q.departed = release[r].departed
  BY <1>2 DEF Releasings
<1>4. release' = [release EXCEPT ![r] = q]
  BY <1>2 DEF Store!ReleaseLists, StoreTyped, Releasings
<1>5. /\ release' \in [Store!Releasers -> Releasings] /\ release'[r] = q
      /\ \A g \in Store!Releasers \ {r} : release'[g] = release[g]
  BY <1>3, <1>4, ReleaseMoves
<1>6. StoreTyped'
  BY <1>1, <1>5 DEF StoreTyped
<1>7. release["pass"].pc # "idle" => release["pass"].departed # 0
  BY DEF StoreSound, Owned
<1>8. SoundActors /\ \A g \in Store!Releasers : release'[g].listed \in {release[g].listed, Store!None, obj}
  BY <1>1, <1>3, <1>5, <1>7 DEF SoundActors, Store!Releasers
<1> QED BY <1>1, <1>6, <1>8, SoundStays

LEMMA ReleaseDeletesSound ==
  ASSUME StoreTyped, StoreSound, NEW r \in Store!Releasers, Store!ReleaseDeletes(r)
  PROVE  StoreTyped' /\ StoreSound'
<1>1. UNCHANGED <<uids, source, last, handler, recPass, sweep, recPast>>
  BY DEF Store!ReleaseDeletes, Store!bounds, Store!world
<1>2. obj' = obj \/ obj' = Store!None
  BY PutsNone DEF Store!ReleaseDeletes
<1>3. Store!NoRelease \in Releasings /\ Store!NoRelease.pc = "idle" /\ Store!NoRelease.listed = Store!None
  BY NoneIs DEF Store!NoRelease, Releasings
<1>4. /\ release' \in [Store!Releasers -> Releasings] /\ release'[r] = Store!NoRelease
      /\ \A g \in Store!Releasers \ {r} : release'[g] = release[g]
  BY <1>3, ReleaseMoves DEF Store!ReleaseDeletes
<1>5. StoreTyped'
  <2>1. obj' \in Objects /\ obj'.uid <= uids
    BY <1>2, NoneIs DEF StoreTyped
  <2> QED BY <1>1, <1>4, <2>1 DEF StoreTyped
<1>6. SoundActors /\ \A g \in Store!Releasers : release'[g].listed \in {release[g].listed, Store!None, obj}
  BY <1>1, <1>3, <1>4 DEF SoundActors, Store!Releasers
<1> QED BY <1>1, <1>2, <1>5, <1>6, NoneIs, SoundStays, SoundGoes

LEMMA SweepsSound == StoreTyped /\ StoreSound /\ Store!Sweeps => StoreTyped' /\ StoreSound'
<1> SUFFICES ASSUME StoreTyped, StoreSound, Store!Sweeps PROVE StoreTyped' /\ StoreSound'
  OBVIOUS
<1>1. UNCHANGED <<uids, source, last, handler, recPass, release, recPast>> /\ obj \in Objects
  BY DEF Store!Sweeps, Store!SweepTicks, Store!SweepLists, Store!SweepDeletes, Store!bounds, Store!world, StoreTyped
<1>2. obj' = obj \/ obj' = Store!None
  BY PutsNone DEF Store!Sweeps, Store!SweepTicks, Store!SweepLists, Store!SweepDeletes
<1>3. /\ sweep' \in [pc : {"idle", "list", "delete"}, listed : Objects] /\ sweep'.listed \in {Store!None, obj}
      /\ sweep'.pc = "delete" => sweep'.listed.expires = "passed"
  <2>1. \/ sweep' = [pc |-> "idle", listed |-> Store!None] \/ sweep' = [pc |-> "list", listed |-> Store!None]
        \/ (sweep' = [pc |-> "delete", listed |-> obj] /\ obj.expires = "passed")
    BY DEF Store!Sweeps, Store!SweepTicks, Store!SweepLists, Store!SweepDeletes, Store!NoSweep, Store!Expired
  <2> QED BY <1>1, <2>1, NoneIs
<1>4. StoreTyped'
  <2>1. obj' \in Objects /\ obj'.uid <= uids
    BY <1>2, NoneIs DEF StoreTyped
  <2> QED BY <1>1, <1>3, <2>1 DEF StoreTyped
<1>5. SoundActors
  BY <1>1, <1>3 DEF SoundActors
<1> QED BY <1>1, <1>2, <1>3, <1>4, <1>5, NoneIs, SoundStays, SoundGoes

LEMMA ExpiryPassesSound == StoreTyped /\ StoreSound /\ Store!ExpiryPasses => StoreTyped' /\ StoreSound'
<1> SUFFICES ASSUME StoreTyped, StoreSound, Store!ExpiryPasses PROVE StoreTyped' /\ StoreSound'
  OBVIOUS
<1>1. UNCHANGED <<uids, source, last, handler, recPass, release, sweep, recPast>> /\ obj \in Objects
  BY DEF Store!ExpiryPasses, Store!bounds, Store!world, StoreTyped
<1>2. obj.expires = "ahead" /\ obj' = [obj EXCEPT !.expires = "passed"]
  BY DEF Store!ExpiryPasses
<1>3. /\ obj' \in Objects /\ obj'.uid = obj.uid /\ obj'.owner = obj.owner /\ obj'.rev = obj.rev /\ obj'.done = obj.done
      /\ obj'.expires = "passed"
  BY <1>1, <1>2 DEF Objects
<1>4. StoreTyped'
  BY <1>1, <1>3 DEF StoreTyped
<1>5. Becomes(obj, uids, obj', uids') /\ Rereads /\ SoundActors
  BY <1>1, <1>2, <1>3 DEF Becomes, Rereads, SoundActors
<1>6. (obj'.uid # 0 => obj'.owner # 0) /\ Written'
  BY <1>1, <1>3 DEF StoreSound, Owned, Written
<1>7. Store!LiveNeverExpires'
  BY <1>1, <1>2, <1>3 DEF StoreSound, Store!LiveNeverExpires, Store!Live, Store!Exists
<1> QED BY <1>4, <1>5, <1>6, <1>7, SoundOn

\* The feed, the cache, the source, and stuttering.
LEMMA OthersSound ==
  ASSUME StoreTyped, StoreSound,
         Store!Feeds \/ Store!FeedBreaks \/ Store!SourceDeleted \/ Store!SourceCreated \/ Store!CacheFallsBehind
         \/ Store!CacheSyncs \/ UNCHANGED Store!vars
  PROVE  StoreTyped' /\ StoreSound'
<1> USE DEF Store!Feeds, Store!FeedOpens, Store!FeedLists, Store!FeedDelivers, Store!FeedBreaks, Store!SourceDeleted,
            Store!SourceCreated, Store!CacheFallsBehind, Store!CacheSyncs, Store!vars, Store!bounds, Store!world
<1>1. UNCHANGED <<obj, uids, handler, recPass, release, sweep>>
  OBVIOUS
<1>2. source' \in Nat /\ last' \in Nat
  <2>1. source \in Nat /\ last \in Nat
    BY DEF StoreTyped
  <2>2. CASE Store!SourceDeleted
    BY <2>1, <2>2
  <2>3. CASE Store!SourceCreated
    BY <2>1, <2>3
  <2>4. CASE UNCHANGED <<source, last>>
    BY <2>1, <2>4
  <2>5. Store!SourceDeleted \/ Store!SourceCreated \/ UNCHANGED <<source, last>>
    OBVIOUS
  <2> QED BY <2>2, <2>3, <2>4, <2>5
<1>3. DOMAIN recPast' = DOMAIN recPast /\ recPast'.swapped = recPast.swapped
  BY DEF StoreTyped
<1>4. StoreTyped'
  BY <1>1, <1>2, <1>3 DEF StoreTyped
<1>5. SoundActors
  BY <1>1 DEF SoundActors
<1> QED BY <1>1, <1>3, <1>4, <1>5, SoundStays

LEMMA StepSound == StoreTyped /\ StoreSound /\ [Store!Next]_(Store!vars) => StoreTyped' /\ StoreSound'
<1> SUFFICES ASSUME StoreTyped, StoreSound, [Store!Next]_(Store!vars) PROVE StoreTyped' /\ StoreSound'
  OBVIOUS
<1>1. ASSUME NEW h \in Handlers, Store!RequestArrives(h) \/ Store!Publishes(h) PROVE StoreTyped' /\ StoreSound'
  BY <1>1, RequestArrivesSound, CreateSound, GetExistingSound, DeleteExpiredSound DEF Store!Publishes
<1>2. CASE Store!Passes \/ Store!SettleFails \/ Store!LeaderChanges
  BY <1>2, PassReadsSound, PassWritesSound, PassSettlesSound, SettleFailsSound, LeaderChangesSound DEF Store!Passes
<1>3. ASSUME NEW r \in Store!Releasers, Store!Releases(r) PROVE StoreTyped' /\ StoreSound'
  BY <1>3, ReleaseListsSound, ReleaseDeletesSound DEF Store!Releases
<1>4. CASE Store!ReconcilerReleases \/ Store!Sweeps \/ Store!ExpiryPasses
  BY <1>4, ReconcilerReleasesSound, SweepsSound, ExpiryPassesSound
<1>5. CASE Store!Feeds \/ Store!FeedBreaks \/ Store!SourceDeleted \/ Store!SourceCreated \/ Store!CacheFallsBehind
           \/ Store!CacheSyncs \/ UNCHANGED Store!vars
  BY <1>5, OthersSound
<1> QED BY <1>1, <1>2, <1>3, <1>4, <1>5 DEF Store!Next

\* What was read expired, and is still what bears the name, has expired.
LEMMA StillExpired ==
  ASSUME StoreTyped, StoreSound, NEW o \in Objects, Reads(o, obj, uids), o.expires = "passed", Store!Precondition(o)
  PROVE  ~(Store!Live /\ ~recPast.swapped)
<1>1. o.uid = obj.uid /\ o.rev = obj.rev /\ obj.uid # 0
  BY DEF Store!Precondition, Store!Exists, Store!Same
<1>2. obj.expires = "passed"
  BY <1>1 DEF Reads
<1> QED BY <1>2 DEF StoreSound, Store!LiveNeverExpires

\* Who can have taken a live record away: a release, of its own source if a pass's.
LEMMA WhoTakesLive ==
  ASSUME StoreTyped, StoreSound, [Store!Next]_(Store!vars), Store!Live, ~recPast.swapped, obj'.uid # obj.uid
  PROVE  Store!Releasing("reconciler") \/ (Store!Releasing("pass") /\ release["pass"].departed = obj.owner)
<1>1. obj.uid # 0 /\ obj \in Objects
  BY DEF Store!Live, Store!Exists, StoreTyped
<1>2. ASSUME NEW h \in Handlers, Store!DeleteExpired(h) PROVE FALSE
  <2>1. handler[h].pc = "delete" /\ handler[h].found \in Objects /\ Reads(handler[h].found, obj, uids)
    BY <1>2 DEF Store!DeleteExpired, StoreTyped, Requests, StoreSound, Readings
  <2>2. handler[h].found.expires = "passed"
    BY <2>1 DEF StoreSound, Expiring
  <2>3. ~Store!Precondition(handler[h].found)
    BY <2>1, <2>2, StillExpired
  <2> QED BY <1>2, <2>3 DEF Store!DeleteExpired
<1>3. CASE Store!SweepDeletes
  <2>1. sweep.pc = "delete" /\ sweep.listed \in Objects /\ Reads(sweep.listed, obj, uids)
    BY <1>3 DEF Store!SweepDeletes, StoreTyped, StoreSound, Readings
  <2>2. sweep.listed.expires = "passed"
    BY <2>1 DEF StoreSound, Expiring
  <2>3. ~Store!Precondition(sweep.listed)
    BY <2>1, <2>2, StillExpired
  <2> QED BY <1>3, <2>3 DEF Store!SweepDeletes
<1>4. ASSUME NEW r \in Store!Releasers, Store!ReleaseDeletes(r)
      PROVE  Store!Releasing("reconciler") \/ (Store!Releasing("pass") /\ release["pass"].departed = obj.owner)
  <2>1. /\ release[r].listed.uid # 0 /\ release[r].listed.uid = obj.uid
        /\ ~Store!Successors(release[r].listed, release[r].departed)
    BY <1>4 DEF Store!ReleaseDeletes
  <2>2. release[r].pc = "delete" /\ release'[r] = Store!NoRelease
    BY <1>4 DEF Store!ReleaseDeletes, StoreTyped
  <2>3. Store!Releasing(r)
    BY <2>2 DEF Store!Releasing
  <2>4. release[r].listed.owner = obj.owner
    BY <2>1 DEF StoreSound, Readings, Reads
  <2>5. r = "pass" => release["pass"].departed = obj.owner
    BY <2>1, <2>2, <2>4 DEF Store!Successors, StoreSound, Owned
  <2> QED BY <2>3, <2>5 DEF Store!Releasers
<1>5. ASSUME NEW h \in Handlers, Store!RequestArrives(h) \/ Store!Create(h) \/ Store!GetExisting(h) PROVE FALSE
  BY <1>1, <1>5 DEF Store!RequestArrives, Store!Create, Store!GetExisting, Store!Exists
<1>6. CASE Store!Passes
  <2>1. CASE Store!PassReads
    BY <2>1 DEF Store!PassReads
  <2>2. CASE Store!PassWrites
    <3>1. PICK o : o = [obj EXCEPT !.done = recPass.done]
      OBVIOUS
    <3>2. obj' = obj \/ Store!Put(o)
      BY <2>2, <3>1 DEF Store!PassWrites
    <3>3. o.uid = obj.uid /\ o \in Objects
      BY <1>1, <3>1 DEF Objects, StoreTyped, RecPassing
    <3> QED BY <3>2, <3>3 DEF Store!Put, Objects
  <2>3. CASE Store!PassSettles
    <3>1. PICK o : o = [obj EXCEPT !.expires = IF Store!ToExpire THEN "ahead" ELSE "never"]
      OBVIOUS
    <3>2. obj' = obj \/ Store!Put(o)
      BY <2>3, <3>1 DEF Store!PassSettles
    <3>3. o.uid = obj.uid /\ o \in Objects
      BY <1>1, <3>1 DEF Objects
    <3> QED BY <3>2, <3>3 DEF Store!Put, Objects
  <2> QED BY <1>6, <2>1, <2>2, <2>3 DEF Store!Passes
<1>7. CASE Store!ExpiryPasses
  BY <1>1, <1>7 DEF Store!ExpiryPasses, Objects
<1>8. CASE Store!SettleFails \/ Store!LeaderChanges \/ Store!ReconcilerReleases \/ Store!SweepTicks \/ Store!SweepLists
           \/ Store!Feeds \/ Store!FeedBreaks \/ Store!SourceDeleted \/ Store!SourceCreated \/ Store!CacheFallsBehind
           \/ Store!CacheSyncs \/ UNCHANGED Store!vars
  BY <1>8 DEF Store!SettleFails, Store!LeaderChanges, Store!ReconcilerReleases, Store!SweepTicks, Store!SweepLists,
    Store!Feeds, Store!FeedOpens, Store!FeedLists, Store!FeedDelivers, Store!FeedBreaks, Store!SourceDeleted,
    Store!SourceCreated, Store!CacheFallsBehind, Store!CacheSyncs, Store!vars
<1>9. ASSUME NEW r \in Store!Releasers, Store!ReleaseLists(r) PROVE FALSE
  BY <1>9 DEF Store!ReleaseLists
<1> QED BY <1>2, <1>3, <1>4, <1>5, <1>6, <1>7, <1>8, <1>9
        DEF Store!Next, Store!Publishes, Store!Releases, Store!Sweeps

\* A message stored and not yet consumed is taken away only by the release of its source:
\* whatever the requests, sweeps and passes read before, however the calls interleave with
\* deletes, re-creations under the same name, leader changes and the passing of time.
THEOREM OnlyReleaseTakesLiveAlways == Store!Spec => Store!OnlyReleaseTakesLive
<1> DEFINE Step == Store!Live /\ ~recPast.swapped /\ obj'.uid # obj.uid =>
                     Store!Releasing("reconciler") \/ (Store!Releasing("pass") /\ release["pass"].departed = obj.owner)
<1>1. Store!Init => StoreTyped /\ StoreSound
  BY StoreInit
<1>2. StoreTyped /\ StoreSound /\ [Store!Next]_(Store!vars) => (StoreTyped /\ StoreSound)'
  BY StepSound
<1>3. StoreTyped /\ StoreSound /\ [Store!Next]_(Store!vars) => Step
  BY WhoTakesLive
<1>4. Store!Spec => [][Step]_(Store!vars)
  BY <1>1, <1>2, <1>3, PTL DEF Store!Spec
<1> QED BY <1>4 DEF Store!OnlyReleaseTakesLive

\* A record that is not consumed never carries an expiry, unless a pass has settled one
\* that took the name while it wrote.
THEOREM LiveNeverExpiresAlways == Store!Spec => []Store!LiveNeverExpires
<1>1. Store!Init => StoreTyped /\ StoreSound
  BY StoreInit
<1>2. StoreTyped /\ StoreSound /\ [Store!Next]_(Store!vars) => (StoreTyped /\ StoreSound)'
  BY StepSound
<1>3. StoreTyped /\ StoreSound => Store!LiveNeverExpires
  BY DEF StoreSound
<1> QED BY <1>1, <1>2, <1>3, PTL DEF Store!Spec

=============================================================================
