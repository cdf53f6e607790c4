-------------------------- MODULE UnattendedProofs --------------------------
(***************************************************************************)
(* Proofs about what runs on a node unattended: the metabolism             *)
(* (metabolism/), the presence router (presence/) and the loops (loops/),  *)
(* as MCUnattended composes them.                                          *)
(*                                                                         *)
(* The metabolism's invariant says what a stage holds between two of its   *)
(* reads and writes (StageInv), what of it is on file (JobInv), which runs *)
(* overlap (OverlapInv) and what the readings of the pulse add up to       *)
(* (BeatInv).  The router's tier is a fold over the rules: its equation is *)
(* that of a function on sets of rules, and well-foundedness of strict     *)
(* subsets gives what the fold comes to.  The loops' invariant follows one *)
(* tick from its first read to its row; what a passing report and a cron   *)
(* expression promise is then a matter of the files alone.                 *)
(***************************************************************************)
EXTENDS MCUnattended, FiniteSetTheorems, WellFoundedInduction, SequenceTheorems, TLAPS

\* A finite set of integers has a largest member.
LEMMA MaxExists ==
    ASSUME NEW S \in SUBSET Int, IsFiniteSet(S), S # {}
    PROVE  Max(S) \in S /\ \A y \in S : Max(S) >= y
<1> DEFINE Above(x) == {y \in S : y > x}
           T == {Above(x) : x \in S}
<1>1. \A x \in S : Above(x) \in SUBSET S /\ IsFiniteSet(Above(x))
  BY FS_Subset
<1>2. T \subseteq FiniteSubsetsOf(S) /\ T # {}
  BY <1>1 DEF FiniteSubsetsOf
<1>3. PICK a \in T : \A b \in T : ~ (<<b, a>> \in StrictSubsetOrdering(S))
  BY <1>2, FS_StrictSubsetOrderingWellFounded, WFMin
<1>4. PICK x \in S : a = Above(x)
  OBVIOUS
<1>5. ASSUME NEW y \in S, y > x PROVE FALSE
  <2>1. /\ Above(y) \in T /\ y \in Above(x) /\ y \notin Above(y)
        /\ \A z \in S : z > y => z > x
    BY <1>5
  <2>2. Above(y) \subseteq Above(x)
    BY <2>1
  <2>3. <<Above(y), Above(x)>> \in StrictSubsetOrdering(S)
    BY <2>1, <2>2 DEF StrictSubsetOrdering
  <2> QED
    BY <1>3, <1>4, <2>1, <2>3
<1>6. x \in Int /\ \A y \in S : y \in Int /\ x >= y
  BY <1>5
<1> HIDE DEF T
<1>. QED
  BY <1>6 DEF Max

\* And a smallest one.
LEMMA MinExists ==
    ASSUME NEW S \in SUBSET Int, IsFiniteSet(S), S # {}
    PROVE  Min(S) \in S /\ \A y \in S : Min(S) <= y
<1> DEFINE Below(x) == {y \in S : y < x}
           T == {Below(x) : x \in S}
<1>1. \A x \in S : Below(x) \in SUBSET S /\ IsFiniteSet(Below(x))
  BY FS_Subset
<1>2. T \subseteq FiniteSubsetsOf(S) /\ T # {}
  BY <1>1 DEF FiniteSubsetsOf
<1>3. PICK a \in T : \A b \in T : ~ (<<b, a>> \in StrictSubsetOrdering(S))
  BY <1>2, FS_StrictSubsetOrderingWellFounded, WFMin
<1>4. PICK x \in S : a = Below(x)
  OBVIOUS
<1>5. ASSUME NEW y \in S, y < x PROVE FALSE
  <2>1. /\ Below(y) \in T /\ y \in Below(x) /\ y \notin Below(y)
        /\ \A z \in S : z < y => z < x
    BY <1>5
  <2>2. Below(y) \subseteq Below(x)
    BY <2>1
  <2>3. <<Below(y), Below(x)>> \in StrictSubsetOrdering(S)
    BY <2>1, <2>2 DEF StrictSubsetOrdering
  <2> QED
    BY <1>3, <1>4, <2>1, <2>3
<1>6. x \in Int /\ \A y \in S : y \in Int /\ x <= y
  BY <1>5
<1> HIDE DEF T
<1>. QED
  BY <1>6 DEF Min

----------------------------------------------------------------------------
(* The metabolism: what its invariant says                                 *)

Work     == {"idle", "list", "item", "write", "append", "beat"}
JobState == [at: Work, stage: STAGE_IDS \cup {"none"}, todo: SUBSET Docs, made: 0..MaxItems,
             said: SUBSET {"failed", "answered", "unreadable"}, number: Nat, spent: Nat,
             verdict: Verdicts, date: 0..MaxDate, counts: [COUNTABLES -> Nat],
             overlap: BOOLEAN]

Types == TypeOK /\ job \in [Jobs -> JobState]

\* No stage skips one: a candidate is of an absorbed document, a pattern of a
\* candidate.
StageInv == /\ Candidates \subseteq absorbed
            /\ \A n \in Numbers : patterns[n] \in Candidates

\* What a job carries from its listing to its row: only absorbed documents to
\* distil, a count that leaves room for what is still to do, a spending that has
\* passed the envelope once at most, and above every pattern on file the number it
\* gives next, unless it overlapped another run.
JobOf(j) ==
    /\ job[j].at \in {"list", "item", "write", "append"} => job[j].stage \in STAGE_IDS
    /\ job[j].at = "write" => job[j].stage = "distill" /\ job[j].todo # {}
    /\ job[j].at = "beat" => job[j].date # 0
    /\ job[j].at \in {"item", "write"}
         => job[j].made + Cardinality(job[j].todo) <= MaxItems
    /\ job[j].at \in {"item", "write"} /\ job[j].stage = "distill"
         => job[j].todo \subseteq absorbed
    /\ job[j].spent <= MaxTokens + Slack
    /\ Crystallizing(j) /\ ~job[j].overlap => \A n \in Numbers : n < job[j].number

JobInv == \A j \in Jobs : JobOf(j)

\* Two crystallize runs under way at once are both marked.
OverlapInv == \A j, k \in Jobs : j # k /\ Crystallizing(j) /\ Crystallizing(k)
                                   => job[j].overlap /\ job[k].overlap

\* A reading's deltas are against the reading before it in the file.
BeatInv ==
    \A i \in DOMAIN history : \A k \in COUNTABLES :
        history[i].deltas[k] =
            history[i].counts[k] - IF i = 1 THEN 0 ELSE history[i - 1].counts[k]

IInv == Types /\ StageInv /\ JobInv /\ OverlapInv /\ BeatInv
----------------------------------------------------------------------------
USE BoundAssumption, EnvelopeAssumption, SpendAssumption

LEMMA DocsFinite ==
    ASSUME NEW S \in SUBSET Docs
    PROVE  S \in SUBSET Int /\ IsFiniteSet(S) /\ Cardinality(S) \in Nat
<1>1. IsFiniteSet(Docs) /\ Docs \subseteq Int
  BY FS_Interval DEF Docs
<1>2. IsFiniteSet(S)
  BY <1>1, FS_Subset
<1>3. Cardinality(S) \in Nat
  BY <1>2, FS_CardinalityType
<1>. QED
  BY <1>1, <1>2, <1>3

LEMMA NumbersFinite ==
    /\ Numbers \in SUBSET Int /\ IsFiniteSet(Numbers)
    /\ Cardinality(Numbers) \in Nat
<1>1. IsFiniteSet(1..MaxCryst) /\ Numbers \subseteq 1..MaxCryst
  BY FS_Interval DEF Numbers
<1>2. IsFiniteSet(Numbers)
  BY <1>1, FS_Subset
<1>3. Numbers \in SUBSET Int
  BY <1>1
<1>. QED
  BY <1>2, <1>3, FS_CardinalityType

\* The first MaxItems of a listing are no more than MaxItems.
LEMMA FirstItemsBounded ==
    ASSUME NEW S \in SUBSET Int, IsFiniteSet(S)
    PROVE  /\ FirstItems(S) \in SUBSET S /\ IsFiniteSet(FirstItems(S))
           /\ Cardinality(FirstItems(S)) \in 0..MaxItems
<1> DEFINE F == FirstItems(S)
<1>1. F \in SUBSET S /\ F \in SUBSET Int /\ IsFiniteSet(F) /\ Cardinality(F) \in Nat
  BY FS_Subset, FS_CardinalityType DEF FirstItems
<1>2. CASE F = {}
  BY <1>1, <1>2, FS_EmptySet
<1>3. CASE F # {}
  <2> DEFINE m == Max(F)
             G == {e \in S : e <= m}
  <2>1. m \in F /\ \A y \in F : y <= m
    BY <1>1, <1>3, MaxExists
  <2>2. IsFiniteSet(G) /\ Cardinality(G) \in Nat /\ Cardinality(G) <= MaxItems
    BY <2>1, <1>1, FS_Subset, FS_CardinalityType DEF FirstItems
  <2>3. F \subseteq G
    BY <2>1, <1>1
  <2> QED
    BY <1>1, <2>2, <2>3, FS_Subset
<1>. QED
  BY <1>1, <1>2, <1>3

\* The item at hand is one of the listing.
LEMMA AtHand ==
    ASSUME Types, NEW j \in Jobs, job[j].todo # {}
    PROVE  Min(job[j].todo) \in job[j].todo /\ Min(job[j].todo) \in Docs
BY DocsFinite, MinExists DEF Types, JobState

\* Done with an item, its job has one fewer to do.
LEMMA OneFewer ==
    ASSUME NEW S \in SUBSET Docs, NEW d \in S
    PROVE  /\ S \ {d} \in SUBSET Docs
           /\ Cardinality(S \ {d}) = Cardinality(S) - 1
           /\ Cardinality(S) \in Nat \ {0}
<1>1. IsFiniteSet(S) /\ Cardinality(S) \in Nat /\ Cardinality(S) # 0
  BY DocsFinite, FS_EmptySet
<1>. QED
  BY <1>1, FS_RemoveElement

LEMMA IdleType == Idle \in JobState
BY DEF Idle, JobState, Work, Verdicts, COUNTABLES

\* One job moves.
LEMMA Put ==
    ASSUME Types, NEW j \in Jobs, NEW q \in JobState, job' = [job EXCEPT ![j] = q]
    PROVE  /\ job' \in [Jobs -> JobState] /\ job'[j] = q
           /\ \A k \in Jobs \ {j} : job'[k] = job[k]
BY DEF Types

\* A job nobody touches keeps its part.
LEMMA Carried ==
    ASSUME NEW k \in Jobs, JobOf(k), job'[k] = job[k],
           absorbed \subseteq absorbed', Numbers' \subseteq Numbers
    PROVE  JobOf(k)'
BY DEF JobOf, Crystallizing

----------------------------------------------------------------------------
(* The first state                                                         *)

LEMMA IdleFine ==
    ASSUME NEW j \in Jobs, job[j] = Idle
    PROVE  JobOf(j)
BY DEF JobOf, Idle, Crystallizing

LEMMA InitIInv == Init => IInv
<1> SUFFICES ASSUME Init PROVE IInv
  OBVIOUS
<1>1. job \in [Jobs -> JobState] /\ \A j \in Jobs : job[j] = Idle
  BY IdleType DEF Init
<1>2. PICK D \in SUBSET absorbed :
          /\ candidates = [x \in Docs |-> IF x \in D THEN "whole" ELSE "none"]
          /\ \E first \in D \cup {NoDoc} :
                patterns = [n \in 1..MaxCryst |-> IF n = 1 THEN first ELSE NoDoc]
  BY DEF Init
<1>3. PICK first \in D \cup {NoDoc} :
          patterns = [n \in 1..MaxCryst |-> IF n = 1 THEN first ELSE NoDoc]
  BY <1>2
<1>4. absorbed \subseteq Docs /\ cadence \in Cadences /\ history \in Seq(Reading)
      /\ DOMAIN history = {}
  BY DEF Init
<1>5. TypeOK
  BY <1>2, <1>3, <1>4 DEF Init, TypeOK
<1>6. StageInv
  <2>1. Candidates = D
    BY <1>2, <1>4 DEF Candidates
  <2>2. \A n \in Numbers : patterns[n] \in D
    BY <1>3 DEF Numbers
  <2> QED
    BY <2>1, <2>2 DEF StageInv
<1>7. JobInv /\ OverlapInv
  BY <1>1, IdleFine DEF JobInv, OverlapInv, Crystallizing, Idle
<1>8. BeatInv
  BY <1>4 DEF BeatInv
<1>. QED
  BY <1>1, <1>5, <1>6, <1>7, <1>8 DEF IInv, Types
----------------------------------------------------------------------------
(* The steps of a stage run                                                *)

\* What is left when the stores and the other jobs stand still.
Still == UNCHANGED <<cadence, stores, today>>

\* A job that moves where no pattern, candidate or document does has only its
\* own part to answer for.
LEMMA OneMoves ==
    ASSUME IInv, NEW j \in Jobs, NEW q \in JobState, job' = [job EXCEPT ![j] = q],
           Still, begun' \in 0..MaxJobs, upsets' \in 0..MaxUpsets,
           JobOf(j)', Crystallizing(j)' => Crystallizing(j) /\ q.overlap = job[j].overlap
    PROVE  IInv'
<1>1. /\ job' \in [Jobs -> JobState] /\ job'[j] = q
      /\ \A k \in Jobs \ {j} : job'[k] = job[k]
  BY Put DEF IInv
<1>2. /\ absorbed' = absorbed /\ candidates' = candidates /\ patterns' = patterns
      /\ history' = history /\ Numbers' = Numbers /\ Candidates' = Candidates
  BY DEF Still, stores, Numbers, Candidates
<1>3. Types'
  BY <1>1 DEF IInv, Types, TypeOK, Still, stores
<1>4. JobInv'
  BY <1>1, <1>2, Carried DEF IInv, JobInv
<1>5. OverlapInv'
  BY <1>1 DEF IInv, OverlapInv, Crystallizing
<1>6. StageInv' /\ BeatInv'
  BY <1>2 DEF IInv, StageInv, BeatInv
<1>. QED
  BY <1>3, <1>4, <1>5, <1>6 DEF IInv

LEMMA BeginKeeps ==
    ASSUME IInv, NEW j \in Jobs, NEW s \in STAGE_IDS, Begin(j, s)
    PROVE  IInv'
<1> USE DEF Begin
<1>0. Still /\ begun' \in 0..MaxJobs /\ upsets' \in 0..MaxUpsets
  BY DEF IInv, Types, TypeOK, Still
<1>1. ASSUME NEW q, job' = [job EXCEPT ![j] = q],
             q \in {[Idle EXCEPT !.at = "append", !.stage = s, !.verdict = "SKIPPED"],
                    [Idle EXCEPT !.at = "list", !.stage = s]}
      PROVE  IInv'
  <2>0. Idle \in JobState /\ Idle.spent = 0
    BY IdleType DEF Idle
  <2> DEFINE Fine == /\ q \in JobState /\ q.at \in {"append", "list"} /\ q.stage = s /\ q.spent = 0
  <2>a. ASSUME q = [Idle EXCEPT !.at = "append", !.stage = s, !.verdict = "SKIPPED"]
        PROVE  Fine
    BY <2>a, <2>0 DEF JobState, Work, Verdicts
  <2>b. ASSUME q = [Idle EXCEPT !.at = "list", !.stage = s]
        PROVE  Fine
    BY <2>b, <2>0 DEF JobState, Work
  <2>1. /\ q \in JobState /\ q.at \in {"append", "list"} /\ q.stage = s /\ q.spent = 0
    BY <1>1, <2>a, <2>b
  <2>2. job'[j] = q
    BY <2>1, <1>1, Put DEF IInv
  <2>3. JobOf(j)' /\ ~ Crystallizing(j)'
    BY <2>1, <2>2 DEF JobOf, Crystallizing
  <2> QED
    BY <2>1, <2>3, <1>0, <1>1, OneMoves
<1>2. CASE UNCHANGED job
  <2>1. job' = [job EXCEPT ![j] = job[j]] /\ job[j] \in JobState /\ job'[j] = job[j]
    BY <1>2 DEF IInv, Types
  <2>2. Numbers' = Numbers /\ absorbed' = absorbed
    BY DEF Numbers, stores
  <2>3. JobOf(j)' /\ (Crystallizing(j)' => Crystallizing(j))
    BY <2>1, <2>2, Carried DEF IInv, JobInv, Crystallizing
  <2> QED
    BY <2>1, <2>3, <1>0, OneMoves
<1>. QED
  BY <1>1, <1>2

LEMMA ListKeeps ==
    ASSUME IInv, NEW j \in Jobs, List(j)
    PROVE  IInv'
<1> DEFINE s == job[j].stage
           q == [job[j] EXCEPT !.at = "item", !.todo = Listing(s),
                   !.number = IF s = "crystallize" THEN _next_cryst_number ELSE 0,
                   !.made = IF s = "method" THEN Cardinality(FirstItems(Numbers)) ELSE 0,
                   !.overlap = \E o \in Jobs \ {j} : Crystallizing(o)]
           marked(k) == [job[k] EXCEPT !.overlap = TRUE]
<1>0. Types /\ JobOf(j) /\ job[j] \in JobState /\ s \in STAGE_IDS /\ job[j].at = "list"
  BY DEF IInv, Types, JobInv, JobOf, List
<1>1. job' = [k \in Jobs |-> IF k = j THEN q
                 ELSE IF s = "crystallize" /\ Crystallizing(k) THEN marked(k) ELSE job[k]]
  BY DEF List
<1>2. UNCHANGED <<cadence, stores, today, count>>
  BY DEF List
<1>3. /\ Listing(s) \in SUBSET Docs
      /\ Cardinality(Listing(s)) \in 0..MaxItems
      /\ s = "distill" => Listing(s) \subseteq absorbed
      /\ s = "method" => Listing(s) = {}
  <2>1. Docs \in SUBSET Docs /\ absorbed \in SUBSET Docs /\ Candidates \in SUBSET Docs
    BY <1>0 DEF Types, TypeOK, Candidates
  <2>2. \A S \in SUBSET Docs : FirstItems(S) \in SUBSET S
                               /\ Cardinality(FirstItems(S)) \in 0..MaxItems
    BY DocsFinite, FirstItemsBounded
  <2>3. Cardinality({}) = 0
    BY FS_EmptySet
  <2> HIDE DEF s
  <2>4. CASE s = "absorb"
    BY <2>1, <2>2, <2>4 DEF Listing
  <2>5. CASE s = "distill"
    <3>1. Listing(s) = FirstItems(absorbed)
      BY <2>5 DEF Listing, _sources
    <3> QED BY <2>1, <2>2, <2>5, <3>1
  <2>6. CASE s = "crystallize"
    BY <2>1, <2>2, <2>6 DEF Listing
  <2>7. CASE s = "method"
    BY <2>3, <2>7 DEF Listing
  <2> QED
    BY <1>0, <2>4, <2>5, <2>6, <2>7 DEF STAGE_IDS
<1>4. Cardinality(FirstItems(Numbers)) \in 0..MaxItems
  BY NumbersFinite, FirstItemsBounded
<1>5. _next_cryst_number \in Nat /\ \A n \in Numbers : n < _next_cryst_number
  <2>1. /\ Numbers \cup {0} \in SUBSET Int /\ IsFiniteSet(Numbers \cup {0})
        /\ Numbers \cup {0} # {}
    BY NumbersFinite, FS_AddElement
  <2>2. Max(Numbers \cup {0}) \in Int /\ \A n \in Numbers \cup {0} : n <= Max(Numbers \cup {0})
    BY <2>1, MaxExists
  <2> QED
    BY <2>1, <2>2 DEF _next_cryst_number
<1>6. /\ q \in JobState /\ q.at = "item" /\ q.stage = s /\ q.todo = Listing(s)
      /\ q.spent = job[j].spent
      /\ s = "crystallize" => q.number = _next_cryst_number
      /\ q.made = IF s = "method" THEN Cardinality(FirstItems(Numbers)) ELSE 0
      /\ q.overlap = \E o \in Jobs \ {j} : Crystallizing(o)
  <2> DEFINE o == \E o \in Jobs \ {j} : Crystallizing(o)
             n == IF s = "crystallize" THEN _next_cryst_number ELSE 0
             m == IF s = "method" THEN Cardinality(FirstItems(Numbers)) ELSE 0
             l == Listing(s)
  <2>1. o \in BOOLEAN /\ n \in Nat /\ m \in 0..MaxItems /\ l \in SUBSET Docs
    BY <1>3, <1>4, <1>5
  <2>2. q = [job[j] EXCEPT !.at = "item", !.todo = l, !.number = n, !.made = m, !.overlap = o]
    OBVIOUS
  <2>3. s = job[j].stage
    OBVIOUS
  <2>4. s = "crystallize" => n = _next_cryst_number
    OBVIOUS
  <2>5. m = IF s = "method" THEN Cardinality(FirstItems(Numbers)) ELSE 0
    OBVIOUS
  <2>6. l = Listing(s) /\ o = \E x \in Jobs \ {j} : Crystallizing(x)
    OBVIOUS
  <2> HIDE DEF o, n, m, l, q, s
  <2>7. /\ q \in JobState /\ q.at = "item" /\ q.stage = s /\ q.todo = l /\ q.number = n
        /\ q.spent = job[j].spent /\ q.made = m /\ q.overlap = o
    BY <2>1, <2>2, <2>3, <1>0 DEF JobState, Work
  <2> QED
    BY <2>4, <2>5, <2>6, <2>7
<1>7. \A k \in Jobs : /\ marked(k) \in JobState
                      /\ marked(k).overlap = TRUE
                      /\ marked(k) = [job[k] EXCEPT !.overlap = TRUE]
  BY <1>0 DEF Types, JobState
<1> HIDE DEF q, marked
<1>8. /\ job' \in [Jobs -> JobState] /\ job'[j] = q
      /\ \A k \in Jobs \ {j} : job'[k] \in {job[k], marked(k)}
      /\ \A k \in Jobs \ {j} : s = "crystallize" /\ Crystallizing(k) => job'[k] = marked(k)
  BY <1>0, <1>1, <1>6, <1>7 DEF Types
<1>9. /\ absorbed' = absorbed /\ candidates' = candidates /\ patterns' = patterns
      /\ history' = history /\ Numbers' = Numbers /\ Candidates' = Candidates
  BY <1>2 DEF stores, Numbers, Candidates
<1>10. Types' /\ StageInv' /\ BeatInv'
  BY <1>0, <1>2, <1>8, <1>9 DEF IInv, Types, TypeOK, stores, count, StageInv, BeatInv
<1>11. JobOf(j)'
  <2>1. Cardinality(Listing(s)) \in Nat /\ MaxItems \in Nat
    BY <1>3
  <2>2. job'[j].made + Cardinality(job'[j].todo) <= MaxItems
    BY <1>3, <1>4, <1>6, <1>8, FS_EmptySet
  <2>3. job'[j].at = "item" /\ job'[j].stage = s /\ s \in STAGE_IDS
        /\ job'[j].spent <= MaxTokens + Slack
    BY <1>0, <1>6, <1>8 DEF JobOf
  <2>4. s = "distill" => job'[j].todo \subseteq absorbed'
    BY <1>3, <1>6, <1>8, <1>9
  <2>5. s = "crystallize" => \A n \in Numbers' : n < job'[j].number
    BY <1>5, <1>6, <1>8, <1>9
  <2> QED
    BY <2>2, <2>3, <2>4, <2>5 DEF JobOf, Crystallizing
<1>12. ASSUME NEW k \in Jobs \ {j}
       PROVE  JobOf(k)' /\ (Crystallizing(k)' <=> Crystallizing(k))
  <2>1. CASE job'[k] = job[k]
    BY <2>1, <1>9, Carried DEF IInv, JobInv, Crystallizing
  <2>2. CASE job'[k] = marked(k)
    <3>1. /\ job'[k].at = job[k].at /\ job'[k].stage = job[k].stage
          /\ job'[k].todo = job[k].todo /\ job'[k].made = job[k].made
          /\ job'[k].spent = job[k].spent /\ job'[k].date = job[k].date
          /\ job'[k].overlap = TRUE
      BY <2>2, <1>0, <1>7 DEF Types, JobState
    <3> QED
      BY <3>1, <1>9 DEF IInv, JobInv, JobOf, Crystallizing
  <2> QED
    BY <2>1, <2>2, <1>8
<1>13. OverlapInv'
  <2>1. ASSUME NEW k \in Jobs \ {j}, Crystallizing(j)', Crystallizing(k)'
        PROVE  job'[j].overlap /\ job'[k].overlap
    <3>1. s = "crystallize" /\ Crystallizing(k)
      BY <2>1, <1>6, <1>8, <1>12 DEF Crystallizing
    <3> QED
      BY <3>1, <1>6, <1>7, <1>8
  <2>2. ASSUME NEW k \in Jobs \ {j}, NEW l \in Jobs \ {j}, k # l,
               Crystallizing(k)', Crystallizing(l)'
        PROVE  job'[k].overlap
    <3>1. job[k].overlap
      BY <2>2, <1>12 DEF IInv, OverlapInv
    <3> QED
      BY <3>1, <1>7, <1>8
  <2> QED
    BY <2>1, <2>2 DEF OverlapInv
<1>. QED
  BY <1>10, <1>11, <1>12, <1>13 DEF IInv, JobInv

\* The item at hand is in the listing.
LEMMA InHand ==
    ASSUME Types, NEW j \in Jobs, NEW s, NEW d, ItemOf(j, s, d)
    PROVE  /\ d \in job[j].todo /\ d \in Docs
           /\ job[j].at = "item" /\ job[j].stage = s
BY AtHand DEF ItemOf

\* A job that is done with an item, in any of the ways it may be.
LEMMA DoneWith ==
    ASSUME Types, NEW j \in Jobs, JobOf(j), NEW d \in job[j].todo,
           job[j].at \in {"item", "write"}
    PROVE  /\ Done(j, d) \in JobState
           /\ Done(j, d).todo = job[j].todo \ {d} /\ Done(j, d).at = job[j].at
           /\ Done(j, d).stage = job[j].stage /\ Done(j, d).said = job[j].said
           /\ Done(j, d).number = job[j].number /\ Done(j, d).spent = job[j].spent
           /\ Done(j, d).overlap = job[j].overlap /\ Done(j, d).made = job[j].made
           /\ job[j].made + 1 \in 0..MaxItems
           /\ job[j].made + 1 + Cardinality(job[j].todo \ {d}) <= MaxItems
           /\ job[j].made + Cardinality(job[j].todo \ {d}) <= MaxItems
<1>1. job[j] \in JobState /\ job[j].todo \in SUBSET Docs /\ job[j].made \in 0..MaxItems
  BY DEF Types, JobState
<1>2. /\ Cardinality(job[j].todo \ {d}) = Cardinality(job[j].todo) - 1
      /\ Cardinality(job[j].todo) \in Nat \ {0}
  BY <1>1, OneFewer
<1>3. job[j].made + Cardinality(job[j].todo) <= MaxItems
  BY DEF JobOf
<1>4. /\ job[j].made + 1 \in 0..MaxItems
      /\ job[j].made + 1 + Cardinality(job[j].todo \ {d}) <= MaxItems
      /\ job[j].made + Cardinality(job[j].todo \ {d}) <= MaxItems
  BY <1>1, <1>2, <1>3
<1>5. job[j].todo \ {d} \in SUBSET Docs
  BY <1>1
<1>. QED
  BY <1>1, <1>4, <1>5 DEF Done, JobState

LEMMA AbsorbKeeps ==
    ASSUME IInv, NEW j \in Jobs, NEW d \in Docs, AbsorbItem(j, d)
    PROVE  IInv'
<1>0. /\ Types /\ JobOf(j) /\ d \in job[j].todo
      /\ job[j].at = "item" /\ job[j].stage = "absorb"
  BY InHand DEF IInv, JobInv, AbsorbItem
<1>1. PICK q \in {Done(j, d), [Done(j, d) EXCEPT !.made = @ + 1]} :
          job' = [job EXCEPT ![j] = q]
  BY DEF AbsorbItem
<1>a. /\ Done(j, d) \in JobState /\ Done(j, d).todo = job[j].todo \ {d}
      /\ Done(j, d).at = "item" /\ Done(j, d).stage = "absorb"
      /\ Done(j, d).spent = job[j].spent /\ Done(j, d).made = job[j].made
      /\ job[j].made + 1 \in 0..MaxItems
      /\ job[j].made + 1 + Cardinality(job[j].todo \ {d}) <= MaxItems
      /\ job[j].made + Cardinality(job[j].todo \ {d}) <= MaxItems
  BY <1>0, DoneWith
<1>b. /\ q \in JobState /\ q.at = "item" /\ q.stage = "absorb" /\ q.spent = job[j].spent
      /\ q.todo = job[j].todo \ {d} /\ q.made \in {job[j].made, job[j].made + 1}
  <2>1. CASE q = Done(j, d)
    BY <2>1, <1>a
  <2>2. CASE q = [Done(j, d) EXCEPT !.made = @ + 1]
    BY <2>2, <1>a DEF JobState
  <2> QED
    BY <2>1, <2>2
<1>2. /\ q \in JobState /\ q.at = "item" /\ q.stage = "absorb" /\ q.spent = job[j].spent
      /\ q.todo = job[j].todo \ {d} /\ q.made + Cardinality(q.todo) <= MaxItems
  BY <1>a, <1>b
<1>3. /\ absorbed' \in SUBSET Docs /\ absorbed \subseteq absorbed'
      /\ UNCHANGED <<cadence, candidates, patterns, runs, history, today, count>>
  BY <1>0 DEF AbsorbItem, Types, TypeOK
<1>4. Numbers' = Numbers /\ Candidates' = Candidates
  BY <1>3 DEF Numbers, Candidates
<1>5. /\ job' \in [Jobs -> JobState] /\ job'[j] = q
      /\ \A k \in Jobs \ {j} : job'[k] = job[k]
  BY <1>0, <1>1, <1>2, Put
<1>6. JobOf(j)' /\ ~ Crystallizing(j)'
  BY <1>0, <1>2, <1>5 DEF JobOf, Crystallizing, STAGE_IDS
<1>7. JobInv'
  BY <1>3, <1>4, <1>5, <1>6, Carried DEF IInv, JobInv
<1>8. OverlapInv'
  BY <1>5, <1>6 DEF IInv, OverlapInv, Crystallizing
<1>9. Types' /\ StageInv' /\ BeatInv'
  BY <1>0, <1>3, <1>4, <1>5 DEF IInv, Types, TypeOK, count, StageInv, BeatInv
<1>. QED
  BY <1>7, <1>8, <1>9 DEF IInv

\* A distil job after a step of its own.
DistilsOn(q) ==
    /\ q \in JobState /\ q.at \in {"item", "write"} /\ q.stage = "distill"
    /\ q.spent <= MaxTokens + Slack
    /\ q.todo \subseteq absorbed
    /\ q.made + Cardinality(q.todo) <= MaxItems
    /\ q.at = "write" => q.todo # {}

LEMMA DistilsOnFine ==
    ASSUME Types, NEW j \in Jobs, NEW q, DistilsOn(q), job' = [job EXCEPT ![j] = q],
           absorbed' = absorbed
    PROVE  /\ JobOf(j)' /\ ~ Crystallizing(j)'
           /\ job' \in [Jobs -> JobState] /\ job'[j] = q
           /\ \A k \in Jobs \ {j} : job'[k] = job[k]
<1>1. /\ job' \in [Jobs -> JobState] /\ job'[j] = q
      /\ \A k \in Jobs \ {j} : job'[k] = job[k]
  BY Put DEF DistilsOn
<1>. QED
  BY <1>1 DEF DistilsOn, JobOf, Crystallizing, STAGE_IDS

\* A distil run that stops, spends, or moves on to write.
LEMMA DistillOne ==
    ASSUME Types, NEW j \in Jobs, JobOf(j), NEW d \in Docs, DistillItem(j, d)
    PROVE  \E q : DistilsOn(q) /\ job' = [job EXCEPT ![j] = q]
<1>0. /\ d \in job[j].todo /\ job[j] \in JobState /\ job[j].todo \subseteq absorbed
      /\ job[j].at = "item" /\ job[j].stage = "distill"
      /\ job[j].made + Cardinality(job[j].todo) <= MaxItems
  BY InHand DEF DistillItem, JobOf, Types
<1>a. /\ job[j].spent \in Nat /\ job[j].made \in 0..MaxItems /\ job[j].said \in SUBSET {"failed", "answered", "unreadable"}
      /\ job[j].spent <= MaxTokens + Slack
  BY <1>0 DEF JobOf, JobState
<1>b. /\ Done(j, d) \in JobState /\ Done(j, d).todo = job[j].todo \ {d}
      /\ Done(j, d).at = "item" /\ Done(j, d).stage = "distill"
      /\ Done(j, d).said = job[j].said
      /\ Done(j, d).spent = job[j].spent /\ Done(j, d).made = job[j].made
      /\ job[j].made + Cardinality(job[j].todo \ {d}) <= MaxItems
  BY <1>0, DoneWith
<1>1. CASE job' = [job EXCEPT ![j].todo = {}]
  <2> DEFINE q == [job[j] EXCEPT !.todo = {}]
  <2>1. /\ q \in JobState /\ q.at = "item" /\ q.stage = "distill"
        /\ q.spent = job[j].spent /\ q.todo = {} /\ q.made = job[j].made
    BY <1>0 DEF JobState
  <2>2. job' = [job EXCEPT ![j] = q]
    BY <1>1 DEF Types
  <2> HIDE DEF q
  <2>3. Cardinality(q.todo) = 0
    BY <2>1, FS_EmptySet
  <2>4. q.made + Cardinality(q.todo) <= MaxItems
    BY <2>1, <2>3, <1>a
  <2>5. DistilsOn(q)
    BY <2>1, <2>4, <1>a DEF DistilsOn
  <2> QED
    BY <2>2, <2>5
<1>2. CASE job' = [job EXCEPT ![j] = [Done(j, d) EXCEPT !.said = @ \cup {"failed"}]]
  <2> DEFINE q == [Done(j, d) EXCEPT !.said = @ \cup {"failed"}]
  <2>1. /\ q \in JobState /\ q.at = "item" /\ q.stage = "distill"
        /\ q.spent = job[j].spent /\ q.todo = job[j].todo \ {d} /\ q.made = job[j].made
    BY <1>a, <1>b DEF JobState
  <2>2. job' = [job EXCEPT ![j] = q]
    BY <1>2
  <2> HIDE DEF q
  <2> QED
    BY <2>1, <2>2, <1>0, <1>a, <1>b DEF DistilsOn
<1>3. ASSUME NEW c \in {0, Reserve}, job[j].spent + Reserve <= MaxTokens,
             job' = [job EXCEPT ![j] = [Done(j, d) EXCEPT !.said = @ \cup {"answered"},
                                                          !.spent = @ + c]]
      PROVE  \E q : DistilsOn(q) /\ job' = [job EXCEPT ![j] = q]
  <2> DEFINE q == [Done(j, d) EXCEPT !.said = @ \cup {"answered"}, !.spent = @ + c]
  <2>1. job[j].spent + c \in Nat /\ job[j].spent + c <= MaxTokens + Slack
    BY <1>a, <1>3
  <2>2. /\ q \in JobState /\ q.at = "item" /\ q.stage = "distill"
        /\ q.spent = job[j].spent + c /\ q.todo = job[j].todo \ {d} /\ q.made = job[j].made
    BY <1>a, <1>b, <2>1 DEF JobState
  <2>3. job' = [job EXCEPT ![j] = q]
    BY <1>3
  <2> HIDE DEF q
  <2> QED
    BY <2>1, <2>2, <2>3, <1>0, <1>b DEF DistilsOn
<1>4. ASSUME NEW c \in {Reserve, Reserve + Slack}, job[j].spent + Reserve <= MaxTokens,
             job' = [job EXCEPT ![j] = [job[j] EXCEPT !.at = "write", !.spent = @ + c]]
      PROVE  \E q : DistilsOn(q) /\ job' = [job EXCEPT ![j] = q]
  <2> DEFINE q == [job[j] EXCEPT !.at = "write", !.spent = @ + c]
  <2>1. job[j].spent + c \in Nat /\ job[j].spent + c <= MaxTokens + Slack
    BY <1>a, <1>4
  <2>2. /\ q \in JobState /\ q.at = "write" /\ q.stage = "distill"
        /\ q.spent = job[j].spent + c /\ q.todo = job[j].todo /\ q.made = job[j].made
    BY <1>0, <1>a, <2>1 DEF JobState, Work
  <2>3. job' = [job EXCEPT ![j] = q]
    BY <1>4 DEF Types
  <2> HIDE DEF q
  <2> QED
    BY <2>1, <2>2, <2>3, <1>0 DEF DistilsOn
<1>5. job[j].spent + Reserve \in Nat
  BY <1>a
<1>6. ~OverEnvelope(j) => job[j].spent + Reserve <= MaxTokens
  BY <1>5 DEF OverEnvelope
<1>. QED
  BY <1>1, <1>2, <1>3, <1>4, <1>6 DEF DistillItem

\* Its writes: a torn candidate, then a whole one, of an absorbed document.
LEMMA DistilsKeep ==
    ASSUME IInv, NEW j \in Jobs, NEW q, DistilsOn(q), job' = [job EXCEPT ![j] = q],
           NEW d \in absorbed, NEW c \in {"torn", "whole"},
           candidates' \in {candidates, [candidates EXCEPT ![d] = c]},
           UNCHANGED <<cadence, absorbed, patterns, runs, history, today, count>>
    PROVE  IInv'
<1>0. Types /\ absorbed \subseteq Docs
  BY DEF IInv, Types, TypeOK
<1>1. /\ JobOf(j)' /\ ~ Crystallizing(j)'
      /\ job' \in [Jobs -> JobState] /\ job'[j] = q
      /\ \A k \in Jobs \ {j} : job'[k] = job[k]
  BY <1>0, DistilsOnFine
<1>2. Numbers' = Numbers /\ absorbed' = absorbed
  BY DEF Numbers
<1>3. /\ candidates' \in [Docs -> {"none", "torn", "whole", "blank"}]
      /\ Candidates \subseteq Candidates' /\ Candidates' \subseteq Candidates \cup {d}
  BY <1>0 DEF Types, TypeOK, Candidates
<1>4. JobInv'
  BY <1>1, <1>2, Carried DEF IInv, JobInv
<1>5. OverlapInv'
  BY <1>1 DEF IInv, OverlapInv, Crystallizing
<1>6. StageInv'
  BY <1>2, <1>3 DEF IInv, StageInv
<1>7. Types' /\ BeatInv'
  BY <1>0, <1>1, <1>3 DEF IInv, Types, TypeOK, count, BeatInv
<1>. QED
  BY <1>4, <1>5, <1>6, <1>7 DEF IInv

LEMMA DistillKeeps ==
    ASSUME IInv, NEW j \in Jobs, NEW d \in Docs, DistillItem(j, d)
    PROVE  IInv'
<1>1. /\ Types /\ JobOf(j)
  BY DEF IInv, JobInv
<1>2. d \in absorbed
  BY <1>1, InHand DEF DistillItem, JobOf
<1>3. /\ candidates' \in {candidates, [candidates EXCEPT ![d] = "torn"]}
      /\ UNCHANGED <<cadence, absorbed, patterns, runs, history, today, count>>
  BY DEF DistillItem
<1>. QED
  BY <1>1, <1>2, <1>3, DistillOne, DistilsKeep

LEMMA WriteKeeps ==
    ASSUME IInv, NEW j \in Jobs, _write_candidate(j)
    PROVE  IInv'
<1> DEFINE d == Min(job[j].todo)
           q == [Done(j, d) EXCEPT !.at = "item", !.made = @ + 1, !.said = @ \cup {"answered"}]
<1>1. /\ Types /\ JobOf(j) /\ job[j].at = "write"
      /\ candidates' = [candidates EXCEPT ![d] = "whole"] /\ job' = [job EXCEPT ![j] = q]
      /\ UNCHANGED <<cadence, absorbed, patterns, runs, history, today, count>>
  BY DEF IInv, JobInv, _write_candidate
<1>2. /\ job[j].stage = "distill" /\ job[j].todo # {} /\ job[j].todo \subseteq absorbed
      /\ d \in job[j].todo /\ d \in absorbed /\ job[j].spent <= MaxTokens + Slack
  BY <1>1, AtHand DEF JobOf
<1> HIDE DEF d
<1>3. /\ Done(j, d) \in JobState
      /\ Done(j, d).todo = job[j].todo \ {d} /\ Done(j, d).at = job[j].at
      /\ Done(j, d).stage = job[j].stage /\ Done(j, d).said = job[j].said
      /\ Done(j, d).spent = job[j].spent /\ Done(j, d).made = job[j].made
      /\ job[j].made + 1 \in 0..MaxItems
      /\ job[j].made + 1 + Cardinality(job[j].todo \ {d}) <= MaxItems
  BY <1>1, <1>2, DoneWith
<1>4. /\ q \in JobState /\ q.at = "item" /\ q.stage = "distill"
      /\ q.spent = job[j].spent /\ q.todo = job[j].todo \ {d} /\ q.made = job[j].made + 1
  BY <1>2, <1>3 DEF JobState, Work
<1> HIDE DEF q
<1>5. DistilsOn(q)
  BY <1>2, <1>3, <1>4 DEF DistilsOn
<1>. QED
  BY <1>1, <1>2, <1>5, DistilsKeep

\* A number that is given was above every pattern: what another run on file
\* overlapped is left to the mark.
LEMMA CrystallizeKeeps ==
    ASSUME IInv, NEW j \in Jobs, NEW d \in Docs, CrystallizeItem(j, d)
    PROVE  IInv'
<1>0. /\ Types /\ JobOf(j) /\ d \in job[j].todo
      /\ job[j].at = "item" /\ job[j].stage = "crystallize" /\ Crystallizing(j)
      /\ job[j] \in JobState /\ job[j].number \in Nat
      /\ job[j].said \in SUBSET {"failed", "answered", "unreadable"}
      /\ job[j].made \in 0..MaxItems
  BY InHand DEF IInv, JobInv, CrystallizeItem, Crystallizing, Types, JobState
<1>a. /\ Done(j, d) \in JobState /\ Done(j, d).todo = job[j].todo \ {d}
      /\ Done(j, d).at = "item" /\ Done(j, d).stage = "crystallize"
      /\ Done(j, d).spent = job[j].spent /\ Done(j, d).made = job[j].made
      /\ Done(j, d).said = job[j].said
      /\ Done(j, d).number = job[j].number /\ Done(j, d).overlap = job[j].overlap
      /\ job[j].made + 1 \in 0..MaxItems
      /\ job[j].made + 1 + Cardinality(job[j].todo \ {d}) <= MaxItems
      /\ job[j].made + Cardinality(job[j].todo \ {d}) <= MaxItems
  BY <1>0, DoneWith
<1>b. /\ UNCHANGED <<cadence, absorbed, candidates, runs, history, today, count>>
      /\ Candidates' = Candidates /\ absorbed' = absorbed
  BY DEF CrystallizeItem, Candidates
<1>c. /\ candidates \in [Docs -> {"none", "torn", "whole", "blank"}]
      /\ patterns \in [1..MaxCryst -> Docs \cup {NoDoc}] /\ d \in Docs /\ d # NoDoc
  BY <1>0 DEF Types, TypeOK, Docs, NoDoc
<1>d. PICK q : /\ job' = [job EXCEPT ![j] = q] /\ q \in JobState
               /\ q.at = "item" /\ q.stage = "crystallize" /\ q.overlap = job[j].overlap
               /\ q.spent = job[j].spent /\ q.made + Cardinality(q.todo) <= MaxItems
               /\ \/ patterns' = patterns /\ q.number = job[j].number
                  \/ /\ candidates[d] = "whole" /\ job[j].number <= MaxCryst
                     /\ patterns' = [patterns EXCEPT ![job[j].number] = d]
                     /\ q.number = job[j].number + 1
  <2>1. CASE /\ job' = [job EXCEPT ![j] = [Done(j, d) EXCEPT !.said = @ \cup {"unreadable"}]]
             /\ UNCHANGED patterns
    <3> DEFINE q == [Done(j, d) EXCEPT !.said = @ \cup {"unreadable"}]
    <3>1. /\ q \in JobState /\ q.at = "item" /\ q.stage = "crystallize"
          /\ q.overlap = job[j].overlap /\ q.number = job[j].number
          /\ q.spent = job[j].spent /\ q.todo = job[j].todo \ {d} /\ q.made = job[j].made
      BY <1>0, <1>a DEF JobState
    <3>2. job' = [job EXCEPT ![j] = q]
      BY <2>1
    <3> HIDE DEF q
    <3> QED
      BY <2>1, <3>1, <3>2, <1>a
  <2>2. CASE job' = [job EXCEPT ![j] = Done(j, d)] /\ UNCHANGED patterns
    BY <2>2, <1>a
  <2>3. CASE /\ candidates[d] = "whole" /\ job[j].number <= MaxCryst
             /\ patterns' = [patterns EXCEPT ![job[j].number] = d]
             /\ job' = [job EXCEPT ![j] = [Done(j, d) EXCEPT !.made = @ + 1, !.number = @ + 1]]
    <3> DEFINE q == [Done(j, d) EXCEPT !.made = @ + 1, !.number = @ + 1]
               m == job[j].made + 1
               n == job[j].number + 1
    <3>a. /\ q = [Done(j, d) EXCEPT !.made = m, !.number = n]
          /\ m \in 0..MaxItems /\ n \in Nat /\ m = job[j].made + 1 /\ n = job[j].number + 1
      BY <1>0, <1>a
    <3>b. job' = [job EXCEPT ![j] = q]
      BY <2>3
    <3> HIDE DEF q, m, n
    <3>c. /\ q \in JobState /\ q.at = "item" /\ q.stage = "crystallize"
          /\ q.overlap = job[j].overlap /\ q.number = n
          /\ q.spent = job[j].spent /\ q.todo = job[j].todo \ {d} /\ q.made = m
      BY <3>a, <1>a DEF JobState
    <3>1. /\ q \in JobState /\ q.at = "item" /\ q.stage = "crystallize"
          /\ q.overlap = job[j].overlap /\ q.number = job[j].number + 1
          /\ q.spent = job[j].spent /\ q.todo = job[j].todo \ {d} /\ q.made = job[j].made + 1
      BY <3>a, <3>c
    <3> QED
      BY <2>3, <3>1, <3>b, <1>a
  <2> QED
    BY <2>1, <2>2, <2>3 DEF CrystallizeItem
<1>1. /\ job' \in [Jobs -> JobState] /\ job'[j] = q
      /\ \A k \in Jobs \ {j} : job'[k] = job[k]
  BY <1>0, <1>d, Put
<1>2. /\ patterns' \in [1..MaxCryst -> Docs \cup {NoDoc}]
      /\ \A n \in Numbers' : \/ n \in Numbers /\ patterns'[n] = patterns[n]
                             \/ n = job[j].number /\ patterns'[n] = d /\ d \in Candidates
                                /\ q.number = job[j].number + 1
  BY <1>c, <1>d DEF Numbers, Candidates
<1>3. JobOf(j)'
  <2>1. /\ job'[j].at = "item" /\ job'[j].stage = "crystallize"
        /\ job'[j].overlap = job[j].overlap
        /\ job'[j].spent <= MaxTokens + Slack
        /\ job'[j].made + Cardinality(job'[j].todo) <= MaxItems
    BY <1>0, <1>1, <1>d DEF JobOf
  <2>2. ASSUME ~ job[j].overlap, NEW n \in Numbers' PROVE n < job'[j].number
    <3>1. \A m \in Numbers : m < job[j].number /\ m \in Nat
      BY <1>0, <2>2 DEF JobOf, Numbers
    <3>2. q.number \in {job[j].number, job[j].number + 1}
      BY <1>d
    <3> QED
      BY <1>0, <1>1, <1>2, <3>1, <3>2
  <2> QED
    BY <2>1, <2>2 DEF JobOf, Crystallizing, STAGE_IDS
<1>4. ASSUME NEW k \in Jobs \ {j} PROVE JobOf(k)'
  <2>1. JobOf(k) /\ job'[k] = job[k] /\ absorbed' = absorbed
    BY <1>1, <1>b DEF IInv, JobInv
  <2>2. Crystallizing(k) => job[k].overlap
    BY <1>0 DEF IInv, OverlapInv
  <2> QED
    BY <2>1, <2>2 DEF JobOf, Crystallizing
<1>5. OverlapInv'
  BY <1>0, <1>1, <1>d DEF IInv, OverlapInv, Crystallizing
<1>6. StageInv'
  BY <1>2, <1>b DEF IInv, StageInv
<1>7. Types' /\ BeatInv'
  BY <1>0, <1>1, <1>2, <1>b DEF IInv, Types, TypeOK, count, BeatInv
<1>. QED
  BY <1>3, <1>4, <1>5, <1>6, <1>7 DEF IInv, JobInv

\* A job that has listed, or has something to say, has a stage to say it of.
LEMMA RowFine ==
    ASSUME Types, NEW j \in Jobs, job[j].stage \in STAGE_IDS,
           NEW v \in Verdicts, NEW made \in 0..MaxItems
    PROVE  /\ Row(j, v, made) \in JobState
           /\ Row(j, v, made).at = "append" /\ Row(j, v, made).stage \in STAGE_IDS
           /\ Row(j, v, made).spent = 0
<1>1. Idle \in JobState /\ Idle.spent = 0
  BY IdleType DEF Idle
<1>. QED
  BY <1>1 DEF Row, JobState, Work

\* A job that ends, in whatever it has to append, or in nothing.
LEMMA EndsKeep ==
    ASSUME IInv, NEW j \in Jobs, NEW q \in JobState, job' = [job EXCEPT ![j] = q],
           q.at \in {"idle", "append"}, q.spent = 0,
           q.at = "append" => q.stage \in STAGE_IDS,
           Still, begun' \in 0..MaxJobs, upsets' \in 0..MaxUpsets
    PROVE  IInv'
<1>1. job'[j] = q
  BY Put DEF IInv
<1>2. JobOf(j)' /\ ~ Crystallizing(j)'
  BY <1>1 DEF JobOf, Crystallizing
<1>. QED
  BY <1>2, OneMoves

LEMMA Counts ==
    ASSUME IInv
    PROVE  /\ UNCHANGED count => begun' \in 0..MaxJobs /\ upsets' \in 0..MaxUpsets
           /\ UNCHANGED begun /\ Upset => begun' \in 0..MaxJobs /\ upsets' \in 0..MaxUpsets
BY DEF IInv, Types, TypeOK, count, Upset

LEMMA FinishKeeps ==
    ASSUME IInv, NEW j \in Jobs, Finish(j)
    PROVE  IInv'
<1>1. /\ Types /\ job[j].stage \in STAGE_IDS /\ job[j].made \in 0..MaxItems
      /\ job' = [job EXCEPT ![j] = Graded(j)] /\ Still
      /\ begun' \in 0..MaxJobs /\ upsets' \in 0..MaxUpsets
  BY Counts DEF IInv, JobInv, JobOf, Finish, Types, JobState, Still
<1>2. \E v \in Verdicts, made \in 0..MaxItems : Graded(j) = Row(j, v, made)
  <2>1. CASE WorkerRaises(j)
    BY <2>1 DEF Graded, Verdicts
  <2>2. CASE ~WorkerRaises(j) /\ job[j].made > 0
    BY <2>2, <1>1 DEF Graded, Verdicts
  <2>3. CASE ~WorkerRaises(j) /\ ~(job[j].made > 0)
    <3>1. Graded(j) = Row(j, IF cadence[job[j].stage].on_empty = "halt" THEN "HALT" ELSE "WARN", 0)
      BY <2>3 DEF Graded
    <3> QED
      BY <3>1 DEF Verdicts
  <2> QED
    BY <2>1, <2>2, <2>3
<1>3. PICK v \in Verdicts, made \in 0..MaxItems : Graded(j) = Row(j, v, made)
  BY <1>2
<1> DEFINE q == Row(j, v, made)
<1>4. /\ q \in JobState /\ q.at = "append" /\ q.stage \in STAGE_IDS /\ q.spent = 0
      /\ job' = [job EXCEPT ![j] = q]
  BY <1>1, <1>3, RowFine
<1> HIDE DEF q
<1>. QED
  BY <1>1, <1>4, EndsKeep

LEMMA RaiseKeeps ==
    ASSUME IInv, NEW j \in Jobs, Raise(j)
    PROVE  IInv'
<1>1. /\ Types /\ job[j].stage \in STAGE_IDS
      /\ job' = [job EXCEPT ![j] = Row(j, "DEGRADED", 0)] /\ Still
      /\ begun' \in 0..MaxJobs /\ upsets' \in 0..MaxUpsets
  <2>1. job' = [job EXCEPT ![j] = Row(j, "DEGRADED", 0)] /\ Still
    BY DEF Raise, Still
  <2>2. begun' \in 0..MaxJobs /\ upsets' \in 0..MaxUpsets
    BY Counts DEF Raise
  <2>3. Types /\ job[j].stage \in STAGE_IDS
    BY DEF IInv, JobInv, JobOf, Raise
  <2> QED
    BY <2>1, <2>2, <2>3
<1>2. "DEGRADED" \in Verdicts /\ 0 \in 0..MaxItems
  BY BoundAssumption, EnvelopeAssumption DEF Verdicts
<1> DEFINE q == Row(j, "DEGRADED", 0)
<1>3. q \in JobState /\ q.at = "append" /\ q.stage \in STAGE_IDS /\ q.spent = 0
  BY <1>1, <1>2, RowFine
<1>4. job' = [job EXCEPT ![j] = q]
  BY <1>1
<1> HIDE DEF q
<1>. QED
  BY <1>1, <1>3, <1>4, EndsKeep

LEMMA CrashKeeps ==
    ASSUME IInv, NEW j \in Jobs, Crash(j)
    PROVE  IInv'
<1>1. job' = [job EXCEPT ![j] = Idle] /\ Still /\ begun' \in 0..MaxJobs /\ upsets' \in 0..MaxUpsets
  BY Counts DEF Crash, Still
<1>2. Idle.at = "idle" /\ Idle.spent = 0
  BY DEF Idle
<1>. QED
  BY <1>1, <1>2, IdleType, EndsKeep

\* The ledger's rows raise no other question than their type.
LEMMA AppendKeeps ==
    ASSUME IInv, NEW j \in Jobs, append_run(j)
    PROVE  IInv'
<1>1. /\ Types /\ job[j].stage \in STAGE_IDS /\ job[j].verdict \in Verdicts
      /\ job[j].made \in 0..MaxItems /\ job' = [job EXCEPT ![j] = Idle]
      /\ UNCHANGED <<cadence, absorbed, candidates, patterns, history, today, count>>
  BY DEF IInv, JobInv, JobOf, append_run, Types, JobState
<1>2. runs' \subseteq [stage: STAGE_IDS, verdict: Verdicts, produced: 0..MaxItems]
  BY <1>1 DEF append_run, Types, TypeOK
<1>3. /\ job' \in [Jobs -> JobState] /\ job'[j] = Idle
      /\ \A k \in Jobs \ {j} : job'[k] = job[k]
  BY <1>1, IdleType, Put
<1>4. Numbers' = Numbers /\ Candidates' = Candidates /\ absorbed' = absorbed
  BY <1>1 DEF Numbers, Candidates
<1>5. JobInv'
  <2>1. JobOf(j)'
    BY <1>3, IdleFine DEF JobOf, Crystallizing, Idle
  <2> QED
    BY <2>1, <1>3, <1>4, Carried DEF IInv, JobInv
<1>6. OverlapInv'
  BY <1>3 DEF IInv, OverlapInv, Crystallizing, Idle
<1>7. Types' /\ StageInv' /\ BeatInv'
  BY <1>1, <1>2, <1>3, <1>4 DEF IInv, Types, TypeOK, count, StageInv, BeatInv
<1>. QED
  BY <1>5, <1>6, <1>7 DEF IInv

----------------------------------------------------------------------------
(* The heartbeat and the operator                                          *)

LEMMA CollectKeeps ==
    ASSUME IInv, NEW j \in Jobs, Collect(j)
    PROVE  IInv'
<1>1. PICK lost \in SUBSET COUNTABLES :
          job' = [job EXCEPT ![j] = [Idle EXCEPT !.at = "beat", !.date = today,
                    !.counts = [k \in COUNTABLES |->
                       IF k \in lost THEN 0
                       ELSE IF k = "absorbed" THEN Cardinality(absorbed)
                       ELSE Cardinality(Numbers)]]]
  BY DEF Collect
<1> DEFINE c == [k \in COUNTABLES |-> IF k \in lost THEN 0
                    ELSE IF k = "absorbed" THEN Cardinality(absorbed) ELSE Cardinality(Numbers)]
           q == [Idle EXCEPT !.at = "beat", !.date = today, !.counts = c]
<1>2. c \in [COUNTABLES -> Nat]
  BY DocsFinite, NumbersFinite DEF IInv, Types, TypeOK
<1>3. job' = [job EXCEPT ![j] = q]
  BY <1>1
<1> HIDE DEF c
<1>4. today \in 1..MaxDate
  BY DEF IInv, Types, TypeOK
<1>5. q \in JobState /\ q.at = "beat" /\ q.date # 0 /\ q.spent = 0
  <2>1. Idle \in JobState /\ Idle.spent = 0
    BY IdleType DEF Idle
  <2>2. today \in 0..MaxDate /\ today # 0 /\ "beat" \in Work
    BY <1>4 DEF Work
  <2> HIDE DEF q
  <2>3. q = [Idle EXCEPT !.at = "beat", !.date = today, !.counts = c]
    BY DEF q
  <2> QED
    BY <2>1, <2>2, <2>3, <1>2 DEF JobState
<1> HIDE DEF q
<1>6. job'[j] = q
  BY <1>3, <1>5, Put DEF IInv
<1>7. JobOf(j)' /\ ~ Crystallizing(j)'
  BY <1>5, <1>6 DEF JobOf, Crystallizing
<1>8. Still /\ begun' \in 0..MaxJobs /\ upsets' \in 0..MaxUpsets
  BY DEF Collect, Still, Upset, IInv, Types, TypeOK
<1>. QED
  BY <1>3, <1>5, <1>7, <1>8, OneMoves

\* What a reading is appended to is the reading its deltas are against.
LEMMA BeatKeeps ==
    ASSUME IInv, NEW j \in Jobs, append_reading(j)
    PROVE  IInv'
<1> DEFINE r == [date |-> job[j].date, counts |-> job[j].counts,
                 deltas |-> [k \in COUNTABLES |-> job[j].counts[k] - Previous(k)]]
<1>0. /\ Types /\ history \in Seq(Reading) /\ history' = Append(history, r)
      /\ job[j].date \in 1..MaxDate /\ job[j].counts \in [COUNTABLES -> Nat]
      /\ job' = [job EXCEPT ![j] = Idle]
      /\ UNCHANGED <<cadence, absorbed, candidates, patterns, runs, today, count>>
  <2>1. Types /\ JobOf(j) /\ job[j] \in JobState /\ history \in Seq(Reading)
    BY DEF IInv, JobInv, Types, TypeOK
  <2>2. /\ job[j].at = "beat" /\ history' = Append(history, r)
        /\ job' = [job EXCEPT ![j] = Idle]
        /\ UNCHANGED <<cadence, absorbed, candidates, patterns, runs, today, count>>
    BY DEF append_reading
  <2>3. job[j].date \in 1..MaxDate /\ job[j].counts \in [COUNTABLES -> Nat]
    BY <2>1, <2>2, BoundAssumption DEF JobOf, JobState
  <2>. QED
    BY <2>1, <2>2, <2>3
<1>1. \A k \in COUNTABLES : Previous(k) \in Int
  <2>1. CASE history = <<>>
    BY <2>1 DEF Previous
  <2>2. CASE history # <<>>
    <3>1. Len(history) \in DOMAIN history /\ history[Len(history)] \in Reading
      BY <2>2, <1>0
    <3> QED
      BY <2>2, <3>1 DEF Previous, Reading
  <2> QED
    BY <2>1, <2>2
<1>2. r \in Reading /\ r.counts = job[j].counts
      /\ \A k \in COUNTABLES : r.deltas[k] = r.counts[k] - Previous(k)
  BY <1>0, <1>1 DEF Reading
<1> HIDE DEF r
<1>3. /\ history' \in Seq(Reading) /\ Len(history') = Len(history) + 1 /\ Len(history) \in Nat
      /\ history'[Len(history) + 1] = r
      /\ \A i \in 1..Len(history) : history'[i] = history[i]
      /\ DOMAIN history' = 1..(Len(history) + 1) /\ DOMAIN history = 1..Len(history)
  BY <1>0, <1>2, AppendProperties
<1>4. BeatInv'
  <2> SUFFICES ASSUME NEW i \in DOMAIN history', NEW k \in COUNTABLES
               PROVE  history'[i].deltas[k] =
                        history'[i].counts[k] - IF i = 1 THEN 0 ELSE history'[i - 1].counts[k]
    BY DEF BeatInv
  <2>1. CASE i \in DOMAIN history
    <3>1. i # 1 => i - 1 \in 1..Len(history)
      BY <2>1, <1>3
    <3> QED
      BY <2>1, <3>1, <1>3 DEF IInv, BeatInv
  <2>2. CASE i = Len(history) + 1
    <3>1. Previous(k) = IF i = 1 THEN 0 ELSE history'[i - 1].counts[k]
      <4>1. CASE history = <<>>
        BY <4>1, <2>2, <1>3 DEF Previous
      <4>2. CASE history # <<>>
        <5>1. Len(history) # 0 /\ i # 1 /\ i - 1 = Len(history) /\ i - 1 \in 1..Len(history)
          BY <4>2, <2>2, <1>0, <1>3
        <5> QED
          BY <4>2, <5>1, <1>3 DEF Previous
      <4> QED
        BY <4>1, <4>2
    <3> QED
      BY <2>2, <3>1, <1>2, <1>3
  <2> QED
    BY <2>1, <2>2, <1>3
<1>5. /\ job' \in [Jobs -> JobState] /\ job'[j] = Idle
      /\ \A k \in Jobs \ {j} : job'[k] = job[k]
  BY <1>0, IdleType, Put
<1>6. Numbers' = Numbers /\ Candidates' = Candidates /\ absorbed' = absorbed
  BY <1>0 DEF Numbers, Candidates
<1>7. JobInv'
  <2>1. JobOf(j)'
    BY <1>5, IdleFine DEF JobOf, Crystallizing, Idle
  <2> QED
    BY <2>1, <1>5, <1>6, Carried DEF IInv, JobInv
<1>8. OverlapInv'
  BY <1>5 DEF IInv, OverlapInv, Crystallizing, Idle
<1>9. Types' /\ StageInv'
  BY <1>0, <1>3, <1>5, <1>6 DEF IInv, Types, TypeOK, count, StageInv
<1>. QED
  BY <1>4, <1>7, <1>8, <1>9 DEF IInv

\* Nobody at work moves: a date passes, or the operator touches the corpus.
LEMMA OthersKeep ==
    ASSUME IInv, UNCHANGED <<cadence, absorbed, runs, history, job, begun>>,
           today' \in 1..MaxDate, upsets' \in 0..MaxUpsets,
           candidates' \in [Docs -> {"none", "torn", "whole", "blank"}],
           Candidates' = Candidates,
           patterns' \in [1..MaxCryst -> Docs \cup {NoDoc}],
           Numbers' \subseteq Numbers, \A n \in Numbers' : patterns'[n] = patterns[n]
    PROVE  IInv'
<1>1. JobInv'
  BY Carried DEF IInv, JobInv
<1>2. OverlapInv' /\ StageInv' /\ BeatInv'
  BY DEF IInv, OverlapInv, Crystallizing, StageInv, BeatInv
<1>3. Types'
  BY DEF IInv, Types, TypeOK
<1>. QED
  BY <1>1, <1>2, <1>3 DEF IInv

LEMMA MidnightKeeps == IInv /\ Midnight => IInv'
<1> SUFFICES ASSUME IInv, Midnight PROVE IInv'
  OBVIOUS
<1>1. /\ UNCHANGED <<cadence, absorbed, candidates, patterns, runs, history, job, count>>
      /\ today' \in 1..MaxDate /\ Types
  BY DEF Midnight, stores, IInv, Types, TypeOK
<1>2. Candidates' = Candidates /\ Numbers' = Numbers
  BY <1>1 DEF Candidates, Numbers
<1>3. upsets' \in 0..MaxUpsets /\ candidates' \in [Docs -> {"none", "torn", "whole", "blank"}]
      /\ patterns' \in [1..MaxCryst -> Docs \cup {NoDoc}]
  BY <1>1 DEF Types, TypeOK, count
<1>. QED
  BY <1>1, <1>2, <1>3, OthersKeep DEF count

LEMMA EditKeeps ==
    ASSUME IInv, NEW d \in Docs, EditCandidate(d)
    PROVE  IInv'
<1>1. /\ UNCHANGED <<cadence, absorbed, patterns, runs, history, today, job, begun>>
      /\ candidates[d] = "whole" /\ candidates' = [candidates EXCEPT ![d] = "blank"] /\ Types
      /\ upsets' \in 0..MaxUpsets
  BY DEF EditCandidate, Upset, IInv, Types, TypeOK
<1>2. Candidates' = Candidates /\ Numbers' = Numbers
      /\ candidates' \in [Docs -> {"none", "torn", "whole", "blank"}]
  BY <1>1 DEF Candidates, Numbers, Types, TypeOK
<1>3. patterns' \in [1..MaxCryst -> Docs \cup {NoDoc}] /\ today' \in 1..MaxDate
  BY <1>1 DEF Types, TypeOK
<1>. QED
  BY <1>1, <1>2, <1>3, OthersKeep

LEMMA RetireKeeps ==
    ASSUME IInv, NEW n \in 1..MaxCryst, Retire(n)
    PROVE  IInv'
<1>1. /\ UNCHANGED <<cadence, absorbed, candidates, runs, history, today, job, begun>>
      /\ patterns' = [patterns EXCEPT ![n] = NoDoc] /\ Types
      /\ upsets' \in 0..MaxUpsets
  BY DEF Retire, Upset, IInv, Types, TypeOK
<1>2. /\ Candidates' = Candidates /\ Numbers' \subseteq Numbers
      /\ patterns' \in [1..MaxCryst -> Docs \cup {NoDoc}]
      /\ \A m \in Numbers' : patterns'[m] = patterns[m]
  BY <1>1 DEF Candidates, Numbers, Types, TypeOK
<1>3. today' \in 1..MaxDate /\ candidates' \in [Docs -> {"none", "torn", "whole", "blank"}]
  BY <1>1 DEF Types, TypeOK
<1>. QED
  BY <1>1, <1>2, <1>3, OthersKeep

LEMMA NextIInv == IInv /\ [Next]_vars => IInv'
<1> SUFFICES ASSUME IInv, [Next]_vars PROVE IInv'
  OBVIOUS
<1>1. CASE UNCHANGED vars
  <2>1. UNCHANGED <<cadence, absorbed, candidates, patterns, runs, history, today, job, begun, upsets>>
    BY <1>1 DEF vars, stores, count
  <2>2. Candidates' = Candidates /\ Numbers' = Numbers
    BY <2>1 DEF Candidates, Numbers
  <2> QED
    BY <2>1, <2>2, OthersKeep DEF IInv, Types, TypeOK
<1>2. ASSUME NEW j \in Jobs,
             \/ \E s \in STAGE_IDS : Begin(j, s)
             \/ List(j)
             \/ \E d \in Docs : AbsorbItem(j, d) \/ DistillItem(j, d) \/ CrystallizeItem(j, d)
             \/ _write_candidate(j)
             \/ Finish(j) \/ Raise(j) \/ append_run(j) \/ Crash(j)
             \/ Collect(j) \/ append_reading(j)
      PROVE  IInv'
  BY <1>2, BeginKeeps, ListKeeps, AbsorbKeeps, DistillKeeps, CrystallizeKeeps, WriteKeeps,
     FinishKeeps, RaiseKeeps, AppendKeeps, CrashKeeps, CollectKeeps, BeatKeeps
<1>. QED
  BY <1>1, <1>2, MidnightKeeps, EditKeeps, RetireKeeps DEF Next

LEMMA AlwaysIInv == Spec => []IInv
<1>. QED
  BY InitIInv, NextIInv, PTL DEF Spec

----------------------------------------------------------------------------
(* The theorems about the metabolism                                       *)

LEMMA IInvAncestry == IInv => PatternHasAncestry
BY DEF IInv, StageInv, PatternHasAncestry

LEMMA IInvSpend == IInv => SpendWithinEnvelope
BY DEF IInv, JobInv, JobOf, SpendWithinEnvelope

LEMMA IInvKept ==
    ASSUME IInv, [Next]_vars, NEW n \in 1..MaxCryst,
           patterns[n] # NoDoc, patterns'[n] \notin {patterns[n], NoDoc}
    PROVE  \E j \in Jobs : job[j].overlap
<1>1. ASSUME NEW j \in Jobs, NEW d \in Docs, CrystallizeItem(j, d)
      PROVE  \E k \in Jobs : job[k].overlap
  <2>1. /\ Types /\ JobOf(j) /\ Crystallizing(j) /\ job[j].number \in Nat
        /\ patterns \in [1..MaxCryst -> Docs \cup {NoDoc}]
    BY <1>1, InHand DEF IInv, JobInv, CrystallizeItem, Crystallizing, Types, TypeOK, JobState
  <2>2. patterns' = [patterns EXCEPT ![job[j].number] = d]
    BY <1>1 DEF CrystallizeItem
  <2>3. n = job[j].number /\ n \in Numbers
    BY <2>1, <2>2 DEF Numbers
  <2>4. job[j].overlap \in BOOLEAN
    BY <2>1 DEF Types, JobState
  <2>5. ~(\A m \in Numbers : m < job[j].number)
    BY <2>1, <2>3
  <2> QED
    BY <2>1, <2>4, <2>5 DEF JobOf
<1>2. CASE patterns' = patterns
  BY <1>2
<1>3. CASE \E k \in 1..MaxCryst : Retire(k)
  <2>1. PICK k \in 1..MaxCryst : patterns' = [patterns EXCEPT ![k] = NoDoc]
    BY <1>3 DEF Retire
  <2> QED
    BY <2>1 DEF IInv, Types, TypeOK
<1>4. ASSUME NEW j \in Jobs,
             \/ \E s \in STAGE_IDS : Begin(j, s)
             \/ List(j)
             \/ \E d \in Docs : AbsorbItem(j, d) \/ DistillItem(j, d)
             \/ _write_candidate(j)
             \/ Finish(j) \/ Raise(j) \/ append_run(j) \/ Crash(j)
             \/ Collect(j) \/ append_reading(j)
      PROVE  patterns' = patterns
  BY <1>4 DEF Begin, List, AbsorbItem, DistillItem, _write_candidate, Finish, Raise,
              append_run, Crash, Collect, append_reading, stores
<1>5. ASSUME Midnight \/ UNCHANGED vars \/ \E d \in Docs : EditCandidate(d)
      PROVE  patterns' = patterns
  BY <1>5 DEF Midnight, vars, stores, EditCandidate
<1>. QED
  BY <1>1, <1>2, <1>3, <1>4, <1>5 DEF Next

\* The readings in date order, the window of the dates that count and the
\* readings of one date: a date after the first of the window has its last
\* reading after another of the window, so its delta is nought.
LEMMA IInvFlatline == IInv => FlatlineIsSeen
<1> DEFINE window == {d \in Dates : Cardinality({e \in Dates : e > d}) <= FlatlineDays}
           D(i) == history[i].date
           Flat == {d \in Dates : \A e \in Dates : e >= d => LastOf(e).deltas["crystallized"] = 0}
<1> SUFFICES ASSUME IInv,
                    \A i, k \in DOMAIN history : i < k => history[i].date <= history[k].date,
                    Cardinality(window) = FlatlineDays + 1,
                    \A i, k \in DOMAIN history :
                        history[i].date \in window /\ history[k].date \in window
                        => history[i].counts["crystallized"] = history[k].counts["crystallized"]
             PROVE  Cardinality(Flat) >= FlatlineDays
  BY DEF FlatlineIsSeen, promotion_flatline, _trailing_zero_dates
<1>1. /\ history \in Seq(Reading) /\ DOMAIN history = 1..Len(history) /\ Len(history) \in Nat
      /\ \A i \in DOMAIN history : D(i) \in 1..MaxDate /\ history[i] \in Reading
      /\ \A i \in DOMAIN history : history[i].counts["crystallized"] \in Int
  <2>1. history \in Seq(Reading) /\ DOMAIN history = 1..Len(history) /\ Len(history) \in Nat
    BY DEF IInv, Types, TypeOK
  <2>2. \A i \in DOMAIN history : history[i] \in Reading
    BY <2>1
  <2>3. \A r \in Reading : r.date \in 1..MaxDate /\ r.counts["crystallized"] \in Int
    BY DEF Reading, COUNTABLES
  <2> QED
    BY <2>1, <2>2, <2>3
<1>2. Dates \in SUBSET Int /\ IsFiniteSet(Dates)
  <2>0. Dates \subseteq 1..MaxDate
    BY <1>1 DEF Dates
  <2>1. IsFiniteSet(1..MaxDate) /\ Dates \subseteq 1..MaxDate
    BY <2>0, FS_Interval
  <2>2. IsFiniteSet(Dates)
    BY <2>1, FS_Subset
  <2> QED
    BY <2>1, <2>2
<1>3. window \in SUBSET Dates /\ window \in SUBSET Int /\ IsFiniteSet(window) /\ window # {}
  <2>1. window \in SUBSET Dates
    OBVIOUS
  <2>2. IsFiniteSet(window)
    BY <2>1, <1>2, FS_Subset
  <2>a. Cardinality(window) # 0
    OBVIOUS
  <2>3. window # {}
    <3> HIDE DEF window
    <3> QED
      BY <2>a, FS_EmptySet
  <2> QED
    BY <2>1, <2>2, <2>3, <1>2
<1>4. \A d \in window : \A e \in Dates : e >= d => e \in window
  <2> SUFFICES ASSUME NEW d \in window, NEW e \in Dates, e >= d
               PROVE  Cardinality({x \in Dates : x > e}) <= FlatlineDays
    OBVIOUS
  <2> DEFINE A == {x \in Dates : x > e}
             B == {x \in Dates : x > d}
  <2>0. d \in Int /\ e \in Int /\ \A x \in Dates : x \in Int
    BY <1>2, <1>3
  <2>1. A \subseteq B
    <3>1. \A x \in Dates : x > e => x > d
      BY <2>0
    <3> QED
      BY <3>1
  <2>2. IsFiniteSet(B)
    BY <1>2, FS_Subset
  <2>3. /\ Cardinality(A) <= Cardinality(B)
        /\ Cardinality(A) \in Nat /\ Cardinality(B) \in Nat
    BY <2>1, <2>2, FS_Subset, FS_CardinalityType
  <2>4. Cardinality(B) <= FlatlineDays
    OBVIOUS
  <2> HIDE DEF A, B
  <2>5. Cardinality(A) <= FlatlineDays
    BY <2>3, <2>4
  <2> QED
    BY <2>5 DEF A
<1> DEFINE m == Min(window)
<1>5. m \in window /\ \A e \in window : m <= e /\ e \in Int
  BY <1>3, MinExists
<1> HIDE DEF m, window
<1>6. PICK a \in DOMAIN history : D(a) = m
  BY <1>3, <1>5 DEF Dates
<1>7. ASSUME NEW e \in Dates, e > m
      PROVE  LastOf(e).deltas["crystallized"] = 0
  <2> DEFINE S == {i \in DOMAIN history : history[i].date = e}
             i == Max(S)
  <2>1. S \in SUBSET Int /\ IsFiniteSet(S) /\ S # {}
    <3>1. IsFiniteSet(1..Len(history)) /\ S \subseteq 1..Len(history)
      BY <1>1, FS_Interval
    <3>2. IsFiniteSet(S)
      BY <3>1, FS_Subset
    <3>3. S # {}
      BY DEF Dates
    <3> QED
      BY <3>1, <3>2, <3>3
  <2>2. i \in DOMAIN history /\ D(i) = e /\ LastOf(e) = history[i]
    BY <2>1, MaxExists DEF LastOf
  <2> HIDE DEF i, S
  <2>3. a < i
    <3>1. e \in Int /\ m \in Int /\ a \in Int /\ i \in Int
      BY <1>1, <1>2, <1>3, <1>5, <2>2
    <3>2. ~(i < a) /\ i # a
      BY <3>1, <1>6, <1>7, <2>2
    <3> QED
      BY <3>1, <3>2
  <2>4. i # 1 /\ i - 1 \in DOMAIN history /\ (a < i - 1 \/ a = i - 1)
    BY <1>1, <2>2, <2>3
  <2>5. D(i - 1) \in Dates /\ D(i - 1) >= m /\ m \in window
    <3>1. D(a) <= D(i - 1)
      <4>1. CASE a < i - 1
        BY <4>1, <2>4
      <4>2. CASE a = i - 1
        BY <4>2, <1>1
      <4> QED
        BY <4>1, <4>2, <2>4
    <3> QED
      BY <3>1, <1>1, <1>5, <1>6, <2>4 DEF Dates
  <2>6. D(i) \in window /\ D(i - 1) \in window
    <3>1. D(i) \in Dates /\ D(i) >= m
      BY <2>2, <1>2, <1>3, <1>5, <1>7
    <3> QED
      BY <3>1, <2>5, <1>4
  <2>7. history[i].counts["crystallized"] = history[i - 1].counts["crystallized"]
    BY <2>2, <2>4, <2>6
  <2>8. history[i].deltas["crystallized"]
           = history[i].counts["crystallized"] - history[i - 1].counts["crystallized"]
    BY <2>2, <2>4 DEF IInv, BeatInv, COUNTABLES
  <2> QED
    BY <1>1, <2>2, <2>4, <2>7, <2>8
<1> HIDE DEF D
<1>8. window \ {m} \subseteq Flat
  <2> SUFFICES ASSUME NEW d \in window, d # m, NEW e \in Dates, e >= d
               PROVE  LastOf(e).deltas["crystallized"] = 0
    BY <1>3
  <2>1. e > m
    BY <1>2, <1>3, <1>5
  <2> QED
    BY <2>1, <1>7
<1>9. /\ Cardinality(window \ {m}) = FlatlineDays
      /\ IsFiniteSet(Flat)
  <2>1. Cardinality(window \ {m}) = Cardinality(window) - 1
    BY <1>3, <1>5, FS_RemoveElement
  <2>2. Flat \in SUBSET Dates
    OBVIOUS
  <2>3. IsFiniteSet(Flat)
    BY <2>2, <1>2, FS_Subset
  <2> QED
    BY <2>1, <2>3
<1> HIDE DEF Flat
<1>10. Cardinality(window \ {m}) <= Cardinality(Flat) /\ Cardinality(Flat) \in Nat
  BY <1>8, <1>9, FS_Subset, FS_CardinalityType
<1>. QED
  BY <1>9, <1>10

\* Every variable of the metabolism keeps its type (metabolism/), whatever
\* overlaps, raises or dies; no row counts more than the envelope's items.
THEOREM MetabolismTypes == Spec => []TypeOK
<1>1. IInv => TypeOK
  BY DEF IInv, Types
<1>. QED
  BY <1>1, AlwaysIInv, PTL

\* Every pattern has its candidate and its absorbed document on disk, for any
\* number of stage runs at once and any deaths between their writes.
THEOREM AncestryKept == Spec => []PatternHasAncestry
BY AlwaysIInv, IInvAncestry, PTL

\* No run spends past the envelope but by what an endpoint reported over the
\* reserve of the run's last call.
THEOREM EnvelopeKept == Spec => []SpendWithinEnvelope
BY AlwaysIInv, IInvSpend, PTL

\* No step gives a number that is on file again, but in a run that overlapped
\* another crystallize run.
THEOREM NumbersKept == Spec => PatternsKept
<1>1. IInv /\ [Next]_vars
        => \A n \in 1..MaxCryst :
              patterns[n] # NoDoc /\ patterns'[n] \notin {patterns[n], NoDoc}
              => \E j \in Jobs : job[j].overlap
  BY IInvKept
<1>. QED
  BY <1>1, AlwaysIInv, PTL DEF Spec, PatternsKept

\* A count that stays the same in every reading of the last dates raises the
\* alarm, for any length of history and any number of readings in a day.
THEOREM FlatlineSeen == Spec => []FlatlineIsSeen
BY AlwaysIInv, IInvFlatline, PTL

----------------------------------------------------------------------------
(* The router: what the fold over the rules comes to                       *)

\* One rule's step of the fold, and the function the fold's definition stands for.
Raised(intent, target, r, t) ==
    IF Applies(r, intent, target) THEN Max({t, r.escalate_to}) ELSE t

RaisedBy(intent, target, iter) ==
    [s \in SUBSET DOMAIN Rules |->
        IF s = {} THEN intent.tier
        ELSE Raised(intent, target, Rules[Max(s)], iter[s \ {Max(s)}])]

\* The closed form: the highest of the intent's tier and of the rules that apply.
Demanded(intent, target, s) ==
    {intent.tier} \cup {Rules[r].escalate_to : r \in {q \in s : Applies(Rules[q], intent, target)}}

Highest(intent, target) == [s \in SUBSET DOMAIN Rules |-> Max(Demanded(intent, target, s))]

LEMMA EscalatedUnfolds ==
    ASSUME NEW intent, NEW target
    PROVE  Escalated(intent, target) =
               (CHOOSE iter : iter = RaisedBy(intent, target, iter))[DOMAIN Rules]
BY DEF Escalated, FoldLeft, MapThenFoldSet, RaisedBy, Raised

LEMMA RulesFinite ==
    /\ DOMAIN Rules \in SUBSET Int /\ IsFiniteSet(DOMAIN Rules)
    /\ \A r \in DOMAIN Rules : Rules[r].escalate_to \in 0..4
<1>1. DOMAIN Rules = 1..Len(Rules) /\ Len(Rules) \in Nat
  BY PresenceAssumption
<1>2. IsFiniteSet(1..Len(Rules))
  BY <1>1, FS_Interval
<1>3. \A r \in DOMAIN Rules : Rules[r].escalate_to \in 0..4
  BY PresenceAssumption DEF TaxonomyHolds, RuleHolds, Tiers
<1>4. DOMAIN Rules \in SUBSET Int
  BY <1>1
<1>. QED
  BY <1>1, <1>2, <1>3, <1>4

LEMMA TiersMax ==
    ASSUME NEW S \in SUBSET (0..4), S # {}
    PROVE  Max(S) \in S /\ \A y \in S : Max(S) >= y
<1>1. IsFiniteSet(0..4)
  <2>1. \A n \in Nat : IsFiniteSet(0..n)
    BY FS_Interval
  <2>2. 4 \in Nat
    OBVIOUS
  <2> QED
    BY <2>1, <2>2
<1>2. IsFiniteSet(S)
  BY <1>1, FS_Subset
<1>3. S \in SUBSET Int
  OBVIOUS
<1>. QED
  BY <1>2, <1>3, MaxExists

LEMMA DemandedFine ==
    ASSUME NEW intent, intent.tier \in 0..4, NEW target, NEW s \in SUBSET DOMAIN Rules
    PROVE  /\ Demanded(intent, target, s) \in SUBSET (0..4)
           /\ Max(Demanded(intent, target, s)) \in Demanded(intent, target, s)
           /\ \A y \in Demanded(intent, target, s) : Max(Demanded(intent, target, s)) >= y
<1> DEFINE E == Demanded(intent, target, s)
<1>1. E \in SUBSET (0..4) /\ E # {}
  BY RulesFinite DEF Demanded
<1> HIDE DEF E
<1>2. Max(E) \in E /\ \A y \in E : Max(E) >= y
  BY <1>1, TiersMax
<1>. QED
  BY <1>1, <1>2 DEF E

\* The closed form satisfies the equation of the fold.
LEMMA HighestIsRaised ==
    ASSUME NEW intent, intent.tier \in 0..4, NEW target
    PROVE  Highest(intent, target) = RaisedBy(intent, target, Highest(intent, target))
<1> DEFINE h == Highest(intent, target)
           E(s) == Demanded(intent, target, s)
<1>1. ASSUME NEW s \in SUBSET DOMAIN Rules, s = {}
      PROVE  h[s] = intent.tier
  <2>1. E(s) = {intent.tier}
    BY <1>1 DEF Demanded
  <2>2. h[s] \in E(s)
    BY DemandedFine DEF Highest
  <2> QED
    BY <2>1, <2>2
<1>2. ASSUME NEW s \in SUBSET DOMAIN Rules, s # {}
      PROVE  h[s] = Raised(intent, target, Rules[Max(s)], h[s \ {Max(s)}])
  <2> DEFINE x == Max(s)
             w == s \ {x}
             a == Max(E(s))
             b == Max(E(w))
             e == Rules[x].escalate_to
  <2>1. IsFiniteSet(s) /\ s \in SUBSET Int
    BY RulesFinite, FS_Subset
  <2>2. x \in s
    BY <2>1, <1>2, MaxExists
  <2> HIDE DEF x
  <2>3. w \in SUBSET DOMAIN Rules /\ x \in DOMAIN Rules /\ e \in 0..4
    BY <2>2, RulesFinite
  <2>4. E(s) = E(w) \cup (IF Applies(Rules[x], intent, target) THEN {e} ELSE {})
    BY <2>2 DEF Demanded
  <2>5. /\ a \in E(s) /\ \A y \in E(s) : a >= y
        /\ b \in E(w) /\ \A y \in E(w) : b >= y
        /\ E(s) \in SUBSET (0..4) /\ E(w) \in SUBSET (0..4)
    BY <2>3, DemandedFine
  <2>6. h[s] = a /\ h[w] = b
    BY <2>3 DEF Highest
  <2> HIDE DEF a, b, h, E, w, e
  <2>7. CASE ~ Applies(Rules[x], intent, target)
    <3>1. E(s) = E(w) /\ a \in 0..4 /\ b \in 0..4
      BY <2>4, <2>5, <2>7
    <3>2. a = b
      BY <2>5, <3>1
    <3> QED
      BY <2>6, <2>7, <3>2 DEF Raised, w, x
  <2>8. CASE Applies(Rules[x], intent, target)
    <3>1. E(s) = E(w) \cup {e} /\ a \in 0..4 /\ b \in 0..4
      BY <2>4, <2>5, <2>8
    <3>2. a \in {b, e} /\ a >= b /\ a >= e
      BY <2>3, <2>5, <3>1
    <3>3. {b, e} \in SUBSET (0..4)
      BY <3>1, <2>3
    <3>4. Max({b, e}) \in {b, e} /\ Max({b, e}) >= b /\ Max({b, e}) >= e
      BY <3>3, TiersMax
    <3>5. a = Max({b, e})
      BY <2>3, <3>1, <3>2, <3>4
    <3> QED
      BY <2>6, <2>8, <3>5 DEF Raised, w, x, e
  <2> QED
    BY <2>7, <2>8
<1>3. h = [s \in SUBSET DOMAIN Rules |-> h[s]]
  BY DEF Highest
<1> HIDE DEF h
<1>4. \A s \in SUBSET DOMAIN Rules :
         h[s] = IF s = {} THEN intent.tier
                ELSE Raised(intent, target, Rules[Max(s)], h[s \ {Max(s)}])
  BY <1>1, <1>2
<1>5. h = RaisedBy(intent, target, h)
  BY <1>3, <1>4 DEF RaisedBy
<1>. QED
  BY <1>5 DEF h

\* Nothing else satisfies it: where two solutions differ, take a smallest set on
\* which they do.
LEMMA RaisedIsHighest ==
    ASSUME NEW intent, intent.tier \in 0..4, NEW target, NEW f,
           f = RaisedBy(intent, target, f)
    PROVE  f[DOMAIN Rules] = Highest(intent, target)[DOMAIN Rules]
<1> DEFINE h == Highest(intent, target)
           bad == {s \in SUBSET DOMAIN Rules : f[s] # h[s]}
<1>1. h = RaisedBy(intent, target, h)
  BY HighestIsRaised
<1> HIDE DEF h
<1>2. /\ \A s \in SUBSET DOMAIN Rules :
            f[s] = IF s = {} THEN intent.tier
                   ELSE Raised(intent, target, Rules[Max(s)], f[s \ {Max(s)}])
      /\ \A s \in SUBSET DOMAIN Rules :
            h[s] = IF s = {} THEN intent.tier
                   ELSE Raised(intent, target, Rules[Max(s)], h[s \ {Max(s)}])
  BY <1>1 DEF RaisedBy
<1>3. bad \subseteq FiniteSubsetsOf(DOMAIN Rules)
  BY RulesFinite, FS_Subset DEF FiniteSubsetsOf
<1>4. ASSUME bad # {} PROVE FALSE
  <2>1. PICK s \in bad : \A w \in bad : ~ (<<w, s>> \in StrictSubsetOrdering(DOMAIN Rules))
    BY <1>3, <1>4, FS_StrictSubsetOrderingWellFounded, WFMin
  <2>2. s \in SUBSET DOMAIN Rules /\ f[s] # h[s]
    OBVIOUS
  <2>3. s # {}
    BY <1>2, <2>2
  <2>4. Max(s) \in s
    <3>1. IsFiniteSet(s) /\ s \in SUBSET Int
      BY <2>2, RulesFinite, FS_Subset
    <3> QED
      BY <2>3, <3>1, MaxExists
  <2> DEFINE w == s \ {Max(s)}
  <2>5. w \in SUBSET DOMAIN Rules /\ <<w, s>> \in StrictSubsetOrdering(DOMAIN Rules)
    BY <2>2, <2>4 DEF StrictSubsetOrdering
  <2>6. f[w] = h[w]
    BY <2>1, <2>5
  <2> QED
    BY <1>2, <2>2, <2>3, <2>6
<1>5. f[DOMAIN Rules] = h[DOMAIN Rules]
  BY <1>4
<1>. QED
  BY <1>5 DEF h

\* The tier of a routed message is no lower than its intent's, nor than any rule
\* that applies demands: folding in file order loses none of them.
LEMMA EscalatedDemands ==
    ASSUME NEW intent, intent.tier \in 0..4, NEW target
    PROVE  /\ Escalated(intent, target) \in 0..4
           /\ Escalated(intent, target) >= intent.tier
           /\ \A r \in DOMAIN Rules : Applies(Rules[r], intent, target)
                 => Escalated(intent, target) >= Rules[r].escalate_to
<1> DEFINE D == DOMAIN Rules
           f == CHOOSE iter : iter = RaisedBy(intent, target, iter)
<1>1. \E iter : iter = RaisedBy(intent, target, iter)
  BY HighestIsRaised
<1>2. f = RaisedBy(intent, target, f)
  BY <1>1
<1>3. Escalated(intent, target) = f[D]
  BY EscalatedUnfolds
<1> HIDE DEF f
<1>4. f[D] = Max(Demanded(intent, target, D))
  BY <1>2, RaisedIsHighest DEF Highest
<1>5. /\ Demanded(intent, target, D) \in SUBSET (0..4)
      /\ Max(Demanded(intent, target, D)) \in Demanded(intent, target, D)
      /\ \A y \in Demanded(intent, target, D) : Max(Demanded(intent, target, D)) >= y
  BY DemandedFine
<1>6. intent.tier \in Demanded(intent, target, D)
      /\ \A r \in D : Applies(Rules[r], intent, target)
            => Rules[r].escalate_to \in Demanded(intent, target, D)
  BY DEF Demanded
<1>. QED
  BY <1>3, <1>4, <1>5, <1>6

----------------------------------------------------------------------------
(* The journal of the presence                                             *)

Bindings == [DOMAIN Channels -> SUBSET Speakers]

\* The rows there can be: a message, and what route made of it under a binding.
TurnRow(m, k) == [msg |-> m, route |-> Route(k, m), known |-> k,
                  disposition |-> Disposition(Route(k, m)),
                  decision |-> RouteDecision(Route(k, m))]

TurnRows == {TurnRow(m, k) : m \in Messages, k \in Bindings}

\* What is decided was decided from the binding that is still loaded: a new one is
\* loaded only where the old one was dropped, and the decision with it.
PresenceInv ==
    /\ record = Nothing \/ record \in Bindings
    /\ binding = Nothing \/ binding \in Bindings
    /\ inbox # Nothing => binding # Nothing /\ inbox \in Messages
    /\ decided # Nothing => /\ inbox # Nothing
                            /\ decided = Route(binding, inbox)
    /\ turns \in Seq(TurnRows)

\* What the journal counts as answered was routed, for the operator, within the
\* ceiling.
LEMMA AnsweredRow ==
    ASSUME NEW m \in Messages, NEW k \in Bindings, Disposition(Route(k, m)) = "answered"
    PROVE  /\ Route(k, m).operator
           /\ m.speaker \in k[m.channel]
           /\ Route(k, m).intent \in DOMAIN Intents
           /\ Intents[Route(k, m).intent].tier <= Ceiling(m.channel)
           /\ \A r \in DOMAIN Rules :
                 Applies(Rules[r], Intents[Route(k, m).intent], m.target)
                    => Rules[r].escalate_to <= Ceiling(m.channel)
<1> DEFINE i == IntentOf(m)
           spec == Intents[i]
           verdict == Decide(k, m.channel, m.speaker)
           ambiguous == m.declared \notin DOMAIN Intents /\ Cardinality(m.matched) > 1
<1>1. ASSUME NEW h \in {"ignore", "surface_to_operator", "disambiguate"},
             NEW t, NEW o, NEW r
      PROVE  Disposition(Unrouted(h, t, o, r)) # "answered"
  BY DEF Disposition, Unrouted
<1>2. verdict = "ANSWER" /\ ~ ambiguous /\ IntentOf(m) # NoIntent
      /\ Route(k, m) = Routed(IntentOf(m), m)
  <2>1. verdict \in {"IGNORE", "SURFACE_TO_OPERATOR", "ANSWER"}
    BY DEF Decide
  <2>2. CASE verdict = "IGNORE"
    BY <2>2, <1>1 DEF Route
  <2>3. CASE verdict = "SURFACE_TO_OPERATOR"
    BY <2>3, <1>1 DEF Route
  <2>4. CASE verdict = "ANSWER" /\ ambiguous
    BY <2>4, <1>1 DEF Route
  <2>5. CASE verdict = "ANSWER" /\ ~ ambiguous /\ IntentOf(m) = NoIntent
    BY <2>5, <1>1 DEF Route
  <2>6. CASE verdict = "ANSWER" /\ ~ ambiguous /\ IntentOf(m) # NoIntent
    BY <2>6 DEF Route
  <2> QED
    BY <2>1, <2>2, <2>3, <2>4, <2>5, <2>6
<1>3. m.speaker \in k[m.channel]
  BY <1>2 DEF Decide
<1>4. i \in DOMAIN Intents
  <2>1. CASE m.declared \in DOMAIN Intents
    BY <2>1 DEF IntentOf
  <2>2. CASE m.declared \notin DOMAIN Intents /\ Cardinality(m.matched) = 1
    <3>1. m.matched \in SUBSET DOMAIN Intents
      BY DEF Messages
    <3>2. m.matched # {}
      BY <2>2, FS_EmptySet
    <3>3. i = CHOOSE x \in m.matched : TRUE
      BY <2>2 DEF IntentOf
    <3> QED
      BY <3>1, <3>2, <3>3
  <2>3. CASE /\ m.declared \notin DOMAIN Intents /\ Cardinality(m.matched) # 1
             /\ m.matched = {} /\ m.proposed \in DOMAIN Intents
    BY <2>3 DEF IntentOf
  <2>4. CASE /\ m.declared \notin DOMAIN Intents /\ Cardinality(m.matched) # 1
             /\ ~(m.matched = {} /\ m.proposed \in DOMAIN Intents)
    BY <2>4, <1>2 DEF IntentOf
  <2> QED
    BY <2>1, <2>2, <2>3, <2>4
<1>5. IntentHolds(spec) /\ spec.tier \in 0..4
  BY <1>4, PresenceAssumption DEF TaxonomyHolds, IntentHolds, Tiers
<1> HIDE DEF i
<1>6. /\ Escalated(spec, m.target) >= spec.tier /\ Escalated(spec, m.target) \in 0..4
      /\ \A r \in DOMAIN Rules : Applies(Rules[r], spec, m.target)
            => Escalated(spec, m.target) >= Rules[r].escalate_to
  BY <1>5, EscalatedDemands
<1> DEFINE p == Escalated(spec, m.target) <= Ceiling(m.channel)
<1>7. Route(k, m).permitted = p /\ Route(k, m).operator = TRUE /\ Route(k, m).intent = i
      /\ (~p => Route(k, m).handler = "surface_to_operator")
  BY <1>2 DEF Routed, i
<1>8. p
  BY <1>7 DEF Disposition
<1>9. Ceiling(m.channel) \in {0, 2}
  BY DEF Ceiling
<1> HIDE DEF spec
<1>10. spec.tier <= Ceiling(m.channel)
       /\ \A r \in DOMAIN Rules : Applies(Rules[r], spec, m.target)
             => Rules[r].escalate_to <= Ceiling(m.channel)
  BY <1>5, <1>6, <1>8, <1>9, RulesFinite
<1>. QED
  BY <1>3, <1>4, <1>7, <1>10 DEF spec

LEMMA PresenceInitInv == PresenceInit => PresenceInv
<1>1. <<>> \in Seq(TurnRows)
  OBVIOUS
<1>. QED
  BY <1>1 DEF PresenceInit, PresenceInv

LEMMA PresenceNextInv == PresenceInv /\ [PresenceNext]_presenceVars => PresenceInv'
<1> SUFFICES ASSUME PresenceInv, [PresenceNext]_presenceVars PROVE PresenceInv'
  OBVIOUS
<1> USE DEF PresenceInv
<1>1. ASSUME NEW c \in DOMAIN Channels, NEW refs \in SUBSET Speakers, EditRecord(c, refs)
      PROVE  PresenceInv'
  <2>1. record' \in Bindings
    BY <1>1 DEF EditRecord, Bindings
  <2> QED
    BY <2>1, <1>1 DEF EditRecord
<1>2. CASE LoadBinding
  BY <1>2 DEF LoadBinding
<1>3. CASE Restart
  BY <1>3 DEF Restart
<1>4. CASE Poll
  BY <1>4 DEF Poll
<1>5. CASE RouteInbound
  BY <1>5 DEF RouteInbound
<1>6. CASE RecordTurn
  <2>1. InteractionRecord(inbox, decided) = TurnRow(inbox, binding)
    BY <1>6 DEF RecordTurn, InteractionRecord, TurnRow
  <2>2. TurnRow(inbox, binding) \in TurnRows
    BY <1>6 DEF RecordTurn, TurnRows
  <2>3. turns' \in Seq(TurnRows)
    BY <1>6, <2>1, <2>2, AppendProperties DEF RecordTurn
  <2> QED
    BY <2>3, <1>6 DEF RecordTurn
<1>7. CASE UNCHANGED presenceVars
  BY <1>7 DEF presenceVars
<1>. QED
  BY <1>1, <1>2, <1>3, <1>4, <1>5, <1>6, <1>7 DEF PresenceNext

LEMMA PresenceInvAnswered == PresenceInv => AnsweredWithinCeiling
<1> SUFFICES ASSUME PresenceInv PROVE AnsweredWithinCeiling
  OBVIOUS
<1>1. ASSUME NEW n \in DOMAIN turns, turns[n].disposition = "answered"
      PROVE  /\ turns[n].route.operator
             /\ turns[n].msg.speaker \in turns[n].known[turns[n].msg.channel]
             /\ turns[n].route.intent \in DOMAIN Intents
             /\ Intents[turns[n].route.intent].tier <= Ceiling(turns[n].msg.channel)
             /\ \A r \in DOMAIN Rules :
                   Applies(Rules[r], Intents[turns[n].route.intent], turns[n].msg.target)
                      => Rules[r].escalate_to <= Ceiling(turns[n].msg.channel)
  <2>1. turns[n] \in TurnRows
    BY DEF PresenceInv
  <2>2. PICK m \in Messages, k \in Bindings : turns[n] = TurnRow(m, k)
    BY <2>1 DEF TurnRows
  <2>3. /\ turns[n].msg = m /\ turns[n].known = k /\ turns[n].route = Route(k, m)
        /\ Disposition(Route(k, m)) = "answered"
    BY <1>1, <2>2 DEF TurnRow
  <2> QED
    BY <2>3, AnsweredRow
<1>. QED
  BY <1>1 DEF AnsweredWithinCeiling, InvariantBreaches

\* Nothing is answered but the operator, on a channel whose ceiling holds the tier
\* of the intent and of every rule that applies to the message, for any taxonomy
\* the loader accepts and any list of rules.
THEOREM AnswersWithinCeiling == PresenceSpec => []AnsweredWithinCeiling
BY PresenceInitInv, PresenceNextInv, PresenceInvAnswered, PTL DEF PresenceSpec

----------------------------------------------------------------------------
(* The minutes of a day: what cron fires on, and what an interval is due at. *)
(* The operators stand for arithmetic that only the tables at the end need.  *)

DayMinutes  == 0..1439
HourMinutes == 0..59
DayHours    == 0..23

Divides(d, x)  == x % d = 0
Times(d, k)    == d * k
Quotient(x, d) == x \div d
At(h, m)       == 60 * h + m

\* The minutes of the day in the hours and at the minutes of them that are named.
Fired(hours, minutes) == {At(h, m) : h \in hours, m \in minutes}

\* The first q + 1 multiples of a step, and those of a step within the day.
UpTo(step, q) == {Times(step, k) : k \in 0..q}
Due(step)     == {step * k : k \in 0..(1440 \div step - 1)}

\* A step that divides the day is due at those hours and minutes and no other.
DueAt(step, hours, minutes) == 1440 % step = 0 /\ Due(step) = Fired(hours, minutes)

\* The minutes of an hour, and the hours of a day, that n divides.
EveryMinutes(n) == {m \in HourMinutes : Divides(n, m)}
EveryHours(n)   == {h \in DayHours : Divides(n, h)}

\* The steps that divide an hour, and those that divide a day of hours.
HourSteps == {1, 2, 3, 4, 5, 6, 10, 12, 15, 20, 30}
DaySteps  == {1, 2, 3, 4, 6, 8, 12}

LEMMA DivisorsOfHour == \A n \in 1..59 : 60 % n = 0 => n \in HourSteps
BY DEF HourSteps

LEMMA DivisorsOfDay == \A n \in 1..23 : 24 % n = 0 => n \in DaySteps
BY DEF DaySteps

LEMMA FiredAt ==
    ASSUME NEW S, NEW T, NEW h \in S, NEW m \in T
    PROVE  At(h, m) \in Fired(S, T)
BY DEF Fired

LEMMA FiredOnly ==
    ASSUME NEW S, NEW T, NEW D, \A h \in S, m \in T : At(h, m) \in D
    PROVE  Fired(S, T) \subseteq D
BY DEF Fired

LEMMA DueIs ==
    ASSUME NEW step, NEW q, 1440 \div step - 1 = q
    PROVE  Due(step) = UpTo(step, q)
BY DEF Due, UpTo, Times

LEMMA MinuteOfDay ==
    ASSUME NEW x \in DayMinutes
    PROVE  /\ Quotient(x, 60) \in DayHours /\ x % 60 \in HourMinutes
           /\ x = At(Quotient(x, 60), x % 60)
BY DEF DayMinutes, HourMinutes, DayHours, Quotient, At

\* What is needed of a step d that divides the hour and of its q-th multiple, the
\* last of the day: which minutes of the day it reaches, and how they fall within
\* the hours.
Reaches(d, q) == \A x \in DayMinutes :
                    Divides(d, x) => Quotient(x, d) \in 0..q /\ x = Times(d, Quotient(x, d))
Stays(d, q)   == \A k \in 0..q : Times(d, k) \in DayMinutes /\ Divides(d, Times(d, k))
Within(d)     == \A x \in DayMinutes : Divides(d, x) => Divides(d, x % 60)
Across(d)     == \A h \in DayHours, m \in HourMinutes :
                    Divides(d, m) => At(h, m) \in DayMinutes /\ Divides(d, At(h, m))

\* A step that divides the hour is due at its multiples within every hour.
LEMMA DueOfMinutes ==
    ASSUME NEW d, NEW q, Reaches(d, q), Stays(d, q), Within(d), Across(d)
    PROVE  UpTo(d, q) = Fired(DayHours, EveryMinutes(d))
<1>1. ASSUME NEW k \in 0..q PROVE Times(d, k) \in Fired(DayHours, EveryMinutes(d))
  <2> DEFINE x == Times(d, k)
  <2>1. x \in DayMinutes /\ Divides(d, x)
    BY <1>1, Zenon DEF Stays
  <2> HIDE DEF x
  <2>2. /\ Quotient(x, 60) \in DayHours /\ x % 60 \in HourMinutes
        /\ x = At(Quotient(x, 60), x % 60)
    BY <2>1, MinuteOfDay
  <2>3. Divides(d, x % 60)
    BY <2>1, Zenon DEF Within
  <2>4. x % 60 \in EveryMinutes(d)
    BY <2>2, <2>3 DEF EveryMinutes
  <2> QED
    BY <2>2, <2>4, FiredAt DEF x
<1>2. ASSUME NEW h \in DayHours, NEW m \in EveryMinutes(d) PROVE At(h, m) \in UpTo(d, q)
  <2> DEFINE x == At(h, m)
  <2>1. m \in HourMinutes /\ Divides(d, m)
    BY <1>2 DEF EveryMinutes
  <2>2. x \in DayMinutes /\ Divides(d, x)
    BY <1>2, <2>1, Zenon DEF Across
  <2> HIDE DEF x
  <2>3. Quotient(x, d) \in 0..q /\ x = Times(d, Quotient(x, d))
    BY <2>2, Zenon DEF Reaches
  <2> QED
    BY <2>3 DEF UpTo, x
<1>3. UpTo(d, q) \subseteq Fired(DayHours, EveryMinutes(d))
  BY <1>1 DEF UpTo
<1>4. Fired(DayHours, EveryMinutes(d)) \subseteq UpTo(d, q)
  BY <1>2, FiredOnly
<1>. QED
  BY <1>3, <1>4

LEMMA DueByMinutes == \A n \in HourSteps : DueAt(n, DayHours, EveryMinutes(n))
<1>0. ASSUME NEW d, NEW q, Reaches(d, q), Stays(d, q), Within(d), Across(d),
             1440 % d = 0, 1440 \div d - 1 = q
      PROVE  DueAt(d, DayHours, EveryMinutes(d))
  <2>1. Due(d) = UpTo(d, q)
    BY <1>0, DueIs
  <2>2. UpTo(d, q) = Fired(DayHours, EveryMinutes(d))
    BY <1>0, DueOfMinutes
  <2>3. Due(d) = Fired(DayHours, EveryMinutes(d))
    BY <2>1, <2>2
  <2> QED
    BY <1>0, <2>3 DEF DueAt
<1>1. DueAt(1, DayHours, EveryMinutes(1))
  <2>1. Reaches(1, 1439)
    BY DEF Reaches, DayMinutes, Divides, Quotient, Times
  <2>2. Stays(1, 1439)
    BY DEF Stays, DayMinutes, Divides, Times
  <2>3. Within(1)
    BY DEF Within, DayMinutes, Divides
  <2>4. Across(1)
    BY DEF Across, DayMinutes, DayHours, HourMinutes, Divides, At
  <2>5. 1440 % 1 = 0 /\ 1440 \div 1 - 1 = 1439
    OBVIOUS
  <2> QED
    BY <2>1, <2>2, <2>3, <2>4, <2>5, <1>0
<1>2. DueAt(2, DayHours, EveryMinutes(2))
  <2>1. Reaches(2, 719)
    BY DEF Reaches, DayMinutes, Divides, Quotient, Times
  <2>2. Stays(2, 719)
    BY DEF Stays, DayMinutes, Divides, Times
  <2>3. Within(2)
    BY DEF Within, DayMinutes, Divides
  <2>4. Across(2)
    BY DEF Across, DayMinutes, DayHours, HourMinutes, Divides, At
  <2>5. 1440 % 2 = 0 /\ 1440 \div 2 - 1 = 719
    OBVIOUS
  <2> QED
    BY <2>1, <2>2, <2>3, <2>4, <2>5, <1>0
<1>3. DueAt(3, DayHours, EveryMinutes(3))
  <2>1. Reaches(3, 479)
    BY DEF Reaches, DayMinutes, Divides, Quotient, Times
  <2>2. Stays(3, 479)
    BY DEF Stays, DayMinutes, Divides, Times
  <2>3. Within(3)
    BY DEF Within, DayMinutes, Divides
  <2>4. Across(3)
    BY DEF Across, DayMinutes, DayHours, HourMinutes, Divides, At
  <2>5. 1440 % 3 = 0 /\ 1440 \div 3 - 1 = 479
    OBVIOUS
  <2> QED
    BY <2>1, <2>2, <2>3, <2>4, <2>5, <1>0
<1>4. DueAt(4, DayHours, EveryMinutes(4))
  <2>1. Reaches(4, 359)
    BY DEF Reaches, DayMinutes, Divides, Quotient, Times
  <2>2. Stays(4, 359)
    BY DEF Stays, DayMinutes, Divides, Times
  <2>3. Within(4)
    BY DEF Within, DayMinutes, Divides
  <2>4. Across(4)
    BY DEF Across, DayMinutes, DayHours, HourMinutes, Divides, At
  <2>5. 1440 % 4 = 0 /\ 1440 \div 4 - 1 = 359
    OBVIOUS
  <2> QED
    BY <2>1, <2>2, <2>3, <2>4, <2>5, <1>0
<1>5. DueAt(5, DayHours, EveryMinutes(5))
  <2>1. Reaches(5, 287)
    BY DEF Reaches, DayMinutes, Divides, Quotient, Times
  <2>2. Stays(5, 287)
    BY DEF Stays, DayMinutes, Divides, Times
  <2>3. Within(5)
    BY DEF Within, DayMinutes, Divides
  <2>4. Across(5)
    BY DEF Across, DayMinutes, DayHours, HourMinutes, Divides, At
  <2>5. 1440 % 5 = 0 /\ 1440 \div 5 - 1 = 287
    OBVIOUS
  <2> QED
    BY <2>1, <2>2, <2>3, <2>4, <2>5, <1>0
<1>6. DueAt(6, DayHours, EveryMinutes(6))
  <2>1. Reaches(6, 239)
    BY DEF Reaches, DayMinutes, Divides, Quotient, Times
  <2>2. Stays(6, 239)
    BY DEF Stays, DayMinutes, Divides, Times
  <2>3. Within(6)
    BY DEF Within, DayMinutes, Divides
  <2>4. Across(6)
    BY DEF Across, DayMinutes, DayHours, HourMinutes, Divides, At
  <2>5. 1440 % 6 = 0 /\ 1440 \div 6 - 1 = 239
    OBVIOUS
  <2> QED
    BY <2>1, <2>2, <2>3, <2>4, <2>5, <1>0
<1>7. DueAt(10, DayHours, EveryMinutes(10))
  <2>1. Reaches(10, 143)
    BY DEF Reaches, DayMinutes, Divides, Quotient, Times
  <2>2. Stays(10, 143)
    BY DEF Stays, DayMinutes, Divides, Times
  <2>3. Within(10)
    BY DEF Within, DayMinutes, Divides
  <2>4. Across(10)
    BY DEF Across, DayMinutes, DayHours, HourMinutes, Divides, At
  <2>5. 1440 % 10 = 0 /\ 1440 \div 10 - 1 = 143
    OBVIOUS
  <2> QED
    BY <2>1, <2>2, <2>3, <2>4, <2>5, <1>0
<1>8. DueAt(12, DayHours, EveryMinutes(12))
  <2>1. Reaches(12, 119)
    BY DEF Reaches, DayMinutes, Divides, Quotient, Times
  <2>2. Stays(12, 119)
    BY DEF Stays, DayMinutes, Divides, Times
  <2>3. Within(12)
    BY DEF Within, DayMinutes, Divides
  <2>4. Across(12)
    BY DEF Across, DayMinutes, DayHours, HourMinutes, Divides, At
  <2>5. 1440 % 12 = 0 /\ 1440 \div 12 - 1 = 119
    OBVIOUS
  <2> QED
    BY <2>1, <2>2, <2>3, <2>4, <2>5, <1>0
<1>9. DueAt(15, DayHours, EveryMinutes(15))
  <2>1. Reaches(15, 95)
    BY DEF Reaches, DayMinutes, Divides, Quotient, Times
  <2>2. Stays(15, 95)
    BY DEF Stays, DayMinutes, Divides, Times
  <2>3. Within(15)
    BY DEF Within, DayMinutes, Divides
  <2>4. Across(15)
    BY DEF Across, DayMinutes, DayHours, HourMinutes, Divides, At
  <2>5. 1440 % 15 = 0 /\ 1440 \div 15 - 1 = 95
    OBVIOUS
  <2> QED
    BY <2>1, <2>2, <2>3, <2>4, <2>5, <1>0
<1>10. DueAt(20, DayHours, EveryMinutes(20))
  <2>1. Reaches(20, 71)
    BY DEF Reaches, DayMinutes, Divides, Quotient, Times
  <2>2. Stays(20, 71)
    BY DEF Stays, DayMinutes, Divides, Times
  <2>3. Within(20)
    BY DEF Within, DayMinutes, Divides
  <2>4. Across(20)
    BY DEF Across, DayMinutes, DayHours, HourMinutes, Divides, At
  <2>5. 1440 % 20 = 0 /\ 1440 \div 20 - 1 = 71
    OBVIOUS
  <2> QED
    BY <2>1, <2>2, <2>3, <2>4, <2>5, <1>0
<1>11. DueAt(30, DayHours, EveryMinutes(30))
  <2>1. Reaches(30, 47)
    BY DEF Reaches, DayMinutes, Divides, Quotient, Times
  <2>2. Stays(30, 47)
    BY DEF Stays, DayMinutes, Divides, Times
  <2>3. Within(30)
    BY DEF Within, DayMinutes, Divides
  <2>4. Across(30)
    BY DEF Across, DayMinutes, DayHours, HourMinutes, Divides, At
  <2>5. 1440 % 30 = 0 /\ 1440 \div 30 - 1 = 47
    OBVIOUS
  <2> QED
    BY <2>1, <2>2, <2>3, <2>4, <2>5, <1>0
<1>. QED
  BY <1>1, <1>2, <1>3, <1>4, <1>5, <1>6, <1>7, <1>8, <1>9, <1>10, <1>11 DEF HourSteps

\* The same of a step of d hours, s minutes, that divides the day.
ReachesHours(d, q, s) == \A h \in DayHours :
                            Divides(d, h) => /\ Quotient(h, d) \in 0..q
                                             /\ Times(s, Quotient(h, d)) = At(h, 0)
StaysHours(d, q, s)   == \A k \in 0..q : /\ Times(d, k) \in DayHours /\ Divides(d, Times(d, k))
                                         /\ Times(s, k) = At(Times(d, k), 0)

\* A step of d hours, d dividing the day, is due on the hours that d divides.
LEMMA DueOfHours ==
    ASSUME NEW d, NEW q, NEW s, ReachesHours(d, q, s), StaysHours(d, q, s)
    PROVE  UpTo(s, q) = Fired(EveryHours(d), {0})
<1>1. ASSUME NEW k \in 0..q PROVE Times(s, k) \in Fired(EveryHours(d), {0})
  <2>1. /\ Times(d, k) \in DayHours /\ Divides(d, Times(d, k))
        /\ Times(s, k) = At(Times(d, k), 0)
    BY <1>1, Zenon DEF StaysHours
  <2>2. Times(d, k) \in EveryHours(d) /\ 0 \in {0}
    BY <2>1 DEF EveryHours
  <2> QED
    BY <2>1, <2>2, FiredAt
<1>2. ASSUME NEW h \in EveryHours(d), NEW m \in {0} PROVE At(h, m) \in UpTo(s, q)
  <2>1. h \in DayHours /\ Divides(d, h) /\ m = 0
    BY <1>2 DEF EveryHours
  <2>2. Quotient(h, d) \in 0..q /\ Times(s, Quotient(h, d)) = At(h, m)
    BY <2>1, Zenon DEF ReachesHours
  <2> QED
    BY <2>2 DEF UpTo
<1>3. UpTo(s, q) \subseteq Fired(EveryHours(d), {0})
  BY <1>1 DEF UpTo
<1>4. Fired(EveryHours(d), {0}) \subseteq UpTo(s, q)
  BY <1>2, FiredOnly
<1>. QED
  BY <1>3, <1>4

LEMMA DueByHours == \A n \in DaySteps : DueAt(60 * n, EveryHours(n), {0})
<1>0. ASSUME NEW d, NEW q, NEW s, ReachesHours(d, q, s), StaysHours(d, q, s),
             60 * d = s, 1440 % s = 0, 1440 \div s - 1 = q
      PROVE  DueAt(60 * d, EveryHours(d), {0})
  <2>1. Due(s) = UpTo(s, q)
    BY <1>0, DueIs
  <2>2. UpTo(s, q) = Fired(EveryHours(d), {0})
    BY <1>0, DueOfHours
  <2>3. Due(s) = Fired(EveryHours(d), {0})
    BY <2>1, <2>2
  <2>4. DueAt(s, EveryHours(d), {0})
    BY <1>0, <2>3 DEF DueAt
  <2> QED
    BY <1>0, <2>4
<1>1. DueAt(60 * 1, EveryHours(1), {0})
  <2>1. ReachesHours(1, 23, 60)
    BY DEF ReachesHours, DayHours, Divides, Quotient, Times, At
  <2>2. StaysHours(1, 23, 60)
    BY DEF StaysHours, DayHours, Divides, Times, At
  <2>3. 60 * 1 = 60 /\ 1440 % 60 = 0 /\ 1440 \div 60 - 1 = 23
    OBVIOUS
  <2> QED
    BY <2>1, <2>2, <2>3, <1>0
<1>2. DueAt(60 * 2, EveryHours(2), {0})
  <2>1. ReachesHours(2, 11, 120)
    BY DEF ReachesHours, DayHours, Divides, Quotient, Times, At
  <2>2. StaysHours(2, 11, 120)
    BY DEF StaysHours, DayHours, Divides, Times, At
  <2>3. 60 * 2 = 120 /\ 1440 % 120 = 0 /\ 1440 \div 120 - 1 = 11
    OBVIOUS
  <2> QED
    BY <2>1, <2>2, <2>3, <1>0
<1>3. DueAt(60 * 3, EveryHours(3), {0})
  <2>1. ReachesHours(3, 7, 180)
    BY DEF ReachesHours, DayHours, Divides, Quotient, Times, At
  <2>2. StaysHours(3, 7, 180)
    BY DEF StaysHours, DayHours, Divides, Times, At
  <2>3. 60 * 3 = 180 /\ 1440 % 180 = 0 /\ 1440 \div 180 - 1 = 7
    OBVIOUS
  <2> QED
    BY <2>1, <2>2, <2>3, <1>0
<1>4. DueAt(60 * 4, EveryHours(4), {0})
  <2>1. ReachesHours(4, 5, 240)
    BY DEF ReachesHours, DayHours, Divides, Quotient, Times, At
  <2>2. StaysHours(4, 5, 240)
    BY DEF StaysHours, DayHours, Divides, Times, At
  <2>3. 60 * 4 = 240 /\ 1440 % 240 = 0 /\ 1440 \div 240 - 1 = 5
    OBVIOUS
  <2> QED
    BY <2>1, <2>2, <2>3, <1>0
<1>5. DueAt(60 * 6, EveryHours(6), {0})
  <2>1. ReachesHours(6, 3, 360)
    BY DEF ReachesHours, DayHours, Divides, Quotient, Times, At
  <2>2. StaysHours(6, 3, 360)
    BY DEF StaysHours, DayHours, Divides, Times, At
  <2>3. 60 * 6 = 360 /\ 1440 % 360 = 0 /\ 1440 \div 360 - 1 = 3
    OBVIOUS
  <2> QED
    BY <2>1, <2>2, <2>3, <1>0
<1>6. DueAt(60 * 8, EveryHours(8), {0})
  <2>1. ReachesHours(8, 2, 480)
    BY DEF ReachesHours, DayHours, Divides, Quotient, Times, At
  <2>2. StaysHours(8, 2, 480)
    BY DEF StaysHours, DayHours, Divides, Times, At
  <2>3. 60 * 8 = 480 /\ 1440 % 480 = 0 /\ 1440 \div 480 - 1 = 2
    OBVIOUS
  <2> QED
    BY <2>1, <2>2, <2>3, <1>0
<1>7. DueAt(60 * 12, EveryHours(12), {0})
  <2>1. ReachesHours(12, 1, 720)
    BY DEF ReachesHours, DayHours, Divides, Quotient, Times, At
  <2>2. StaysHours(12, 1, 720)
    BY DEF StaysHours, DayHours, Divides, Times, At
  <2>3. 60 * 12 = 720 /\ 1440 % 720 = 0 /\ 1440 \div 720 - 1 = 1
    OBVIOUS
  <2> QED
    BY <2>1, <2>2, <2>3, <1>0
<1>. QED
  BY <1>1, <1>2, <1>3, <1>4, <1>5, <1>6, <1>7 DEF DaySteps

LEMMA DueHourly == DueAt(60, DayHours, {0})
<1>1. DueAt(60 * 1, EveryHours(1), {0})
  BY DueByHours DEF DaySteps
<1>2. EveryHours(1) = DayHours
  BY DEF EveryHours, DayHours, Divides
<1>. QED
  BY <1>1, <1>2

LEMMA DueDaily == ASSUME NEW step, step = 1440 PROVE DueAt(step, {0}, {0})
<1>1. Fired({0}, {0}) = {0}
  BY DEF Fired, At
<1>2. Due(step) = {0}
  BY DEF Due
<1>3. 1440 % step = 0
  OBVIOUS
<1>. QED
  BY <1>1, <1>2, <1>3 DEF DueAt

\* An expression fires at that interval, all day and over midnight.
CronFiresAt(x, step) == 1440 % step = 0 /\ L!CronMinutes(x) = Due(step)

LEMMA FiresWhenDue ==
    ASSUME NEW x, NEW step, NEW hours, NEW minutes,
           L!CronMinutes(x) = Fired(hours, minutes), DueAt(step, hours, minutes)
    PROVE  CronFiresAt(x, step)
BY DEF DueAt, CronFiresAt

\* The expressions an interval is rendered to.
MinutesRow(n) == <<"*/", n, "*", 1, "*">>
HourlyRow     == <<"", 0, "*", 1, "*">>
HoursRow(n)   == <<"", 0, "*/", n, "*">>
DailyRow      == <<"", 0, "", 0, "*">>

\* The minutes on which an expression of cron fires, by its fields: every n-th
\* minute, every hour, every n-th hour, or once.
LEMMA FiresEveryMinutes ==
    ASSUME NEW n \in 1..60
    PROVE  L!CronMinutes(MinutesRow(n)) = Fired(DayHours, EveryMinutes(n))
<1> DEFINE Fits(mark, n0, k) == CASE mark = "" -> k = n0 [] mark = "*" -> TRUE [] OTHER -> k % n0 = 0
           x == <<"*/", n, "*", 1, "*">>
<1>1. x[1] = "*/" /\ x[2] = n /\ x[3] = "*" /\ x[4] = 1
  OBVIOUS
<1>2. {k \in 0..23 : Fits("*", 1, k)} = DayHours
  BY DEF DayHours
<1>3. {k \in 0..59 : Fits("*/", n, k)} = EveryMinutes(n)
  BY DEF EveryMinutes, HourMinutes, Divides
<1>4. L!CronMinutes(x) = Fired({k \in 0..23 : Fits(x[3], x[4], k)},
                             {k \in 0..59 : Fits(x[1], x[2], k)})
  BY DEF L!CronMinutes, Fired, At
<1> HIDE DEF Fits, x
<1>5. /\ {k \in 0..23 : Fits(x[3], x[4], k)} = DayHours
      /\ {k \in 0..59 : Fits(x[1], x[2], k)} = EveryMinutes(n)
  BY <1>1, <1>2, <1>3
<1>6. L!CronMinutes(x) = Fired(DayHours, EveryMinutes(n))
  BY <1>4, <1>5
<1>. QED
  BY <1>6 DEF x, MinutesRow

LEMMA FiresEveryHour ==
    L!CronMinutes(HourlyRow) = Fired(DayHours, {0})
<1> DEFINE Fits(mark, n0, k) == CASE mark = "" -> k = n0 [] mark = "*" -> TRUE [] OTHER -> k % n0 = 0
           x == <<"", 0, "*", 1, "*">>
<1>1. x[1] = "" /\ x[2] = 0 /\ x[3] = "*" /\ x[4] = 1
  OBVIOUS
<1>2. {k \in 0..23 : Fits("*", 1, k)} = DayHours
  BY DEF DayHours
<1>3. {k \in 0..59 : Fits("", 0, k)} = {0}
  OBVIOUS
<1>4. L!CronMinutes(x) = Fired({k \in 0..23 : Fits(x[3], x[4], k)},
                             {k \in 0..59 : Fits(x[1], x[2], k)})
  BY DEF L!CronMinutes, Fired, At
<1> HIDE DEF Fits, x
<1>5. /\ {k \in 0..23 : Fits(x[3], x[4], k)} = DayHours
      /\ {k \in 0..59 : Fits(x[1], x[2], k)} = {0}
  BY <1>1, <1>2, <1>3
<1>6. L!CronMinutes(x) = Fired(DayHours, {0})
  BY <1>4, <1>5
<1>. QED
  BY <1>6 DEF x, HourlyRow

LEMMA FiresEveryHours ==
    ASSUME NEW n \in 1..60
    PROVE  L!CronMinutes(HoursRow(n)) = Fired(EveryHours(n), {0})
<1> DEFINE Fits(mark, n0, k) == CASE mark = "" -> k = n0 [] mark = "*" -> TRUE [] OTHER -> k % n0 = 0
           x == <<"", 0, "*/", n, "*">>
<1>1. x[1] = "" /\ x[2] = 0 /\ x[3] = "*/" /\ x[4] = n
  OBVIOUS
<1>2. {k \in 0..23 : Fits("*/", n, k)} = EveryHours(n)
  BY DEF EveryHours, DayHours, Divides
<1>3. {k \in 0..59 : Fits("", 0, k)} = {0}
  OBVIOUS
<1>4. L!CronMinutes(x) = Fired({k \in 0..23 : Fits(x[3], x[4], k)},
                             {k \in 0..59 : Fits(x[1], x[2], k)})
  BY DEF L!CronMinutes, Fired, At
<1> HIDE DEF Fits, x
<1>5. /\ {k \in 0..23 : Fits(x[3], x[4], k)} = EveryHours(n)
      /\ {k \in 0..59 : Fits(x[1], x[2], k)} = {0}
  BY <1>1, <1>2, <1>3
<1>6. L!CronMinutes(x) = Fired(EveryHours(n), {0})
  BY <1>4, <1>5
<1>. QED
  BY <1>6 DEF x, HoursRow

LEMMA FiresDaily ==
    L!CronMinutes(DailyRow) = Fired({0}, {0})
<1> DEFINE Fits(mark, n0, k) == CASE mark = "" -> k = n0 [] mark = "*" -> TRUE [] OTHER -> k % n0 = 0
           x == <<"", 0, "", 0, "*">>
<1>1. x[1] = "" /\ x[2] = 0 /\ x[3] = "" /\ x[4] = 0
  OBVIOUS
<1>2. {k \in 0..23 : Fits("", 0, k)} = {0}
  OBVIOUS
<1>3. {k \in 0..59 : Fits("", 0, k)} = {0}
  OBVIOUS
<1>4. L!CronMinutes(x) = Fired({k \in 0..23 : Fits(x[3], x[4], k)},
                             {k \in 0..59 : Fits(x[1], x[2], k)})
  BY DEF L!CronMinutes, Fired, At
<1> HIDE DEF Fits, x
<1>5. /\ {k \in 0..23 : Fits(x[3], x[4], k)} = {0}
      /\ {k \in 0..59 : Fits(x[1], x[2], k)} = {0}
  BY <1>1, <1>2, <1>3
<1>6. L!CronMinutes(x) = Fired({0}, {0})
  BY <1>4, <1>5
<1>. QED
  BY <1>6 DEF x, DailyRow

\* The rows of _cron_expression for an interval.
LEMMA IntervalRows ==
    ASSUME NEW n \in Int, NEW unit, n >= 1, L!CronInterval(n, unit) # L!Absent
    PROVE  \/ /\ unit = "m" /\ n = 60
              /\ L!CronInterval(n, unit) = HourlyRow
           \/ /\ unit = "m" /\ n \in 1..59 /\ 60 % n = 0
              /\ L!CronInterval(n, unit) = MinutesRow(n)
           \/ /\ unit = "h" /\ n = 24
              /\ L!CronInterval(n, unit) = DailyRow
           \/ /\ unit = "h" /\ n \in 1..23 /\ 24 % n = 0
              /\ L!CronInterval(n, unit) = HoursRow(n)
           \/ /\ unit = "d" /\ n = 1
              /\ L!CronInterval(n, unit) = DailyRow
<1>a. \/ unit = "m" /\ n = 60
      \/ unit = "m" /\ n < 60 /\ 60 % n = 0
      \/ unit = "h" /\ n = 24
      \/ unit = "h" /\ n < 24 /\ 24 % n = 0
      \/ unit = "d" /\ n = 1
  BY DEF L!CronInterval
<1>1. \/ unit = "m" /\ n = 60 /\ ~(n < 60)
      \/ unit = "m" /\ n < 60 /\ 60 % n = 0 /\ n # 60
      \/ unit = "h" /\ n = 24 /\ ~(n < 24)
      \/ unit = "h" /\ n < 24 /\ 24 % n = 0 /\ n # 24
      \/ unit = "d" /\ n = 1
  BY <1>a
<1>2. CASE unit = "m" /\ n = 60 /\ ~(n < 60)
  BY <1>2, Zenon DEF L!CronInterval, MinutesRow, HourlyRow, HoursRow, DailyRow
<1>3. CASE unit = "m" /\ n < 60 /\ 60 % n = 0 /\ n # 60
  <2>1. n \in 1..59
    BY <1>3
  <2> QED
    BY <1>3, <2>1, Zenon DEF L!CronInterval, MinutesRow, HourlyRow, HoursRow, DailyRow
<1>4. CASE unit = "h" /\ n = 24 /\ ~(n < 24)
  BY <1>4, Zenon DEF L!CronInterval, MinutesRow, HourlyRow, HoursRow, DailyRow
<1>5. CASE unit = "h" /\ n < 24 /\ 24 % n = 0 /\ n # 24
  <2>1. n \in 1..23
    BY <1>5
  <2> QED
    BY <1>5, <2>1, Zenon DEF L!CronInterval, MinutesRow, HourlyRow, HoursRow, DailyRow
<1>6. CASE unit = "d" /\ n = 1
  BY <1>6, Zenon DEF L!CronInterval, MinutesRow, HourlyRow, HoursRow, DailyRow
<1>. QED
  BY <1>1, <1>2, <1>3, <1>4, <1>5, <1>6, Zenon

\* An interval rendered for cron fires at that interval.
KeptByCron(n, unit, x) ==
    /\ unit = "m" => CronFiresAt(x, n)
    /\ unit = "h" => CronFiresAt(x, 60 * n)
    /\ unit = "d" => CronFiresAt(x, 1440 * n)
    /\ unit \in {"m", "h", "d"}

LEMMA OnceADay ==
    ASSUME NEW x, x = DailyRow, NEW step, step = 1440
    PROVE  CronFiresAt(x, step)
<1>1. L!CronMinutes(x) = Fired({0}, {0})
  BY FiresDaily
<1>2. DueAt(step, {0}, {0})
  BY DueDaily
<1>. QED
  BY <1>1, <1>2, FiresWhenDue

LEMMA OnceAnHour ==
    ASSUME NEW x, x = HourlyRow
    PROVE  CronFiresAt(x, 60)
<1>1. L!CronMinutes(x) = Fired(DayHours, {0})
  BY FiresEveryHour
<1>. QED
  BY <1>1, DueHourly, FiresWhenDue

LEMMA EveryFewMinutes ==
    ASSUME NEW n \in 1..59, 60 % n = 0, NEW x, x = MinutesRow(n)
    PROVE  CronFiresAt(x, n)
<1>1. n \in 1..60
  OBVIOUS
<1>2. n \in HourSteps
  BY DivisorsOfHour
<1>3. DueAt(n, DayHours, EveryMinutes(n))
  BY <1>2, DueByMinutes
<1>4. L!CronMinutes(x) = Fired(DayHours, EveryMinutes(n))
  BY <1>1, FiresEveryMinutes
<1>. QED
  BY <1>3, <1>4, FiresWhenDue

LEMMA EveryFewHours ==
    ASSUME NEW n \in 1..23, 24 % n = 0, NEW x, x = HoursRow(n)
    PROVE  CronFiresAt(x, 60 * n)
<1>2. n \in DaySteps
  BY DivisorsOfDay
<1>1. n \in 1..60
  BY <1>2 DEF DaySteps
<1>3. DueAt(60 * n, EveryHours(n), {0})
  BY <1>2, DueByHours
<1>4. L!CronMinutes(x) = Fired(EveryHours(n), {0})
  BY <1>1, FiresEveryHours
<1>. QED
  BY <1>3, <1>4, FiresWhenDue

LEMMA CronKeeps ==
    ASSUME NEW n \in Int, NEW unit, n >= 1, L!CronInterval(n, unit) # L!Absent
    PROVE  KeptByCron(n, unit, L!CronInterval(n, unit))
<1> DEFINE x == L!CronInterval(n, unit)
<1>r. \/ unit = "m" /\ n = 60 /\ x = HourlyRow
      \/ unit = "m" /\ n \in 1..59 /\ 60 % n = 0 /\ x = MinutesRow(n)
      \/ unit = "h" /\ n = 24 /\ x = DailyRow
      \/ unit = "h" /\ n \in 1..23 /\ 24 % n = 0 /\ x = HoursRow(n)
      \/ unit = "d" /\ n = 1 /\ x = DailyRow
  BY IntervalRows
<1> HIDE DEF x
<1>2. ASSUME unit = "m", n = 60, x = HourlyRow PROVE KeptByCron(n, unit, x)
  <2>1. CronFiresAt(x, n)
    BY <1>2, OnceAnHour
  <2> QED
    BY <1>2, <2>1 DEF KeptByCron
<1>3. ASSUME unit = "m", n \in 1..59, 60 % n = 0, x = MinutesRow(n)
      PROVE  KeptByCron(n, unit, x)
  <2>1. CronFiresAt(x, n)
    BY <1>3, EveryFewMinutes
  <2> QED
    BY <1>3, <2>1 DEF KeptByCron
<1>4. ASSUME unit = "h", n = 24, x = DailyRow PROVE KeptByCron(n, unit, x)
  <2>1. 60 * n = 1440
    BY <1>4
  <2> DEFINE step == 60 * n
  <2> HIDE DEF step
  <2>2. step = 1440
    BY <2>1 DEF step
  <2>3. CronFiresAt(x, step)
    BY <1>4, <2>2, OnceADay
  <2> QED
    BY <1>4, <2>3, Zenon DEF KeptByCron, step
<1>5. ASSUME unit = "h", n \in 1..23, 24 % n = 0, x = HoursRow(n)
      PROVE  KeptByCron(n, unit, x)
  <2>1. CronFiresAt(x, 60 * n)
    BY <1>5, EveryFewHours
  <2> QED
    BY <1>5, <2>1 DEF KeptByCron
<1>6. ASSUME unit = "d", n = 1, x = DailyRow PROVE KeptByCron(n, unit, x)
  <2>1. 1440 * n = 1440
    BY <1>6
  <2> DEFINE step == 1440 * n
  <2> HIDE DEF step
  <2>2. step = 1440
    BY <2>1 DEF step
  <2>3. CronFiresAt(x, step)
    BY <1>6, <2>2, OnceADay
  <2> QED
    BY <1>6, <2>3, Zenon DEF KeptByCron, step
<1>7. KeptByCron(n, unit, x)
  BY <1>r, <1>2, <1>3, <1>4, <1>5, <1>6
<1>. QED
  BY <1>7 DEF x

LEMMA KeptIsKept ==
    ASSUME NEW n \in Int, NEW unit, NEW x, KeptByCron(n, unit, x)
    PROVE  CronFiresAt(x, n * [m |-> 1, h |-> 60, d |-> 1440][unit])
<1> DEFINE size == [m |-> 1, h |-> 60, d |-> 1440][unit]
<1>1. CASE unit = "m"
  <2>1. size = 1
    BY <1>1
  <2> HIDE DEF size
  <2>2. n * size = n
    BY <2>1
  <2>3. CronFiresAt(x, n)
    BY <1>1 DEF KeptByCron
  <2>4. CronFiresAt(x, n * size)
    BY <2>2, <2>3
  <2> QED
    BY <2>4 DEF size
<1>2. CASE unit = "h"
  <2>1. size = 60
    BY <1>2
  <2> HIDE DEF size
  <2>2. n * size = 60 * n
    BY <2>1
  <2>3. CronFiresAt(x, 60 * n)
    BY <1>2 DEF KeptByCron
  <2>4. CronFiresAt(x, n * size)
    BY <2>2, <2>3
  <2> QED
    BY <2>4 DEF size
<1>3. CASE unit = "d"
  <2>1. size = 1440
    BY <1>3
  <2> HIDE DEF size
  <2>2. n * size = 1440 * n
    BY <2>1
  <2>3. CronFiresAt(x, 1440 * n)
    BY <1>3 DEF KeptByCron
  <2>4. CronFiresAt(x, n * size)
    BY <2>2, <2>3
  <2> QED
    BY <2>4 DEF size
<1>. QED
  BY <1>1, <1>2, <1>3 DEF KeptByCron

----------------------------------------------------------------------------
(* The loops: what the tick carries from its first read to its row         *)

USE LoopCadenceAssumption

\* An entry of the charter file.
Charter == [id: CharterIds, cadence: LoopCadences, tier_ceiling: L!TIER_CEILINGS \cup {"T3"},
            enabled: BOOLEAN, budget_share: Shares \cup {60},
            kill_switch: {"inside", "climbs"}, tagout: BOOLEAN, formed: BOOLEAN]

\* A file of the operator's is a list, of whatever it holds; a charter's cadence
\* is one that was written.
IsList(s) == \E S : s \in Seq(S)

\* The charter a tick decides of is one the loader accepted, and a stop that
\* stood since then and is still held against it still stands.
TickInv ==
    tick.pc # "idle" =>
      /\ tick = [pc |-> tick.pc, charter |-> tick.charter, manual |-> tick.manual,
                 verdict |-> tick.verdict, held |-> tick.held]
      /\ tick.held \subseteq {"halt", "switch"}
      /\ L!EntryParses(tick.charter, FALSE)
      /\ tick.pc # "append" => tick.verdict = "none"
      /\ "halt" \in tick.held => halt
      /\ "switch" \in tick.held => tick.charter.id \in switches
      /\ tick.pc = "decide" => "halt" \notin tick.held
      /\ tick.pc = "append" /\ tick.verdict = "DRY-RUN"
           => tick.held = {} /\ tick.charter.enabled

TicksInv == L!StopsAreHonoured /\ IsList(ticks)

\* The charter file and the export of the schedule.
FilesInv == /\ IsList(schedule) /\ IsList(charterFile)
            /\ \A i \in DOMAIN charterFile : charterFile[i] \in Charter

LoopsInv == TickInv /\ TicksInv /\ FilesInv

LEMMA ListGrows ==
    ASSUME NEW s, IsList(s), NEW e
    PROVE  /\ IsList(Append(s, e)) /\ Len(s) \in Nat /\ DOMAIN s = 1..Len(s)
           /\ DOMAIN Append(s, e) = 1..(Len(s) + 1) /\ Len(Append(s, e)) = Len(s) + 1
           /\ Append(s, e)[Len(s) + 1] = e
           /\ \A i \in 1..Len(s) : Append(s, e)[i] = s[i]
<1>1. PICK S : s \in Seq(S)
  BY DEF IsList
<1> DEFINE T == S \cup {e}
<1>2. s \in Seq(T) /\ e \in T
  BY <1>1
<1>3. Append(s, e) \in Seq(T)
  BY <1>2, AppendProperties
<1>. QED
  BY <1>2, <1>3, AppendProperties DEF IsList

LEMMA ListChanges ==
    ASSUME NEW s, IsList(s), NEW i \in DOMAIN s, NEW x
    PROVE  IsList([s EXCEPT ![i] = x]) /\ DOMAIN [s EXCEPT ![i] = x] = DOMAIN s
<1>1. PICK S : s \in Seq(S)
  BY DEF IsList
<1> DEFINE T == S \cup {x}
<1>2. s \in Seq(T) /\ x \in T
  BY <1>1
<1> HIDE DEF T
<1>3. [s EXCEPT ![i] = x] \in Seq(T)
  BY <1>2, ExceptSeq
<1>. QED
  BY <1>2, <1>3 DEF IsList

\* One field of one entry changes, to a value the operator writes there.
LEMMA CharterEdited ==
    ASSUME NEW e \in Charter, NEW f \in L!Fields
    PROVE  [e EXCEPT ![f[1]] = f[2]] \in Charter
<1>1. CASE f = <<"enabled", TRUE>>
  BY <1>1 DEF Charter
<1>0. CASE f = <<"enabled", FALSE>>
  BY <1>0 DEF Charter
<1>2. CASE f = <<"tagout", TRUE>>
  BY <1>2 DEF Charter
<1>3. CASE f = <<"tier_ceiling", "T3">>
  BY <1>3 DEF Charter
<1>4. CASE f = <<"kill_switch", "climbs">>
  BY <1>4 DEF Charter
<1>5. CASE f = <<"formed", FALSE>>
  BY <1>5 DEF Charter
<1>6. ASSUME NEW s \in Shares, f = <<"budget_share", s>>
      PROVE  [e EXCEPT ![f[1]] = f[2]] \in Charter
  BY <1>6 DEF Charter
<1>7. ASSUME NEW c \in LoopCadences, f = <<"cadence", c>>
      PROVE  [e EXCEPT ![f[1]] = f[2]] \in Charter
  BY <1>7 DEF Charter
<1>. QED
  BY <1>0, <1>1, <1>2, <1>3, <1>4, <1>5, <1>6, <1>7 DEF L!Fields

LEMMA LoopsInitInv == L!LoopsInit => LoopsInv
<1> SUFFICES ASSUME L!LoopsInit PROVE LoopsInv
  OBVIOUS
<1>1. tick.pc = "idle" /\ charterFile = <<>> /\ schedule = <<>> /\ ticks = <<>>
  BY DEF L!LoopsInit, L!IdleTick
<1>2. IsList(<<>>) /\ DOMAIN <<>> = {}
  BY <<>> \in Seq({}) DEF IsList
<1>3. FilesInv
  BY <1>1, <1>2 DEF FilesInv
<1>4. TicksInv
  BY <1>1, <1>2 DEF TicksInv, L!StopsAreHonoured
<1>. QED
  BY <1>1, <1>3, <1>4 DEF LoopsInv, TickInv

\* The operator writes a file: the tick and its stops are as they were.
LEMMA FilesKeep ==
    ASSUME LoopsInv, UNCHANGED <<halt, switches, tick, ticks>>, FilesInv'
    PROVE  LoopsInv'
<1>1. TickInv'
  BY DEF LoopsInv, TickInv
<1>2. TicksInv'
  BY DEF LoopsInv, TicksInv, L!StopsAreHonoured
<1>. QED
  BY <1>1, <1>2 DEF LoopsInv

LEMMA WriteCharterKeeps ==
    ASSUME LoopsInv, NEW id \in CharterIds, NEW c \in LoopCadences, L!WriteCharter(id, c)
    PROVE  LoopsInv'
<1>1. L!Written(id, c) \in Charter
  BY DEF L!Written, Charter, L!TIER_CEILINGS
<1>2. charterFile' = Append(charterFile, L!Written(id, c)) /\ schedule' = schedule
  BY DEF L!WriteCharter
<1>3. FilesInv'
  BY <1>1, <1>2, ListGrows DEF LoopsInv, FilesInv
<1>. QED
  BY <1>3, FilesKeep DEF L!WriteCharter

LEMMA EditCharterKeeps ==
    ASSUME LoopsInv, NEW i \in DOMAIN charterFile, NEW f \in L!Fields, L!EditCharter(i, f)
    PROVE  LoopsInv'
<1> DEFINE e == [charterFile[i] EXCEPT ![f[1]] = f[2]]
<1>1. charterFile[i] \in Charter /\ e \in Charter
  BY CharterEdited DEF LoopsInv, FilesInv
<1>2. charterFile' = [charterFile EXCEPT ![i] = e] /\ schedule' = schedule
  BY DEF L!EditCharter
<1> HIDE DEF e
<1>3. FilesInv'
  BY <1>1, <1>2, ListChanges DEF LoopsInv, FilesInv
<1>. QED
  BY <1>3, FilesKeep DEF L!EditCharter

LEMMA InstallKeeps ==
    ASSUME LoopsInv, NEW i \in DOMAIN charterFile, NEW h \in Hosts, NEW l \in BOOLEAN,
           L!Install(i, h, l)
    PROVE  LoopsInv'
<1>1. PICK b : schedule' = Append(schedule, b) /\ charterFile' = charterFile
  BY DEF L!Install
<1>2. FilesInv'
  BY <1>1, ListGrows DEF LoopsInv, FilesInv
<1>. QED
  BY <1>2, FilesKeep DEF L!Install

LEMMA EditBindingKeeps ==
    ASSUME LoopsInv, NEW i \in DOMAIN schedule, NEW field, NEW v, L!EditBinding(i, field, v)
    PROVE  LoopsInv'
<1> DEFINE e == [schedule[i] EXCEPT ![field] = v]
<1>1. schedule' = [schedule EXCEPT ![i] = e] /\ charterFile' = charterFile
  BY DEF L!EditBinding
<1> HIDE DEF e
<1>2. FilesInv'
  BY <1>1, ListChanges DEF LoopsInv, FilesInv
<1>. QED
  BY <1>2, FilesKeep DEF L!EditBinding

\* What is lifted is taken off the tick that held it.
LEMMA LiftedFine ==
    ASSUME TickInv, tick.pc # "idle", NEW what
    PROVE  LET t == L!StillHeld(what)
           IN  /\ t = [pc |-> tick.pc, charter |-> tick.charter, manual |-> tick.manual,
                       verdict |-> tick.verdict, held |-> tick.held \ {what}]
               /\ t.pc = tick.pc /\ t.charter = tick.charter /\ t.manual = tick.manual
               /\ t.verdict = tick.verdict /\ t.held = tick.held \ {what}
<1>1. L!StillHeld(what) = [tick EXCEPT !.held = @ \ {what}]
  BY DEF L!StillHeld
<1>2. tick = [pc |-> tick.pc, charter |-> tick.charter, manual |-> tick.manual,
              verdict |-> tick.verdict, held |-> tick.held]
  BY DEF TickInv
<1>3. L!StillHeld(what) = [pc |-> tick.pc, charter |-> tick.charter, manual |-> tick.manual,
                           verdict |-> tick.verdict, held |-> tick.held \ {what}]
  BY <1>1, <1>2
<1>. QED
  BY <1>3

\* Stops may come and go around a tick.
LEMMA StopsKeep ==
    ASSUME LoopsInv, UNCHANGED <<charterFile, schedule, ticks>>, TickInv'
    PROVE  LoopsInv'
<1>1. FilesInv' /\ TicksInv'
  BY DEF LoopsInv, FilesInv, TicksInv, L!StopsAreHonoured
<1>. QED
  BY <1>1 DEF LoopsInv

LEMMA SetHaltKeeps ==
    ASSUME LoopsInv, NEW on \in BOOLEAN, L!SetHalt(on)
    PROVE  LoopsInv'
<1>1. /\ halt' = on /\ switches' = switches
      /\ tick' = IF on THEN tick ELSE L!StillHeld("halt")
      /\ UNCHANGED <<charterFile, schedule, ticks>>
  BY DEF L!SetHalt
<1>2. TickInv'
  <2>1. CASE on
    BY <1>1, <2>1 DEF LoopsInv, TickInv
  <2>2. CASE ~on /\ tick.pc = "idle"
    BY <1>1, <2>2 DEF TickInv, L!StillHeld
  <2>3. CASE ~on /\ tick.pc # "idle"
    BY <1>1, <2>3, LiftedFine DEF LoopsInv, TickInv
  <2> QED
    BY <2>1, <2>2, <2>3
<1>. QED
  BY <1>1, <1>2, StopsKeep

LEMMA SetSwitchKeeps ==
    ASSUME LoopsInv, NEW id \in CharterIds, NEW on \in BOOLEAN, L!SetSwitch(id, on)
    PROVE  LoopsInv'
<1>1. /\ halt' = halt /\ switches' = IF on THEN switches \cup {id} ELSE switches \ {id}
      /\ tick' = IF ~on /\ tick.pc # "idle" /\ tick.charter.id = id
                   THEN L!StillHeld("switch") ELSE tick
      /\ UNCHANGED <<charterFile, schedule, ticks>>
  BY DEF L!SetSwitch
<1>2. TickInv'
  <2>1. CASE ~on /\ tick.pc # "idle" /\ tick.charter.id = id
    BY <1>1, <2>1, LiftedFine DEF LoopsInv, TickInv
  <2>2. CASE ~(~on /\ tick.pc # "idle" /\ tick.charter.id = id)
    BY <1>1, <2>2 DEF LoopsInv, TickInv
  <2> QED
    BY <2>1, <2>2
<1>. QED
  BY <1>1, <1>2, StopsKeep

LEMMA TickLoadKeeps ==
    ASSUME LoopsInv, NEW i \in DOMAIN charterFile, NEW m \in BOOLEAN, L!TickLoad(i, m)
    PROVE  LoopsInv'
<1> DEFINE held == {w \in {"halt", "switch"} :
                      IF w = "halt" THEN halt ELSE charterFile[i].id \in switches}
           t == [pc |-> "marker", charter |-> charterFile[i], manual |-> m,
                 verdict |-> "none", held |-> held]
<1>1. tick' = t /\ UNCHANGED <<charterFile, schedule, halt, switches, ticks>>
  BY DEF L!TickLoad
<1>2. L!EntryParses(charterFile[i], FALSE)
  BY DEF L!TickLoad, L!ParseCharters
<1>3. /\ held \subseteq {"halt", "switch"} /\ ("halt" \in held => halt)
      /\ ("switch" \in held => charterFile[i].id \in switches)
  OBVIOUS
<1> HIDE DEF held
<1>4. TickInv'
  BY <1>1, <1>2, <1>3 DEF TickInv
<1>. QED
  BY <1>1, <1>4, StopsKeep

LEMMA TickMarkerKeeps == LoopsInv /\ L!TickMarker => LoopsInv'
<1> SUFFICES ASSUME LoopsInv, L!TickMarker PROVE LoopsInv'
  OBVIOUS
<1>1. /\ tick.pc = "marker" /\ UNCHANGED <<charterFile, schedule, halt, switches, ticks>>
      /\ tick' = IF halt THEN [tick EXCEPT !.pc = "append", !.verdict = "REFUSED"]
                 ELSE [tick EXCEPT !.pc = "decide"]
  BY DEF L!TickMarker
<1> DEFINE T(pc, v) == [pc |-> pc, charter |-> tick.charter, manual |-> tick.manual,
                        verdict |-> v, held |-> tick.held]
<1>2. tick = T("marker", "none")
  BY <1>1 DEF LoopsInv, TickInv
<1>3. CASE halt
  <2>1. tick' = T("append", "REFUSED")
    BY <1>1, <1>2, <1>3
  <2>2. TickInv'
    BY <1>1, <1>3, <2>1 DEF LoopsInv, TickInv
  <2> QED
    BY <1>1, <2>2, StopsKeep
<1>4. CASE ~halt
  <2>1. tick' = T("decide", "none")
    BY <1>1, <1>2, <1>4
  <2>2. TickInv'
    BY <1>1, <1>4, <2>1 DEF LoopsInv, TickInv
  <2> QED
    BY <1>1, <2>2, StopsKeep
<1>. QED
  BY <1>3, <1>4

LEMMA TickDecidedKeeps == LoopsInv /\ L!TickDecided => LoopsInv'
<1> SUFFICES ASSUME LoopsInv, L!TickDecided PROVE LoopsInv'
  OBVIOUS
<1> DEFINE v == L!TickVerdict(tick.charter, tick.manual, tick.charter.id \in switches)
           T(pc, w) == [pc |-> pc, charter |-> tick.charter, manual |-> tick.manual,
                        verdict |-> w, held |-> tick.held]
<1>1. /\ tick.pc = "decide" /\ UNCHANGED <<charterFile, schedule, halt, switches, ticks>>
      /\ tick' = [tick EXCEPT !.pc = "append", !.verdict = v]
  BY DEF L!TickDecided
<1>2. tick = T("decide", "none")
  BY <1>1 DEF LoopsInv, TickInv
<1>3. v = "DRY-RUN" => tick.charter.id \notin switches /\ tick.charter.enabled
  BY DEF L!TickVerdict
<1> HIDE DEF v
<1>4. tick' = T("append", v)
  BY <1>1, <1>2
<1>5. v = "DRY-RUN" => tick.held = {} /\ tick.charter.enabled
  BY <1>1, <1>3 DEF LoopsInv, TickInv
<1>6. TickInv'
  BY <1>1, <1>4, <1>5 DEF LoopsInv, TickInv
<1>. QED
  BY <1>1, <1>6, StopsKeep

LEMMA TickAppendKeeps ==
    ASSUME LoopsInv, NEW r \in BOOLEAN, L!TickAppend(r)
    PROVE  LoopsInv'
<1>1. /\ tick.pc = "append" /\ UNCHANGED <<charterFile, schedule, halt, switches>>
      /\ tick' = L!IdleTick
      /\ ticks' = IF r THEN Append(ticks, L!TickRecord(tick)) ELSE ticks
  BY DEF L!TickAppend
<1>2. TickInv' /\ FilesInv'
  BY <1>1 DEF TickInv, L!IdleTick, LoopsInv, FilesInv
<1>3. L!TickRecord(tick).verdict = "DRY-RUN" =>
         /\ L!TickRecord(tick).held = {} /\ L!TickRecord(tick).charter.enabled
         /\ L!EntryParses(L!TickRecord(tick).charter, FALSE)
  BY <1>1 DEF L!TickRecord, LoopsInv, TickInv
<1> DEFINE x == L!TickRecord(tick)
<1> HIDE DEF x
<1>4. TicksInv'
  <2>1. CASE ~r
    BY <2>1, <1>1 DEF LoopsInv, TicksInv, L!StopsAreHonoured
  <2>2. CASE r
    <3>1. ticks' = Append(ticks, x)
      BY <1>1, <2>2 DEF x
    <3>2. IsList(ticks)
      BY DEF LoopsInv, TicksInv
    <3>3. /\ Len(ticks') = Len(ticks) + 1 /\ Len(ticks) \in Nat
          /\ DOMAIN ticks = 1..Len(ticks)
          /\ DOMAIN ticks' = 1..(Len(ticks) + 1) /\ ticks'[Len(ticks) + 1] = x
          /\ \A i \in 1..Len(ticks) : ticks'[i] = ticks[i]
      BY <3>1, <3>2, ListGrows
    <3>4. L!StopsAreHonoured'
      <4> SUFFICES ASSUME NEW n \in DOMAIN ticks', ticks'[n].verdict = "DRY-RUN"
                   PROVE  /\ ticks'[n].held = {} /\ ticks'[n].charter.enabled
                          /\ L!EntryParses(ticks'[n].charter, FALSE)
        BY DEF L!StopsAreHonoured
      <4>1. CASE n \in DOMAIN ticks
        BY <4>1, <3>3 DEF LoopsInv, TicksInv, L!StopsAreHonoured
      <4>2. CASE n = Len(ticks) + 1
        BY <4>2, <3>3, <1>3 DEF x
      <4>3. n \in DOMAIN ticks \/ n = Len(ticks) + 1
        BY <3>3
      <4> QED
        BY <4>1, <4>2, <4>3
    <3>5. IsList(ticks')
      BY <3>1, <3>2, ListGrows
    <3> QED
      BY <3>4, <3>5 DEF TicksInv
  <2> QED
    BY <2>1, <2>2
<1>. QED
  BY <1>2, <1>4 DEF LoopsInv

LEMMA LoopsNextInv == LoopsInv /\ [L!LoopsNext]_L!loopsVars => LoopsInv'
<1> SUFFICES ASSUME LoopsInv, [L!LoopsNext]_L!loopsVars PROVE LoopsInv'
  OBVIOUS
<1>1. CASE UNCHANGED L!loopsVars
  <2>1. UNCHANGED <<charterFile, schedule, halt, switches, tick, ticks>>
    BY <1>1 DEF L!loopsVars
  <2>2. FilesInv'
    BY <2>1 DEF LoopsInv, FilesInv
  <2> QED
    BY <2>1, <2>2, FilesKeep
<1>. QED
  BY <1>1, WriteCharterKeeps, EditCharterKeeps, InstallKeeps, EditBindingKeeps, SetHaltKeeps,
     SetSwitchKeeps, TickLoadKeeps, TickMarkerKeeps, TickDecidedKeeps, TickAppendKeeps
     DEF L!LoopsNext

\* A posture that passes was reached without one finding that degrades or drifts.
LEMMA PassingPosture ==
    ASSUME NEW codes, L!Posture(codes) \in {"CONFORMANT", "ATTENTION"}
    PROVE  \A c \in codes : L!PostureOf(c) # "DEGRADED" /\ L!PostureOf(c) # "DRIFTED"
BY DEF L!Posture

\* What a bound charter is told, when it is told nothing that drifts.
LEMMA BoundIsAuthorised ==
    ASSUME NEW c, NEW b, NEW host, b.enabled,
           L!PostureOf(L!BoundFinding(c, b, host, "windowless")) # "DRIFTED"
    PROVE  /\ c.enabled /\ L!Scheduled(c.cadence)
           /\ b.cadence \in {L!Absent, L!Render(host, c.cadence, "windowless")}
<1> DEFINE code == L!BoundFinding(c, b, host, "windowless")
           cad  == L!CadenceFinding(c, b, host, "windowless")
           ren  == L!Render(host, c.cadence, "windowless")
<1>1. c.enabled
  <2> SUFFICES ASSUME ~c.enabled PROVE FALSE
    OBVIOUS
  <2>1. code = "UNCHARTERED-RUN"
    BY DEF L!BoundFinding
  <2> QED
    BY <2>1 DEF L!PostureOf
<1>2. code = IF ~L!Scheduled(c.cadence) THEN "MANUAL-BOUND" ELSE cad
  BY <1>1 DEF L!BoundFinding
<1>3. L!PostureOf("MANUAL-BOUND") = "DRIFTED"
  BY DEF L!PostureOf
<1>4. L!Scheduled(c.cadence) /\ code = cad
  BY <1>2, <1>3
<1>5. cad = CASE ren = L!Absent -> "UNRENDERABLE"
              [] ren # L!Absent /\ b.cadence # L!Absent /\ b.cadence # ren -> "CADENCE-DRIFT"
              [] OTHER -> "OK"
  BY DEF L!CadenceFinding
<1>6. L!PostureOf("CADENCE-DRIFT") = "DRIFTED" /\ L!PostureOf("UNRENDERABLE") = "DRIFTED"
  BY DEF L!PostureOf
<1> HIDE DEF ren, cad, code
<1>7. b.cadence \in {L!Absent, ren}
  <2> SUFFICES ASSUME b.cadence # L!Absent, b.cadence # ren PROVE FALSE
    OBVIOUS
  <2>1. cad = "UNRENDERABLE" \/ cad = "CADENCE-DRIFT"
    BY <1>5
  <2> QED
    BY <2>1, <1>4, <1>6 DEF code
<1>. QED
  BY <1>1, <1>4, <1>7 DEF ren

\* No binding is an orphan: every one is of a charter, and the only one of it.
LEMMA NoOrphans ==
    ASSUME NEW cs, NEW all, NEW places \in SUBSET Int, L!Orphans(cs, all, places) = {},
           NEW i \in places
    PROVE  /\ \E k \in DOMAIN cs : cs[k].id = all[i].id
           /\ \A j \in places : all[j].id = all[i].id => j = i
           /\ L!FirstOf(all, places, all[i].id) = all[i]
<1>1. /\ \A j \in places : \E k \in DOMAIN cs : cs[k].id = all[j].id
      /\ \A j, k \in places : j < k => all[j].id # all[k].id
  BY DEF L!Orphans
<1>2. \A j \in places : all[j].id = all[i].id => j = i
  <2> SUFFICES ASSUME NEW j \in places, all[j].id = all[i].id PROVE j = i
    OBVIOUS
  <2>1. ~(j < i) /\ ~(i < j) /\ i \in Int /\ j \in Int
    BY <1>1
  <2> QED
    BY <2>1
<1> DEFINE First(j) == all[j].id = all[i].id
                          /\ \A k \in places : all[k].id = all[i].id => j <= k
<1>3. First(i)
  BY <1>2
<1>4. \A j \in places : First(j) => j = i
  BY <1>2
<1>5. (CHOOSE j \in places : First(j)) = i
  <2> HIDE DEF First
  <2> QED
    BY <1>3, <1>4
<1>. QED
  BY <1>1, <1>2, <1>5 DEF L!FirstOf

\* What the findings of a report are made of.
LEMMA FindingsAre ==
    ASSUME NEW cs, NEW all, NEW host, NEW k \in DOMAIN cs,
           NEW i \in L!ForHost(all, host), all[i].id = cs[k].id
    PROVE  L!BoundFinding(cs[k], L!FirstOf(all, L!ForHost(all, host), cs[k].id),
                          host, "windowless")
              \in L!Findings(cs, all, host, "windowless", FALSE)
BY DEF L!Findings

LEMMA OrphansAreFound ==
    ASSUME NEW cs, NEW all, NEW host, L!Orphans(cs, all, L!ForHost(all, host)) # {}
    PROVE  "ORPHAN" \in L!Findings(cs, all, host, "windowless", FALSE)
BY DEF L!Findings

\* A check that passes read the export, and none of its findings drifts.
LEMMA PassingCheck ==
    ASSUME NEW cs, NEW bs, NEW host, NEW formed \in BOOLEAN,
           L!CmdCheck(cs, bs, host, "windowless", formed) \in {"CONFORMANT", "ATTENTION"}
    PROVE  /\ formed
           /\ \A c \in L!Findings(cs, bs, host, "windowless", FALSE) :
                 L!PostureOf(c) # "DRIFTED"
<1> DEFINE r == L!ParseBindings(bs, formed)
           codes == L!Findings(cs, IF r THEN bs ELSE <<>>, host, "windowless", ~r)
<1>1. L!Posture(codes) \in {"CONFORMANT", "ATTENTION"}
  BY DEF L!CmdCheck
<1>2. ~r => "UNREADABLE" \in codes
  BY DEF L!Findings
<1>3. L!PostureOf("UNREADABLE") = "DEGRADED"
  BY DEF L!PostureOf
<1>4. r => codes = L!Findings(cs, bs, host, "windowless", FALSE)
  <2> SUFFICES ASSUME r PROVE codes = L!Findings(cs, bs, host, "windowless", FALSE)
    OBVIOUS
  <2>1. r = TRUE
    BY DEF L!ParseBindings
  <2> HIDE DEF r
  <2> QED
    BY <2>1
<1>5. r => formed
  BY DEF L!ParseBindings
<1> HIDE DEF codes, r
<1>6. \A c \in codes : L!PostureOf(c) # "DEGRADED" /\ L!PostureOf(c) # "DRIFTED"
  BY <1>1, PassingPosture
<1>7. r
  BY <1>2, <1>3, <1>6
<1>. QED
  BY <1>4, <1>5, <1>6, <1>7

\* A host whose report passes runs what its charters authorise.
LEMMA HostAuthorised == IsList(schedule) => L!PassingHostIsAuthorised
<1> SUFFICES ASSUME IsList(schedule) PROVE L!PassingHostIsAuthorised
  OBVIOUS
<1>1. ASSUME NEW host \in Hosts
      PROVE  ~(L!CmdCheck(charterFile, schedule, host, "windowless", FALSE)
                  \in {"CONFORMANT", "ATTENTION"})
  BY PassingCheck
<1>2. ASSUME NEW host \in Hosts,
             L!CmdCheck(charterFile, schedule, host, "windowless", TRUE)
                \in {"CONFORMANT", "ATTENTION"},
             NEW i \in L!ForHost(schedule, host), schedule[i].enabled
      PROVE  /\ \A j \in L!ForHost(schedule, host) : schedule[j].id = schedule[i].id => j = i
             /\ \E k \in DOMAIN charterFile :
                  /\ charterFile[k].id = schedule[i].id /\ charterFile[k].enabled
                  /\ L!Scheduled(charterFile[k].cadence)
                  /\ schedule[i].cadence
                       \in {L!Absent, L!Render(host, charterFile[k].cadence, "windowless")}
  <2> DEFINE places == L!ForHost(schedule, host)
             codes  == L!Findings(charterFile, schedule, host, "windowless", FALSE)
  <2>1. \A code \in codes : L!PostureOf(code) # "DRIFTED"
    BY <1>2, PassingCheck
  <2>2. places \in SUBSET Int
    <3>1. PICK S : schedule \in Seq(S)
      BY DEF IsList
    <3>2. DOMAIN schedule \subseteq Int
      BY <3>1
    <3> QED
      BY <3>2 DEF L!ForHost
  <2>3. L!PostureOf("ORPHAN") = "DRIFTED"
    BY DEF L!PostureOf
  <2>4. L!Orphans(charterFile, schedule, places) = {}
    BY <2>1, <2>3, OrphansAreFound
  <2>5. /\ \A j \in places : schedule[j].id = schedule[i].id => j = i
        /\ L!FirstOf(schedule, places, schedule[i].id) = schedule[i]
    BY <1>2, <2>2, <2>4, NoOrphans
  <2>6. PICK k \in DOMAIN charterFile : charterFile[k].id = schedule[i].id
    BY <1>2, <2>2, <2>4, NoOrphans
  <2>7. L!BoundFinding(charterFile[k], schedule[i], host, "windowless") \in codes
    BY <1>2, <2>5, <2>6, FindingsAre
  <2>8. L!PostureOf(L!BoundFinding(charterFile[k], schedule[i], host, "windowless"))
           # "DRIFTED"
    BY <2>1, <2>7
  <2>9. /\ charterFile[k].enabled /\ L!Scheduled(charterFile[k].cadence)
        /\ schedule[i].cadence
             \in {L!Absent, L!Render(host, charterFile[k].cadence, "windowless")}
    BY <2>8, <1>2, BoundIsAuthorised
  <2> QED
    BY <2>5, <2>6, <2>9
<1>. QED
  BY <1>1, <1>2 DEF L!PassingHostIsAuthorised

LEMMA HostKeepsCharterHolds == LoopsInv => HostKeepsCharter
<1> SUFFICES ASSUME LoopsInv PROVE HostKeepsCharter
  OBVIOUS
<1>1. L!PassingHostIsAuthorised
  BY HostAuthorised DEF LoopsInv, FilesInv
<1>2. L!CronKeepsInterval
  <2> SUFFICES ASSUME NEW i \in DOMAIN charterFile
               PROVE  LET c    == charterFile[i].cadence
                          Size == [m |-> 1, h |-> 60, d |-> 1440]
                          x    == L!CronExpression(c)
                      IN  (L!CadenceParses(c) /\ c.kind = "interval" /\ x # L!Absent) =>
                            LET step == c.every * Size[c.unit]
                            IN  /\ 1440 % step = 0
                                /\ L!CronMinutes(x) =
                                     {step * k : k \in 0..(1440 \div step - 1)}
    BY DEF L!CronKeepsInterval
  <2> DEFINE c == charterFile[i].cadence
             Size == [m |-> 1, h |-> 60, d |-> 1440]
             step == c.every * Size[c.unit]
  <2>1. c \in LoopCadences
    BY DEF LoopsInv, FilesInv, Charter
  <2> HIDE DEF c
  <2>2. ASSUME L!CadenceParses(c), c.kind = "interval", L!CronExpression(c) # L!Absent
        PROVE  CronFiresAt(L!CronExpression(c), step)
    <3>1. c.every \in Int /\ c.every >= 1
      BY <2>1, <2>2 DEF L!CadenceParses
    <3>2. L!CronExpression(c) = L!CronInterval(c.every, c.unit)
      BY <2>2 DEF L!CronExpression
    <3>3. L!CronInterval(c.every, c.unit) # L!Absent
      BY <2>2, <3>2
    <3>4. KeptByCron(c.every, c.unit, L!CronInterval(c.every, c.unit))
      BY <3>1, <3>3, CronKeeps
    <3>5. CronFiresAt(L!CronInterval(c.every, c.unit), step)
      BY <3>1, <3>4, KeptIsKept
    <3> QED
      BY <3>2, <3>5
  <2> HIDE DEF step
  <2>3. (L!CadenceParses(c) /\ c.kind = "interval" /\ L!CronExpression(c) # L!Absent) =>
           /\ 1440 % step = 0
           /\ L!CronMinutes(L!CronExpression(c)) = {step * k : k \in 0..(1440 \div step - 1)}
    BY <2>2 DEF Due, CronFiresAt
  <2> QED
    BY <2>3 DEF c, step
<1>. QED
  BY <1>1, <1>2 DEF HostKeepsCharter

----------------------------------------------------------------------------
(* The three of them unattended on one node, one of them at a time         *)

UnattendedInv == IInv /\ LoopsInv

LEMMA UnattendedInit == MCInit => UnattendedInv
BY InitIInv, LoopsInitInv DEF MCInit, UnattendedInv

LEMMA UnattendedNext ==
    UnattendedInv /\ [MCNext]_<<part, vars, lVars, presenceVars>> => UnattendedInv'
<1> SUFFICES ASSUME UnattendedInv, [MCNext]_<<part, vars, lVars, presenceVars>>
             PROVE  UnattendedInv'
  OBVIOUS
<1>1. [Next]_vars /\ [L!LoopsNext]_L!loopsVars
  BY DEF MCNext, lVars, L!loopsVars
<1>. QED
  BY <1>1, NextIInv, LoopsNextInv DEF UnattendedInv

\* A report of loops check that passes vouches for all that the host schedules:
\* each binding is the only one of a charter that is enabled and has a cadence, and
\* fires when it says; and what cron is given fires at the interval declared, over
\* midnight too (loops/), whatever the operator writes in the charter file and the
\* schedule, of any length.
THEOREM HostKept == MCSpec => []HostKeepsCharter
<1>1. UnattendedInv => HostKeepsCharter
  BY HostKeepsCharterHolds DEF UnattendedInv
<1>. QED
  BY <1>1, UnattendedInit, UnattendedNext, PTL DEF MCSpec

\* No run of the metabolism spends past its envelope, and no tick is recorded as run
\* over a marker or a kill switch that stood the whole time, a charter that was
\* disabled or one the loader refuses, whenever the operator sets and lifts them.
THEOREM LimitsKept == MCSpec => []LimitsHold
<1>1. UnattendedInv => LimitsHold
  BY IInvSpend DEF UnattendedInv, LoopsInv, TicksInv, LimitsHold
<1>. QED
  BY <1>1, UnattendedInit, UnattendedNext, PTL DEF MCSpec

=============================================================================
