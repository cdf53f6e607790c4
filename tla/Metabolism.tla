----------------------------- MODULE Metabolism -----------------------------
(***************************************************************************)
(* intentops_core/metabolism: the four stages (cadence.py), their workers  *)
(* and the run ledger (runner.py), and the heartbeat over the stores they  *)
(* fill (heartbeat.py).  A job is one command, `metabolism run --stage` or *)
(* `metabolism heartbeat --append`, and several may run at once: the only  *)
(* locks are those of the two ledgers.  A document is numbered in the      *)
(* order in which directories list it; its text is not modelled, its id is *)
(* a hash of it.                                                           *)
(***************************************************************************)
EXTENDS Integers, Sequences, FiniteSetsExt

CONSTANTS Jobs,           \* processes that run a command each
          MaxDoc,         \* bound: source documents
          Cadences,       \* the cadence files a node may have: stage -> entry
          MaxItems,       \* envelope: items of one run
          MaxTokens,      \* envelope: tokens of one run
          Reserve,        \* prompt estimate and answer ceiling of one call
          Slack,          \* how far a reported usage may exceed the reserve
          FlatlineDays,   \* dates without movement before the alarm
          MaxCryst,       \* bound: CRYST numbers
          MaxJobs,        \* bound: commands begun
          MaxUpsets,      \* bound: deaths, failed accesses and acts by hand
          MaxDate         \* bound: dates

STAGE_IDS == {"absorb", "distill", "crystallize", "method"}
Seams     == {"null", "callable", "command"}
Verdicts  == {"OK", "WARN", "HALT", "DEGRADED", "SKIPPED"}
Docs      == 1..MaxDoc
NoDoc     == 0

ASSUME BoundAssumption ==
    /\ MaxDoc \in Nat /\ MaxCryst \in Nat /\ MaxDate \in Nat \ {0}
    /\ MaxJobs \in Nat /\ MaxUpsets \in Nat /\ FlatlineDays \in Nat
ASSUME EnvelopeAssumption == MaxItems \in Nat \ {0} /\ MaxTokens \in Nat \ {0}
ASSUME SpendAssumption    == Reserve \in Nat \ {0} /\ Slack \in Nat
ASSUME CadenceAssumption  ==
    Cadences \subseteq [STAGE_IDS -> [enabled: BOOLEAN, seam: Seams,
                                      on_empty: {"warn", "halt"}]]

VARIABLES cadence,      \* the node's cadence file
          absorbed,     \* documents in absorbed/
          candidates,   \* candidates/<doc>.json: none, torn, whole or blank
          patterns,     \* crystallized/CRYST-<n>.md: the document it is from
          runs,         \* runs.jsonl: [stage, verdict, produced] rows
          history,      \* heartbeat.jsonl
          today,        \* the date
          job,          \* what each process is doing
          begun,        \* commands begun
          upsets        \* deaths, failed accesses and acts by hand so far

stores == <<absorbed, candidates, patterns, runs, history>>
count  == <<begun, upsets>>
vars   == <<cadence, stores, today, job, count>>

\* One point of a reading; the other countables raise no alarm.
COUNTABLES == {"absorbed", "crystallized"}

Idle == [at |-> "idle", stage |-> "none", todo |-> {}, made |-> 0, said |-> {},
         number |-> 0, spent |-> 0, verdict |-> "OK", date |-> 0,
         counts |-> [k \in COUNTABLES |-> 0], overlap |-> FALSE]

Reading == [date: 1..MaxDate, counts: [COUNTABLES -> Nat],
            deltas: [COUNTABLES -> Int]]

TypeOK ==
    /\ cadence \in Cadences
    /\ absorbed \subseteq Docs
    /\ candidates \in [Docs -> {"none", "torn", "whole", "blank"}]
    /\ patterns \in [1..MaxCryst -> Docs \cup {NoDoc}]
    /\ runs \subseteq [stage: STAGE_IDS, verdict: Verdicts, produced: 0..MaxItems]
    /\ history \in Seq(Reading)
    /\ today \in 1..MaxDate
    /\ begun \in 0..MaxJobs /\ upsets \in 0..MaxUpsets

\* A node that has absorbed and distilled before, in any number, and may have
\* a first pattern of one of its candidates.
Init ==
    /\ cadence \in Cadences
    /\ absorbed \in SUBSET Docs
    /\ \E d \in SUBSET absorbed :
          /\ candidates = [x \in Docs |-> IF x \in d THEN "whole" ELSE "none"]
          /\ \E first \in d \cup {NoDoc} :
                patterns = [n \in 1..MaxCryst |-> IF n = 1 THEN first ELSE NoDoc]
    /\ runs = {}
    /\ history = <<>>
    /\ today = 1
    /\ job = [j \in Jobs |-> Idle]
    /\ begun = 0 /\ upsets = 0
----------------------------------------------------------------------------
(* Listing                                                                 *)

Candidates == {d \in Docs : candidates[d] # "none"}
Numbers    == {n \in 1..MaxCryst : patterns[n] # NoDoc}

\* The first MaxItems of a sorted listing.
FirstItems(s) == {d \in s : Cardinality({e \in s : e <= d}) <= MaxItems}

\* Mutant: numbering by count, not by the highest number.
NextByCount == Cardinality(Numbers) + 1

\* The highest number in crystallized/ and one.
_next_cryst_number == Max(Numbers \cup {0}) + 1

\* Mutant: distil straight from the source directory.
SourcesUnabsorbed == Docs

_sources == absorbed

Listing(stage) ==
    CASE stage = "absorb"      -> FirstItems(Docs)
      [] stage = "distill"     -> FirstItems(_sources)
      [] stage = "crystallize" -> FirstItems(Candidates)
      [] stage = "method"      -> {}

Crystallizing(j) == job[j].stage = "crystallize" /\ job[j].at = "item"

\* A death, a failed access or an act by hand, of which there are MaxUpsets.
Upset == upsets < MaxUpsets /\ upsets' = upsets + 1
----------------------------------------------------------------------------
(* A stage run                                                             *)

\* A disabled stage is recorded as skipped.  An error before the worker is
\* built leaves no row: resolve_worker_kind refuses the seam, or the command
\* named no source directory or no prompt.
Begin(j, s) ==
    /\ job[j].at = "idle"
    /\ begun < MaxJobs
    /\ begun' = begun + 1
    /\ \/ /\ ~cadence[s].enabled
          /\ job' = [job EXCEPT ![j] = [Idle EXCEPT !.at = "append", !.stage = s,
                                                    !.verdict = "SKIPPED"]]
       \/ /\ cadence[s].enabled /\ cadence[s].seam = "callable"
          /\ job' = [job EXCEPT ![j] = [Idle EXCEPT !.at = "list", !.stage = s]]
       \/ /\ cadence[s].enabled
          /\ cadence[s].seam # "callable" \/ s \in {"absorb", "distill"}
          /\ UNCHANGED job
    /\ UNCHANGED <<cadence, stores, today, upsets>>

\* The worker lists its input; crystallize also fixes its first number, and
\* is marked when another crystallize is under way.
List(j) ==
    LET s == job[j].stage
    IN  /\ job[j].at = "list"
        /\ job' = [k \in Jobs |->
              IF k = j THEN [job[j] EXCEPT !.at = "item", !.todo = Listing(s),
                               !.number = IF s = "crystallize" THEN _next_cryst_number ELSE 0,
                               !.made = IF s = "method"
                                        THEN Cardinality(FirstItems(Numbers)) ELSE 0,
                               !.overlap = \E o \in Jobs \ {j} : Crystallizing(o)]
              ELSE IF s = "crystallize" /\ Crystallizing(k)
                   THEN [job[k] EXCEPT !.overlap = TRUE] ELSE job[k]]
        /\ UNCHANGED <<cadence, stores, today, count>>

\* The next item of the listing is done with; `with` is the job after it.
ItemOf(j, s, d) ==
    job[j].at = "item" /\ job[j].stage = s /\ job[j].todo # {} /\ d = Min(job[j].todo)

Done(j, d) == [job[j] EXCEPT !.todo = @ \ {d}]

\* absorb: an atomic file named by the content, or a refusal that is counted.
AbsorbItem(j, d) ==
    /\ ItemOf(j, "absorb", d)
    /\ \/ /\ absorbed' = absorbed \cup {d}
          /\ job' = [job EXCEPT ![j] = [Done(j, d) EXCEPT !.made = @ + 1]]
       \/ /\ job' = [job EXCEPT ![j] = Done(j, d)]
          /\ UNCHANGED absorbed
    /\ UNCHANGED <<cadence, candidates, patterns, runs, history, today, count>>

\* Mutant: the envelope is checked against what was spent, the call not counted.
OverEnvelopeUnreserved(j) == job[j].spent > MaxTokens

OverEnvelope(j) == job[j].spent + Reserve > MaxTokens

\* distill, per document: the envelope stops the run, or one provider call
\* fails or answers.  A complete answer opens the candidate file, which is
\* truncated before it is written.
DistillItem(j, d) ==
    /\ ItemOf(j, "distill", d)
    /\ \/ /\ OverEnvelope(j)
          /\ job' = [job EXCEPT ![j].todo = {}]
          /\ UNCHANGED candidates
       \/ /\ ~OverEnvelope(j)
          /\ job' = [job EXCEPT ![j] = [Done(j, d) EXCEPT !.said = @ \cup {"failed"}]]
          /\ UNCHANGED candidates
       \/ /\ ~OverEnvelope(j)
          /\ \E c \in {0, Reserve} :
                job' = [job EXCEPT ![j] = [Done(j, d) EXCEPT !.said = @ \cup {"answered"},
                                                             !.spent = @ + c]]
          /\ UNCHANGED candidates
       \/ /\ ~OverEnvelope(j)
          /\ \E c \in {Reserve, Reserve + Slack} :
                job' = [job EXCEPT ![j] = [job[j] EXCEPT !.at = "write", !.spent = @ + c]]
          /\ candidates' = [candidates EXCEPT ![d] = "torn"]
    /\ UNCHANGED <<cadence, absorbed, patterns, runs, history, today, count>>

_write_candidate(j) ==
    LET d == Min(job[j].todo)
    IN  /\ job[j].at = "write"
        /\ candidates' = [candidates EXCEPT ![d] = "whole"]
        /\ job' = [job EXCEPT ![j] = [Done(j, d) EXCEPT !.at = "item", !.made = @ + 1,
                                                        !.said = @ \cup {"answered"}]]
        /\ UNCHANGED <<cadence, absorbed, patterns, runs, history, today, count>>

\* crystallize, per candidate: unreadable, refused by the validator, or
\* written under the job's next number.
CrystallizeItem(j, d) ==
    /\ ItemOf(j, "crystallize", d)
    /\ \/ /\ candidates[d] = "torn"
          /\ job' = [job EXCEPT ![j] = [Done(j, d) EXCEPT !.said = @ \cup {"unreadable"}]]
          /\ UNCHANGED patterns
       \/ /\ candidates[d] = "blank"
          /\ job' = [job EXCEPT ![j] = Done(j, d)]
          /\ UNCHANGED patterns
       \/ /\ candidates[d] = "whole"
          /\ job[j].number <= MaxCryst
          /\ patterns' = [patterns EXCEPT ![job[j].number] = d]
          /\ job' = [job EXCEPT ![j] = [Done(j, d) EXCEPT !.made = @ + 1, !.number = @ + 1]]
    /\ UNCHANGED <<cadence, absorbed, candidates, runs, history, today, count>>

\* What the worker raises at its end: a candidate it could not read, or every
\* call failed.  run_stage makes DEGRADED of it, with a zero.
WorkerRaises(j) ==
    \/ "unreadable" \in job[j].said
    \/ "failed" \in job[j].said /\ "answered" \notin job[j].said

\* What is left of a job when its worker is done: its row.
Row(j, verdict, made) ==
    [Idle EXCEPT !.at = "append", !.stage = job[j].stage, !.verdict = verdict, !.made = made]

\* run_stage: the grade of what the worker returned.
Graded(j) ==
    CASE WorkerRaises(j) -> Row(j, "DEGRADED", 0)
      [] ~WorkerRaises(j) /\ job[j].made > 0 -> Row(j, "OK", job[j].made)
      [] OTHER -> Row(j, IF cadence[job[j].stage].on_empty = "halt" THEN "HALT" ELSE "WARN", 0)

Finish(j) ==
    /\ job[j].at = "item" /\ job[j].todo = {}
    /\ job' = [job EXCEPT ![j] = Graded(j)]
    /\ UNCHANGED <<cadence, stores, today, count>>

\* Any file access of the worker may raise: DEGRADED, produced zero.
Raise(j) ==
    /\ job[j].at \in {"list", "item", "write"}
    /\ Upset
    /\ job' = [job EXCEPT ![j] = Row(j, "DEGRADED", 0)]
    /\ UNCHANGED <<cadence, stores, today, begun>>

\* append_run, under the ledger's lock.
append_run(j) ==
    /\ job[j].at = "append"
    /\ runs' = runs \cup {[stage |-> job[j].stage, verdict |-> job[j].verdict,
                           produced |-> job[j].made]}
    /\ job' = [job EXCEPT ![j] = Idle]
    /\ UNCHANGED <<cadence, absorbed, candidates, patterns, history, today, count>>

\* The process dies; what it wrote stays and no row says so.
Crash(j) ==
    /\ job[j].at # "idle"
    /\ Upset
    /\ job' = [job EXCEPT ![j] = Idle]
    /\ UNCHANGED <<cadence, stores, today, begun>>
----------------------------------------------------------------------------
(* The heartbeat                                                           *)

\* collect_counts, with no lock.  A directory that cannot be read counts zero.
Collect(j) ==
    /\ job[j].at = "idle"
    /\ begun < MaxJobs
    /\ begun' = begun + 1
    /\ \E lost \in SUBSET COUNTABLES :
          /\ IF lost = {} THEN UNCHANGED upsets ELSE Upset
          /\ job' = [job EXCEPT ![j] = [Idle EXCEPT !.at = "beat", !.date = today,
                    !.counts = [k \in COUNTABLES |->
                       IF k \in lost THEN 0
                       ELSE IF k = "absorbed" THEN Cardinality(absorbed)
                       ELSE Cardinality(Numbers)]]]
    /\ UNCHANGED <<cadence, stores, today>>

\* The counts of the last reading; zero before the first.
Previous(k) == IF history = <<>> THEN 0 ELSE history[Len(history)].counts[k]

\* append_reading: the fold and the append in one hold of the lock.
append_reading(j) ==
    /\ job[j].at = "beat"
    /\ history' = Append(history,
          [date |-> job[j].date, counts |-> job[j].counts,
           deltas |-> [k \in COUNTABLES |-> job[j].counts[k] - Previous(k)]])
    /\ job' = [job EXCEPT ![j] = Idle]
    /\ UNCHANGED <<cadence, absorbed, candidates, patterns, runs, today, count>>

\* _dated: the dates of the history, and the last reading of one.
Dates == {history[i].date : i \in DOMAIN history}

LastOf(d) == history[Max({i \in DOMAIN history : history[i].date = d})]

\* Mutant: a date counts only after the first that moved nothing.
TrailingButOne(k) ==
    Cardinality({d \in Dates : /\ \E e \in Dates : e < d
                               /\ \A e \in Dates : e >= d - 1 => LastOf(e).deltas[k] = 0})

\* How many trailing dates moved nothing: those since the last that did.
_trailing_zero_dates(k) ==
    Cardinality({d \in Dates : \A e \in Dates : e >= d => LastOf(e).deltas[k] = 0})

promotion_flatline == _trailing_zero_dates("crystallized") >= FlatlineDays

Midnight ==
    /\ today < MaxDate
    /\ today' = today + 1
    /\ UNCHANGED <<cadence, stores, job, count>>
----------------------------------------------------------------------------
(* The operator                                                            *)

\* A candidate edited by hand, one of its lines now blank.
EditCandidate(d) ==
    /\ candidates[d] = "whole"
    /\ Upset
    /\ candidates' = [candidates EXCEPT ![d] = "blank"]
    /\ UNCHANGED <<cadence, absorbed, patterns, runs, history, today, job, begun>>

\* A pattern taken out of the corpus.
Retire(n) ==
    /\ patterns[n] # NoDoc
    /\ Upset
    /\ patterns' = [patterns EXCEPT ![n] = NoDoc]
    /\ UNCHANGED <<cadence, absorbed, candidates, runs, history, today, job, begun>>

Next ==
    \/ \E j \in Jobs :
          \/ \E s \in STAGE_IDS : Begin(j, s)
          \/ List(j)
          \/ \E d \in Docs : AbsorbItem(j, d) \/ DistillItem(j, d) \/ CrystallizeItem(j, d)
          \/ _write_candidate(j)
          \/ Finish(j) \/ Raise(j) \/ append_run(j) \/ Crash(j)
          \/ Collect(j) \/ append_reading(j)
    \/ Midnight
    \/ \E d \in Docs : EditCandidate(d)
    \/ \E n \in 1..MaxCryst : Retire(n)

Spec == Init /\ [][Next]_vars
----------------------------------------------------------------------------
(* Properties                                                              *)

\* Every pattern has its ancestry on disk: the candidate it was made of, and
\* the absorbed document under that, whichever stages ran, overlapped, raised
\* or died.  No stage skips one.
PatternHasAncestry ==
    \A n \in Numbers : patterns[n] \in Candidates \cap absorbed

\* The envelope holds: a run spends no more than its ceiling, but for what the
\* endpoint itself reported over the reserve of its last call.
SpendWithinEnvelope == \A j \in Jobs : job[j].spent <= MaxTokens + Slack

\* A number once given is not given again: a pattern is overwritten only by a
\* run that overlapped another one, however many patterns were retired.
PatternsKept ==
    [][\A n \in 1..MaxCryst :
          patterns[n] # NoDoc /\ patterns'[n] \notin {patterns[n], NoDoc}
          => \E j \in Jobs : job[j].overlap]_vars

\* A flat line is seen: when the readings came in date order and the count is
\* the same in all of the last FlatlineDays dates and the one before, the
\* alarm is raised.
FlatlineIsSeen ==
    LET window == {d \in Dates : Cardinality({e \in Dates : e > d}) <= FlatlineDays}
    IN  /\ \A i, k \in DOMAIN history : i < k => history[i].date <= history[k].date
        /\ Cardinality(window) = FlatlineDays + 1
        /\ \A i, k \in DOMAIN history :
              history[i].date \in window /\ history[k].date \in window
              => history[i].counts["crystallized"] = history[k].counts["crystallized"]
        => promotion_flatline
=============================================================================
