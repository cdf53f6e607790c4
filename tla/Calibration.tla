---------------------------- MODULE Calibration ----------------------------
(***************************************************************************)
(* intentops_core/alignment: the sealed predictions, the grades folded     *)
(* from them and the two bars a delegation has to clear (calibration.py),  *)
(* and the interview whose later sittings open as rulings accumulate       *)
(* (interview.py).  Composed with the tagout ledger, as the bar is lowered *)
(* only on the strength of a tagout, and with the approval council, whose  *)
(* verdict is one of the two bars.                                         *)
(*                                                                         *)
(* Rulings are made elsewhere and reach both parts as history rows.        *)
(* record_grade reads the journal first and appends under the lock in a    *)
(* later step; lower_floors reads the ledger first and returns later.      *)
(* Dates are numbers, 0 the empty one; accuracies are percents; the        *)
(* thresholds of the later sittings are constants, so that small histories *)
(* reach them.                                                             *)
(***************************************************************************)
EXTENDS Loto, FiniteSets, ApprovalCouncil

CONSTANTS Items,         \* approval ids
          Predictions,   \* what the council predicts; "BASE_RATE" is no concurrence
          SigmaOf,       \* confidence level -> sigma: TAPCH+'s confidence_scale
          Bars,          \* the floors somebody may propose
          DefaultFloors, \* default_floors()
          Thresholds,    \* STAGE_THRESHOLDS: sitting -> rulings it needs
          Questions,     \* the interview template's questions
          BarSince,      \* the store's bar_since, 0 for none
          Dates,         \* the dates of rulings
          MaxCalls,      \* bound: record_grade calls under way at once
          MaxEvents      \* bound: rows of each of the three journals

NON_CONCURRENCE == {"BASE_RATE", "NO_BASIS", "UNAVAILABLE"}
GRADE_OUTCOMES  == {"hit", "partial", "miss"}
Actors          == {"operator", "node", "lane", ""}

\* load_interview, _load_question: what the template's loader refuses.
QuestionHolds(q) ==
    /\ q.sitting \in DOMAIN Thresholds
    /\ q.options <= 4
    /\ q.recommended => q.options > 0 /\ q.kind \notin {"consent", "replay"}
    /\ q.kind = "replay" => q.shuffle /\ q.reveal = "after_answer"

\* load_interview: the template's bar is the last sitting's threshold.
InterviewHolds == /\ \A q \in Questions: QuestionHolds(q)
                  /\ DefaultFloors.minimum_rulings = Thresholds["S4"]

\* Floors: a bar.
Floors == [minimum_rulings: Nat, minimum_accuracy: Nat, council_level: DOMAIN SigmaOf]

ASSUME CalibrationAssumption ==
    /\ InterviewHolds
    /\ Bars \cup {DefaultFloors} \subseteq Floors
    /\ SigmaOf \in [DOMAIN SigmaOf -> Nat] /\ Thresholds \in [DOMAIN Thresholds -> Nat]
    /\ Dates \cup {BarSince} \subseteq Nat

VARIABLES history,   \* the approval queue's history: [id, event, by, at]
          calls,     \* record_grade calls past their checks: the row to append
          journal,   \* identity/alignment/calibration.jsonl
          floors,    \* the bar in force
          scale,     \* SIGMA_LEVELS has been filled by load_council_floor
          lowering,  \* the lower_floors call under way: the bar it will return, or <<>>
          answers    \* identity/alignment/answers.jsonl

calVars == <<history, calls, journal, floors, scale, lowering, answers>>

CalInit ==
    /\ Init
    /\ history = <<>> /\ calls = {} /\ journal = <<>> /\ answers = <<>>
    /\ floors = DefaultFloors /\ scale = FALSE /\ lowering = <<>>
----------------------------------------------------------------------------
(* Rulings, seals and grades                                               *)

\* A ruling is made: by the operator, by the node itself or by a lane.
RuleOn(i, by, at) ==
    /\ Len(history) < MaxEvents /\ \A n \in DOMAIN history: history[n].id # i
    /\ history' = Append(history, [id |-> i, by |-> by, at |-> at])
    /\ UNCHANGED <<ledger, calls, journal, floors, scale, lowering, answers>>

\* renders_as_concurrence.
RendersAsConcurrence(p) == p \notin NON_CONCURRENCE

\* seal_prediction: whatever the approval's state.
SealPrediction(i, p) ==
    /\ Len(journal) < MaxEvents
    /\ journal' = Append(journal, [event |-> "sealed", id |-> i, prediction |-> p,
                                   concurs |-> RendersAsConcurrence(p)])
    /\ UNCHANGED <<ledger, history, calls, floors, scale, lowering, answers>>

\* _sealed_index: the last seal of each item.
Seals(i) == {n \in DOMAIN journal: journal[n].event = "sealed" /\ journal[n].id = i}
SealedIndex(i) == journal[CHOOSE n \in Seals(i): \A k \in Seals(i): k <= n].prediction

\* record_grade's refusals.
MayGrade(i, by, at) ==
    /\ by \notin {"", "node", "lane"}
    /\ Seals(i) # {}
    /\ ~(BarSince # 0 /\ at # 0 /\ at < BarSince)

\* record_grade: the checks, outside the lock.
CheckGrade(n, outcome) ==
    LET r == history[n]
    IN  /\ Cardinality(calls) < MaxCalls
        /\ MayGrade(r.id, r.by, r.at)
        /\ calls' = calls \cup {[event |-> "graded", id |-> r.id, outcome |-> outcome,
                                 by |-> r.by, at |-> r.at, prediction |-> SealedIndex(r.id)]}
        /\ UNCHANGED <<ledger, history, journal, floors, scale, lowering, answers>>

\* _append.
AppendGrade(row) ==
    /\ row \in calls /\ Len(journal) < MaxEvents
    /\ journal' = Append(journal, row) /\ calls' = calls \ {row}
    /\ UNCHANGED <<ledger, history, floors, scale, lowering, answers>>

\* Mutant of Graded: every grade is counted.
GradedAll(j) == {n \in DOMAIN j: j[n].event = "graded"}

\* state: the last grade of each item.
Graded(j) == {n \in DOMAIN j: j[n].event = "graded"
                /\ \A k \in DOMAIN j: k > n => ~(j[k].event = "graded" /\ j[k].id = j[n].id)}

Hits(j) == {n \in Graded(j): j[n].outcome = "hit"}
----------------------------------------------------------------------------
(* The two bars                                                            *)

\* load_council_floor fills the scale for the process.
LoadCouncilFloor ==
    /\ ~scale /\ scale' = TRUE
    /\ UNCHANGED <<ledger, history, calls, journal, floors, lowering, answers>>

\* council_floor_met: a reading is <<verdict, level>>, <<>> where none was taken.
CouncilFloorMet(reading, level) ==
    reading # <<>> /\ reading[1] = "APPROVED" /\ SigmaOf[reading[2]] >= SigmaOf[level]

\* _twin_met: an accuracy of nothing is zero.
TwinMet(f) ==
    LET graded == Cardinality(Graded(journal))
    IN  /\ graded >= f.minimum_rulings
        /\ 100 * Cardinality(Hits(journal)) >= f.minimum_accuracy * graded
        /\ graded = 0 => f.minimum_accuracy = 0

\* two_bar_gate, with the council floor loaded for the level of the bar.
TwoBarGate(f, reading) == scale /\ CouncilFloorMet(reading, f.council_level) /\ TwinMet(f)

\* _is_lower.
IsLower(current, proposed) ==
    \/ proposed.minimum_rulings < current.minimum_rulings
    \/ proposed.minimum_accuracy < current.minimum_accuracy
    \/ SigmaOf[proposed.council_level] < SigmaOf[current.council_level]

\* _is_lower raises where the levels differ and no scale was loaded.
Comparable(current, proposed) == scale \/ current.council_level = proposed.council_level

\* raise_floors.
RaiseFloors(f) ==
    /\ Comparable(floors, f) /\ ~IsLower(floors, f)
    /\ floors' = f
    /\ UNCHANGED <<ledger, history, calls, journal, scale, lowering, answers>>

\* Mutant of LowersOn: any entry that is off will do.
LowersOnAnyTier(e) == e.state = "tagged_out"

\* lower_floors: the tagout it asks for; the authority need not be blank, so a
\* text that says it is no authority will do.
LowersOn(e) ==
    /\ e.tier \in {"T3", "T4"} /\ e.state = "tagged_out"
    /\ Last(e.chain).way_back

\* lower_floors: the ledger is loaded, without its lock, and the tagout judged.
LowerRead(f, i) ==
    /\ lowering = <<>> /\ Comparable(floors, f) /\ IsLower(floors, f)
    /\ i \in DOMAIN ledger /\ LowersOn(ledger[i])
    /\ lowering' = f
    /\ UNCHANGED <<ledger, history, calls, journal, floors, scale, answers>>

\* lower_floors returns, and the caller puts the lowered bar in force.
LowerReturn ==
    /\ lowering # <<>>
    /\ floors' = lowering /\ lowering' = <<>>
    /\ UNCHANGED <<ledger, history, calls, journal, scale, answers>>
----------------------------------------------------------------------------
(* The interview                                                           *)

\* Mutant of OperatorRulings: every row of the history counts.
OperatorRulingsAll(h) == Cardinality({h[n].id: n \in DOMAIN h})

\* operator_rulings under an ActorPolicy that names the node and its lanes.
OperatorRulings(h) ==
    Cardinality({h[n].id: n \in {k \in DOMAIN h: h[k].by \notin {"", "node", "lane"}}})

\* stage_plan: what is open after so many rulings.
StageOpen(s, rulings) == rulings >= Thresholds[s]

\* grade_for_sitting.
GradeFor(s) == IF s \in {"S0", "S1"} THEN "fact" ELSE IF s = "S2" THEN "INFERRED" ELSE "OBSERVED"

\* render_question, the operator answers, AnswerJournal.record; a replay's prior
\* ruling is shown once it is answered (reveal_prior_ruling).
AnswerQuestion(q, by) ==
    /\ by # "" /\ Len(answers) < MaxEvents
    /\ StageOpen(q.sitting, OperatorRulings(history))
    /\ answers' = Append(answers, [question |-> q, by |-> by, grade |-> GradeFor(q.sitting),
                                   rulings |-> OperatorRulings(history),
                                   revealed |-> q.kind = "replay"])
    /\ UNCHANGED <<ledger, history, calls, journal, floors, scale, lowering>>

GradingNext ==
    \/ \E i \in Items, by \in Actors, at \in Dates: RuleOn(i, by, at)
    \/ \E i \in Items, p \in Predictions: SealPrediction(i, p)
    \/ \E n \in DOMAIN history, o \in GRADE_OUTCOMES: CheckGrade(n, o)
    \/ \E row \in calls: AppendGrade(row)

BarNext ==
    \/ LoadCouncilFloor
    \/ \E f \in Bars: RaiseFloors(f)
    \/ \E f \in Bars, i \in Ids: LowerRead(f, i)
    \/ LowerReturn

InterviewNext == \E q \in Questions, by \in Actors: AnswerQuestion(q, by)

CalNext == (Next /\ UNCHANGED calVars) \/ GradingNext \/ BarNext \/ InterviewNext

CalSpec == CalInit /\ [][CalNext]_<<vars, calVars>>
----------------------------------------------------------------------------
(* Properties                                                              *)

\* A delegation is earned: the gate opens only over as many different items as
\* the bar asks, each ruled on by the operator, not before the bar where the
\* ruling is dated, each predicted before its grade, however the grades were
\* repeated, overlapped or re-sealed; and never without a council reading.
CalibratedIsEarned ==
    /\ ~TwoBarGate(floors, <<>>)
    /\ \A level \in DOMAIN SigmaOf, v \in Verdicts: TwoBarGate(floors, <<v, level>>) =>
         LET earned == {n \in DOMAIN journal:
                          /\ journal[n].event = "graded"
                          /\ \E k \in DOMAIN history: history[k].id = journal[n].id
                                                        /\ history[k].by = "operator"
                          /\ journal[n].at = 0 \/ journal[n].at >= BarSince
                          /\ \E k \in 1..(n - 1): journal[k].event = "sealed"
                               /\ journal[k].id = journal[n].id
                               /\ journal[k].prediction = journal[n].prediction}
         IN  Cardinality({journal[n].id: n \in earned}) >= floors.minimum_rulings

\* A bar below the one the code starts with was lowered on a tagout: somewhere
\* in the ledger a safety control was tagged out with a way back, and the chain
\* of custody still says so, whatever was tagged in or out meanwhile.
LoweredOnATagout ==
    IsLower(DefaultFloors, floors) =>
        \E i \in DOMAIN ledger: /\ ledger[i].tier \in SAFETY_TIERS
                                /\ \E n \in OutLinks(i): ledger[i].chain[n].way_back

\* A sitting opens on the operator's own rulings: every answer on record was
\* given after as many items as its sitting needs had been ruled on by the
\* operator, rulings of the node and its lanes not counted.
SittingsEarned ==
    \A n \in DOMAIN answers:
      Cardinality({history[k].id: k \in {j \in DOMAIN history: history[j].by = "operator"}})
         >= Thresholds[answers[n].question.sitting]

\* Nothing the calibration grants is given away: not the delegation, not the
\* council's half of it, not a lower bar, not a sitting.
CalibrationIsEarned ==
    CalibratedIsEarned /\ WarningsNeverHelp /\ LoweredOnATagout /\ SittingsEarned
=============================================================================
