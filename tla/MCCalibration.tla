--------------------------- MODULE MCCalibration ---------------------------
(* Two tagouts, one of them the one genesis opens; two approvals, a bar of  *)
(* two rulings.  A behaviour exercises the ledger, one tagout with the bar,  *)
(* the grades with bars that are only raised, or the interview: parts that  *)
(* share no state do not multiply each other.                               *)
EXTENDS Calibration, FiniteSetsExt

CONSTANTS dev, other

TwoIds    == {dev, other}
Bar(n, a, l) == [minimum_rulings |-> n, minimum_accuracy |-> a, council_level |-> l]
MCDefault == Bar(2, 80, "standard")
MCBars    == {Bar(1, 80, "standard"), Bar(2, 40, "standard"), Bar(2, 80, "low"), Bar(2, 80, "high")}
MCSigma   == [low |-> 1, standard |-> 2, high |-> 3]
MCStages  == [S0 |-> 0, S2 |-> 0, S3 |-> 1, S4 |-> 2]
Asked(k, s) == [kind |-> k, sitting |-> s, options |-> 2, recommended |-> k = "choice",
                shuffle |-> TRUE, reveal |-> "after_answer"]
MCQuestions == {Asked("choice", "S0"), Asked("replay", "S3"), Asked("replay", "S4")}

VARIABLE part

\* Three links of one tagout, or two of each.
Links == FoldSet(LAMBDA i, n: n + Len(ledger[i].chain), 0, DOMAIN ledger)

MCInit == CalInit /\ part \in {"custody", "bar", "grades", "interview"}
MCNext ==
    /\ UNCHANGED part
    /\ \/ part = "custody" /\ Next /\ Links' <= 4 /\ UNCHANGED calVars
       \/ part = "bar" /\ (BarNext \/ (Next /\ DOMAIN ledger' = {other} /\ UNCHANGED calVars))
       \/ part = "grades" /\ (GradingNext \/ (BarNext /\ lowering' = <<>>))
       \/ part = "interview" /\ ((GradingNext /\ journal' = journal) \/ InterviewNext)
MCSpec == MCInit /\ [][MCNext]_<<vars, calVars, part>>
============================================================================
