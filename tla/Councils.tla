------------------------------ MODULE Councils ------------------------------
(***************************************************************************)
(* The two advisory councils of intentops_core/councils, as operators: the *)
(* moral compass of guardians.py (four lenses over a proposed action) and  *)
(* the posture council of posture.py (five votes over an actuation item).  *)
(*                                                                         *)
(* A proposal is what the concerns read of a ProposedAction: its tier,     *)
(* whether it reaches reality, names people, is reversible and carries     *)
(* evidence, and the vocabularies (words) its text matches.                *)
(***************************************************************************)
EXTENDS Gate, FiniteSets

Vocabulary == {"vulnerable", "deception", "irreversible", "rehearsed",
               "grandiose", "unevidenced", "hazard"}

Proposal == [tier: TIERS, reaches: BOOLEAN, people: BOOLEAN,
             reversible: BOOLEAN, evidence: BOOLEAN, words: SUBSET Vocabulary]

GUARDIANS == {"Rogers", "Henson", "Sagan", "Pratchett"}

_rogers_person_at_risk(a) == \/ a.people /\ (a.reaches \/ ~a.reversible)
                             \/ "vulnerable" \in a.words
_rogers_dignity(a)        == "deception" \in a.words
_henson_structure(a)      == a.tier \in {"T3", "T4"} /\ ~a.reversible
_henson_no_rehearsal(a)   == "irreversible" \in a.words /\ "rehearsed" \notin a.words
_sagan_evidence(a)        == ~a.evidence
_sagan_unverified_assertion(a) == "unevidenced" \in a.words
_pratchett_grandiosity(a) == "grandiose" \in a.words
_pratchett_who_pays(a)    == a.reaches /\ ~a.people
_pratchett_unconsented(a) == a.people /\ "deception" \in a.words

\* How many of a guardian's own concerns an action raises.
Concerns(g, a) ==
    LET raised == CASE g = "Rogers"    -> <<_rogers_person_at_risk(a), _rogers_dignity(a)>>
                    [] g = "Henson"    -> <<_henson_structure(a), _henson_no_rehearsal(a)>>
                    [] g = "Sagan"     -> <<_sagan_evidence(a), _sagan_unverified_assertion(a)>>
                    [] g = "Pratchett" -> <<_pratchett_grandiosity(a), _pratchett_who_pays(a),
                                            _pratchett_unconsented(a)>>
    IN  Cardinality({i \in DOMAIN raised : raised[i]})

\* Two independent concerns of one guardian are an objection, not a caution.
stance(g, a) == CASE Concerns(g, a) = 0 -> "BLESS"
                  [] Concerns(g, a) = 1 -> "CAUTION"
                  [] OTHER              -> "OBJECT"

conscience_hold(a) == stance("Rogers", a) = "OBJECT"

\* MoralCompassCouncil.deliberate: the fixed tally.
compass(a) ==
    LET objections == {g \in GUARDIANS : stance(g, a) = "OBJECT"}
        cautions   == {g \in GUARDIANS : stance(g, a) = "CAUTION"}
        gated      == a.reaches /\ a.tier \in {"T3", "T4"}
    IN  IF Cardinality(objections) >= 2 THEN "REFRAIN"
        ELSE IF objections \cup cautions # {} \/ gated THEN "PROCEED_WITH_CARE"
        ELSE "PROCEED"
----------------------------------------------------------------------------
(* The posture council.  An item carries the operation its command is, the *)
(* vocabulary of its text, and what the other members read: an id, an      *)
(* intent ("none", "thin" or "stated"), a complexity band and failures.    *)

FAILURE_LIMIT == 3
MIN_APPROVALS == 3

_vote_guardian(item, known) ==
    LET hit == classify_reaches_reality([tool |-> "shell", args |-> {},
                                         command |-> item.command], known)
    IN  IF \/ item.reaches
           \/ item.tier \in {"T3", "T4"}
           \/ hit # {} /\ hit \subseteq {"T3", "T4"}
        THEN "REJECT"
        ELSE IF "hazard" \in item.words THEN "ABSTAIN" ELSE "APPROVE"

_vote_auditor(item)   == IF ~item.traceable \/ item.intent = "none" THEN "REJECT" ELSE "APPROVE"
_vote_economist(item) == CASE item.complexity = "over"   -> "REJECT"
                           [] item.complexity = "within" -> "APPROVE"
                           [] OTHER                      -> "ABSTAIN"  \* unstated, or the caution band
_vote_healer(item)    == CASE item.failures >= FAILURE_LIMIT -> "REJECT"
                           [] item.failures = 0              -> "APPROVE"
                           [] OTHER                          -> "ABSTAIN"
_vote_sage(item)      == IF item.intent = "stated" THEN "APPROVE" ELSE "REJECT"

\* APPROVED on three approvals and no veto from the guardian or the auditor.
posture_council_vote(item, known) ==
    LET votes == [guardian  |-> _vote_guardian(item, known),
                  auditor   |-> _vote_auditor(item),
                  economist |-> _vote_economist(item),
                  healer    |-> _vote_healer(item),
                  sage      |-> _vote_sage(item)]
        approvals == Cardinality({m \in DOMAIN votes : votes[m] = "APPROVE"})
        veto == "REJECT" \in {votes["guardian"], votes["auditor"]}
    IN  IF approvals >= MIN_APPROVALS /\ ~veto THEN "APPROVED" ELSE "REJECTED"
=============================================================================
