-------------------------- MODULE ApprovalCouncil --------------------------
(***************************************************************************)
(* intentops_core/approvals/council.py: five lenses that read an approval  *)
(* item and vote.  Operators only: the council keeps no state.             *)
(*                                                                         *)
(* An item is the tool call it carries, the phrases its text holds and the *)
(* form of its ask.  A phrase stands for what the module's patterns find   *)
(* in it, which may be more than one thing: "cannot be undone" is one-way  *)
(* language and holds the word "undone", a restored backup is a way back   *)
(* and a reserved surface.                                                 *)
(***************************************************************************)
EXTENDS FiniteSetsExt, Integers

\* PROSE_SURFACES: the phrases that name a reserved surface.
ProseSurfaces == {"production", "restore_backup"}

\* _CHECKABLE, _ADMITTED_GAP, _AUTHORITY_CLAIM, _AUTHORITY_CITED, _ONE_WAY,
\* _REVERSIBLE, _DECAY: what each phrase matches.
Finds ==
    [production       |-> {},                      restore_backup |-> {"back"},
     irreversible     |-> {"one_way"},             undo           |-> {"back"},
     cannot_be_undone |-> {"one_way", "back"},     file_and_line  |-> {"checkable"},
     untested         |-> {"gap"},                 appr_id        |-> {"checkable", "cited"},
     not_verified_by  |-> {"gap", "checkable"},    this_turn      |-> {"cited"},
     operator_asked   |-> {"claim"},               stale          |-> {"decay"}]

Phrases == DOMAIN Finds

\* The phrases of the item that a pattern finds.
Found(item, pattern) == {s \in item.says: pattern \in Finds[s]}
Says(item, pattern)  == Found(item, pattern) # {}

\* classify_item_surface: the call where there is one, else the prose.
ClassifyItemSurface(item) ==
    IF item.call = "none" THEN [reserved |-> item.says \cap ProseSurfaces # {}, evidence |-> "prose"]
    ELSE [reserved |-> item.call = "reserved", evidence |-> "call"]

\* Mutant of AssessEvidence: an item that admits what it does not know has
\* something to weigh.
AssessEvidenceCandid(item) ==
    IF Says(item, "claim") /\ ~Says(item, "cited") THEN "ESCALATE"
    ELSE IF Found(item, "checkable") \cup Found(item, "gap") = {} THEN "ABSTAIN"
    ELSE "APPROVE"

\* assess_evidence.
AssessEvidence(item) ==
    LET checkable == Cardinality(Found(item, "checkable"))
        gaps      == Cardinality(Found(item, "gap"))
    IN  IF Says(item, "claim") /\ ~Says(item, "cited") THEN "ESCALATE"
        ELSE IF checkable = 0 /\ gaps = 0 THEN "ABSTAIN"
        ELSE IF gaps > checkable THEN "ESCALATE"
        ELSE "APPROVE"

\* assess_rulability: a single ask whose branches are there and differ.
AssessRulability(item) == IF item.form = "single" THEN "APPROVE" ELSE "ESCALATE"

VoteReserved(item) == IF ClassifyItemSurface(item).reserved THEN "ESCALATE" ELSE "APPROVE"

VoteReversible(item) ==
    IF Says(item, "back") THEN "APPROVE"
    ELSE IF Says(item, "one_way") THEN "ESCALATE"
    ELSE "ABSTAIN"

VoteDecay(item) == IF Says(item, "decay") THEN "ESCALATE" ELSE "APPROVE"

\* Members whose ESCALATE cannot be outvoted.
DISPOSITIVE == {"reserved", "reversible", "evidence"}

\* _MEMBERS.
Votes(item) ==
    [reserved |-> VoteReserved(item), reversible |-> VoteReversible(item),
     evidence |-> AssessEvidence(item), clarity |-> AssessRulability(item),
     decay |-> VoteDecay(item)]

\* council_vote.
CouncilVote(item) ==
    LET votes    == Votes(item)
        count(v) == Cardinality({m \in DOMAIN votes: votes[m] = v})
    IN  IF \E m \in DISPOSITIVE: votes[m] = "ESCALATE" THEN "ESCALATE"
        ELSE IF count("REJECT") >= 3 THEN "REJECTED"
        ELSE IF count("APPROVE") >= 3 THEN "APPROVED"
        ELSE "ESCALATE"
----------------------------------------------------------------------------
\* The items of up to four phrases.
Proposals == [call: {"none", "clean", "reserved"},
              says: UNION {kSubset(k, Phrases): k \in 0..4},
              form: {"missing", "same", "bundled", "single"}]

\* The phrases that only warn: a surface, a one-way step, a gap, somebody's
\* authority, age.
Warnings == {s \in Phrases: Finds[s] \subseteq {"one_way", "gap", "claim", "decay"}}

\* No warning buys the council's approval: what an item adds about a reserved
\* surface, a one-way step, an unchecked claim, somebody's instruction or its
\* age never turns a refusal into APPROVED; and no prose moves the verdict on
\* a call that reaches a reserved surface.
WarningsNeverHelp ==
    \A p \in Proposals: CouncilVote(p) # "APPROVED" =>
        /\ \A s \in Warnings: CouncilVote([p EXCEPT !.says = @ \cup {s}]) # "APPROVED"
        /\ p.call = "reserved" =>
             \A s \in Phrases: CouncilVote([p EXCEPT !.says = @ \cup {s}]) # "APPROVED"

\* What the council can answer.
Verdicts == {CouncilVote(p): p \in Proposals}
=============================================================================
