-------------------------------- MODULE Hook --------------------------------
(***************************************************************************)
(* The pre-tool hook of intentops_saddle_claudecode (pre_tool.run): the    *)
(* one place where a live tool call is refused.  The host starts one hook  *)
(* process per call and does what it answers: silence leaves the call to   *)
(* the host's own rules, "ask" puts it to the operator, "deny" stops it.   *)
(*                                                                         *)
(* The hook reads the node (halt marker, estate map), asks the classifier  *)
(* (Gate), then step 0, the values council over writes to declared core    *)
(* paths (values_council.gate_values_council, with Councils and Ordering), *)
(* records the decision and emits it.  Every read or write of a shared     *)
(* file is a step, so concurrent hooks, the operator's stand-down,         *)
(* overrides and rulings interleave with it.                               *)
(***************************************************************************)
EXTENDS Councils, Ordering, FiniteSetsExt

CONSTANTS Calls,        \* tool calls, one hook process each
          Paths,        \* paths under the declared core surface
          NoPath,       \* the call targets no core path
          PeoplePaths,  \* the core paths whose change concerns people
          SignedPaths,  \* the core paths of the signed bundle
          Ops,          \* the operations a call may carry
          MaxOverrides, \* bound: overrides the operator records
          MaxFailures   \* bound: hooks killed and accesses that raise

Operation == [tool: Tools, command: SUBSET CommandSigns, args: SUBSET ArgSigns,
              path: Paths \cup {NoPath}, words: SUBSET Vocabulary,
              weakening: BOOLEAN]

ASSUME PathAssumption   == /\ NoPath \notin Paths
                           /\ PeoplePaths \subseteq Paths /\ SignedPaths \subseteq Paths
ASSUME OpsAssumption    == Ops \subseteq Operation /\ Ops # {}
ASSUME HookBounds       == MaxOverrides \in Nat /\ MaxFailures \in Nat

\* MODES, and a value mode_from_env refuses.  shadow blocks as little as
\* observe does and differs in the notes it surfaces, which are left out: one
\* stands for both.
Modes    == {"observe", "enforce", "unreadable"}
Readings == {"consent", "hold", "escalate"}
Answers  == {"none", "silence", "ask", "deny"}

VARIABLES marker,      \* the halt marker exists
          estate,      \* the estate map: absent, loaded or strange
          mode,        \* INTENTOPS_VALUES_COUNCIL
          call,        \* the hook process of each call
          gateLedger,  \* rows <<call, decision>> of the gate ledger
          reviews,     \* rows <<call, reading>> of the core-review journal
          overrides,   \* override rows of that journal, per path
          consumed,    \* calls with an override-consumed row in it
          failures

hookVars == <<marker, estate, mode, call, gateLedger, reviews, overrides,
              consumed, failures>>
vars == <<hookVars, orderingVars>>

Steps == {"idle", "load", "decide", "council", "append", "override", "consume",
          "record", "emit", "done", "crashed", "killed"}

\* floor is what decide said.  Two fields are history: up, that the marker
\* was absent at some moment since the hook started; bound, the rulings that
\* have governed this write and escalated it ever since.
CallState == [at: Steps, op: Ops, verdict: Verdict, floor: Decisions,
              reading: Readings, answer: Answers, up: BOOLEAN,
              bound: SUBSET Rulings]

TypeOK ==
    /\ OrderingTypeOK
    /\ marker \in BOOLEAN
    /\ estate \in {"absent", "loaded", "strange"}
    /\ mode \in Modes
    /\ call \in [Calls -> CallState]
    /\ gateLedger \subseteq Calls \X Decisions
    /\ reviews \subseteq Calls \X Readings
    /\ overrides \in [Paths -> 0..MaxOverrides]
    /\ consumed \subseteq Calls
    /\ failures \in 0..MaxFailures

Init ==
    /\ OrderingInit
    /\ marker = FALSE
    /\ estate \in {"absent", "loaded", "strange"}
    /\ mode \in Modes
    /\ call = [c \in Calls |-> [at |-> "idle", op |-> CHOOSE op \in Ops : TRUE,
                                verdict |-> allow("T0"), floor |-> "ALLOW",
                                reading |-> "consent", answer |-> "none",
                                up |-> FALSE, bound |-> {}]]
    /\ gateLedger = {}
    /\ reviews = {}
    /\ overrides = [p \in Paths |-> 0]
    /\ consumed = {}
    /\ failures = 0

Ended == {"done", "crashed", "killed"}
known == estate = "loaded"

Become(c, s) == call' = [call EXCEPT ![c] = s]
Goto(c, step, v) == Become(c, [call[c] EXCEPT !.at = step, !.verdict = v])

\* The process ends; what it held in memory is gone.
End(c, how, answer) ==
    Become(c, [call[c] EXCEPT !.at = how, !.answer = answer,
                              !.verdict = allow("T0"), !.reading = "consent"])
Deny(c) == End(c, "done", "deny")

Fail == failures < MaxFailures /\ failures' = failures + 1

\* A step that raises, or one that does not.
Works == UNCHANGED failures

Elsewhere == UNCHANGED <<marker, estate, mode, orderingVars>>
NoRow     == UNCHANGED <<gateLedger, reviews, overrides, consumed>>
----------------------------------------------------------------------------
(* The case a core write makes, and the reading of it                      *)

Tier(op) == LET hit == classify_reaches_reality(op, known)
            IN  IF hit = {} THEN "T1" ELSE Highest(hit)
Gated(op) == Tier(op) \in {"T3", "T4"}

\* The facts put to the ordering store.
Facts(op) == {<<"surface", "core">>, <<"tool", op.tool>>, <<"tier", Tier(op)>>,
              <<"reaches", IF Gated(op) THEN "yes" ELSE "no">>, <<"glob", op.path>>}

\* _consult_ordering over a fold rs: the governing rulings that escalate.
Escalating(rs, op) ==
    {i \in governing(rs, Facts(op)) : \E r \in rs[i] : r.on_match = "escalate"}

_default_action(op) ==
    [tier |-> Tier(op), reaches |-> Gated(op), people |-> op.path \in PeoplePaths,
     reversible |-> op.path \notin SignedPaths, evidence |-> TRUE, words |-> op.words]

_posture_item(op) ==
    [command |-> IF op.tool = "shell" THEN op.command ELSE {}, words |-> op.words,
     tier |-> Tier(op), reaches |-> Gated(op), traceable |-> TRUE,
     intent |-> "stated", complexity |-> "unstated", failures |-> 0]

\* The three readings and the content floor; the strictest stands.  A ruling
\* that does not escalate lowers nothing.
review_core_write(op) ==
    LET action == _default_action(op)
    IN  IF \/ Escalating(records, op) # {}
           \/ posture_council_vote(_posture_item(op), known) # "APPROVED"
           \/ op.weakening
        THEN "escalate"
        ELSE IF compass(action) = "REFRAIN" \/ conscience_hold(action)
        THEN "hold"
        ELSE "consent"
----------------------------------------------------------------------------
(* One hook, step by step                                                  *)

\* parse_pre_tool: the payload names a tool and its arguments, or the hook
\* refuses.
Start(c) ==
    /\ call[c].at = "idle"
    /\ \/ \E op \in Ops :
            Become(c, [call[c] EXCEPT !.at = "load", !.op = op, !.up = ~marker,
                         !.bound = IF op.path = NoPath THEN {} ELSE Escalating(records, op)])
       \/ Deny(c)
    /\ Works /\ NoRow /\ Elsewhere

\* load_context.  EstateUnreadable is caught; the ValueError that
\* indicators_from_estate_map raises on an unknown key (a strange map) is not.
LoadContext(c) ==
    /\ call[c].at = "load"
    /\ \/ /\ IF estate = "strange" THEN End(c, "crashed", "none")
                                    ELSE Goto(c, "decide", call[c].verdict)
          /\ Works
       \/ Deny(c) /\ Fail
    /\ NoRow /\ Elsewhere

\* Mutant: the classifier is asked first and the stand-down only hardens what
\* it already gates.
DecideLate(c) ==
    /\ call[c].at = "decide"
    /\ LET w == verdict_for(call[c].op, known)
           v == IF marker /\ is_refusal(w) THEN halt ELSE w
       IN  Become(c, [call[c] EXCEPT !.at = "council", !.verdict = v, !.floor = v.decision])
    /\ Works /\ NoRow /\ Elsewhere

\* decide: the stand-down before anything else, then the classifier.
Decide(c) ==
    /\ call[c].at = "decide"
    /\ \/ LET v == IF marker THEN halt ELSE verdict_for(call[c].op, known)
          IN  /\ Become(c, [call[c] EXCEPT !.at = "council", !.verdict = v,
                                           !.floor = v.decision])
              /\ Works
       \/ Deny(c) /\ Fail
    /\ NoRow /\ Elsewhere

\* What the council's answers make of the verdict.
Raised(c)  == ask(call[c].verdict.tier, call[c].verdict.reaches)
Refused(c) == [call[c].verdict EXCEPT !.decision = "BLOCK"]

\* gate_values_council on a CouncilError: closed in enforce mode and in a mode
\* that cannot be read, surfaced otherwise.
Halted(c) == Goto(c, "record", IF mode \in {"enforce", "unreadable"}
                               THEN Refused(c) ELSE call[c].verdict)

\* _apply_values_council up to the review: nothing to say about a refusal, a
\* tool that writes no path or a path that is not core; otherwise the rulings
\* are read and the reading formed.
Council(c) ==
    LET s == call[c]
        convenes == /\ s.verdict.decision \notin {"BLOCK", "HALT"}
                    /\ s.op.tool \in {"file", "shell"}
    IN  /\ s.at = "council"
        /\ \/ ~convenes /\ Goto(c, "record", s.verdict) /\ Works
           \/ convenes /\ mode = "unreadable" /\ Halted(c) /\ Works
           \/ convenes /\ Goto(c, "record", Raised(c)) /\ Fail    \* import, or another exception
           \/ convenes /\ Halted(c) /\ Fail                       \* surface or rulings unreadable
           \/ /\ convenes /\ mode # "unreadable" /\ Works
              /\ IF s.op.path = NoPath
                 THEN Goto(c, "record", s.verdict)
                 ELSE Become(c, [s EXCEPT !.at = "append",
                                          !.reading = review_core_write(s.op)])
        /\ NoRow /\ Elsewhere

\* Mutant: only an ESCALATE is taken for a refusal.
AppendReviewLax(c) ==
    LET s == call[c]
    IN  /\ s.at = "append"
        /\ reviews' = reviews \cup {<<c, s.reading>>}
        /\ Goto(c, IF mode = "enforce" /\ s.reading = "escalate"
                   THEN "override" ELSE "record", s.verdict)
        /\ Works
        /\ UNCHANGED <<gateLedger, overrides, consumed>> /\ Elsewhere

\* The review goes to the journal; in enforce mode a refusal looks for an
\* override, in the others it is recorded and blocks nothing.
AppendReview(c) ==
    LET s == call[c]
    IN  /\ s.at = "append"
        /\ \/ /\ reviews' = reviews \cup {<<c, s.reading>>}
              /\ Goto(c, IF mode = "enforce" /\ s.reading # "consent"
                         THEN "override" ELSE "record", s.verdict)
              /\ Works
           \/ Halted(c) /\ Fail /\ UNCHANGED reviews
        /\ UNCHANGED <<gateLedger, overrides, consumed>> /\ Elsewhere

\* Mutant: a path with no row either way counts as open.
outstandingAtZero(p) == overrides[p] >= Cardinality({c \in consumed : call[c].op.path = p})

\* LedgerState.outstanding: override rows minus consumed rows, if positive.
outstanding(p) == overrides[p] > Cardinality({c \in consumed : call[c].op.path = p})

\* The journal is folded outside its lock ...
ReadOverrides(c) ==
    LET s == call[c]
    IN  /\ s.at = "override"
        /\ \/ /\ IF outstanding(s.op.path) THEN Goto(c, "consume", s.verdict)
                                           ELSE Goto(c, "record", Refused(c))
              /\ Works
           \/ Goto(c, "record", Refused(c)) /\ Fail
        /\ NoRow /\ Elsewhere

\* Mutant: an override clears the call altogether, tier decision included.
ConsumeClears(c) ==
    /\ call[c].at = "consume"
    /\ consumed' = consumed \cup {c} /\ Goto(c, "record", allow("T0")) /\ Works
    /\ UNCHANGED <<gateLedger, reviews, overrides>> /\ Elsewhere

\* ... and the consumed row appended afterwards.  A failed append raises out
\* of the gate.
Consume(c) ==
    /\ call[c].at = "consume"
    /\ \/ consumed' = consumed \cup {c} /\ Goto(c, "record", call[c].verdict) /\ Works
       \/ UNCHANGED consumed /\ Goto(c, "record", Raised(c)) /\ Fail
    /\ UNCHANGED <<gateLedger, reviews, overrides>> /\ Elsewhere

\* Mutant: the decision is emitted although it could not be recorded.
RecordBestEffort(c) ==
    /\ call[c].at = "record"
    /\ \/ gateLedger' = gateLedger \cup {<<c, call[c].verdict.decision>>} /\ Works
       \/ UNCHANGED gateLedger /\ Fail
    /\ Goto(c, "emit", call[c].verdict)
    /\ UNCHANGED <<reviews, overrides, consumed>> /\ Elsewhere

\* record: a decision that cannot be recorded is not acted on.
Record(c) ==
    /\ call[c].at = "record"
    /\ \/ /\ gateLedger' = gateLedger \cup {<<c, call[c].verdict.decision>>}
          /\ Goto(c, "emit", call[c].verdict)
          /\ Works
       \/ Deny(c) /\ Fail /\ UNCHANGED gateLedger
    /\ UNCHANGED <<reviews, overrides, consumed>> /\ Elsewhere

\* The host's vocabulary for a verdict; there is no "allow" in it.
decision_frame(v) == CASE v.decision = "ALLOW" -> "silence"
                       [] v.decision = "ASK"   -> "ask"
                       [] OTHER                -> "deny"

Emit(c) ==
    /\ call[c].at = "emit"
    /\ End(c, "done", decision_frame(call[c].verdict))
    /\ Works /\ NoRow /\ Elsewhere

\* The host's timeout, or a crash of the machine.
Killed(c) ==
    /\ call[c].at \notin Ended \cup {"idle"}
    /\ End(c, "killed", "none")
    /\ Fail /\ NoRow /\ Elsewhere
----------------------------------------------------------------------------
(* The operator                                                            *)

\* The marker is created or removed; removal is seen by every hook under way.
StandDown == ~marker /\ marker' = TRUE /\ UNCHANGED call
StandUp   == /\ marker /\ marker' = FALSE
             /\ call' = [c \in Calls |-> [call[c] EXCEPT !.up = call[c].at # "idle"]]
Stand ==
    /\ StandDown \/ StandUp
    /\ UNCHANGED <<estate, mode, orderingVars>> /\ NoRow /\ Works

\* record_override: one named write, with a reason.
record_override(p) ==
    /\ MapThenSumSet(LAMBDA q : overrides[q], Paths) < MaxOverrides
    /\ overrides' = [overrides EXCEPT ![p] = @ + 1]
    /\ UNCHANGED <<call, gateLedger, reviews, consumed>> /\ Works /\ Elsewhere

\* The operator's rulings.  A ruling that no longer governs and escalates the
\* write of a hook under way is struck from its bound.
Ruling ==
    /\ OrderingNext
    /\ call' = [c \in Calls |-> [call[c] EXCEPT !.bound = @ \cap Escalating(records', call[c].op)]]
    /\ UNCHANGED <<marker, estate, mode, gateLedger, reviews, overrides, consumed, failures>>

HookStep(c) ==
    \/ Start(c) \/ LoadContext(c) \/ Decide(c) \/ Council(c) \/ AppendReview(c)
    \/ ReadOverrides(c) \/ Consume(c) \/ Record(c) \/ Emit(c)

Next ==
    \/ \E c \in Calls : HookStep(c) \/ Killed(c)
    \/ Stand
    \/ \E p \in Paths : record_override(p)
    \/ Ruling

Spec == Init /\ [][Next]_vars
----------------------------------------------------------------------------
(* Properties                                                              *)

Answered(c, a) == call[c].answer = a

\* Nothing the hook lets through is off the record: silence and "ask" leave
\* only after the decision they render is a row of the gate ledger, whatever
\* the council made of the verdict on the way (rule 3 of pre_tool.py).
NothingOffTheRecord ==
    \A c \in Calls : /\ Answered(c, "silence") => <<c, "ALLOW">> \in gateLedger
                     /\ Answered(c, "ask") => <<c, "ASK">> \in gateLedger

\* A call whose hook began on a stood-down node, and during which the marker
\* was never removed, is denied: no failure and no council lets it through.
StandDownHonoured ==
    \A c \in Calls : call[c].answer \in {"silence", "ask"} => call[c].up

\* Step 0 may raise the bar and never lowers it: the answer is at least as
\* strict as what the stand-down and the classifier decided.
CouncilOnlyRaises ==
    \A c \in Calls :
        /\ Answered(c, "silence") => call[c].floor = "ALLOW"
        /\ Answered(c, "ask") => call[c].floor \in {"ALLOW", "ASK"}

\* In enforce mode a write to a core path that passes in silence was reviewed,
\* and it either raised nothing - no weakening, nobody deceived who bears it,
\* no ruling that has bound it all along - or used up an override.
EnforceHolds ==
    \A c \in Calls :
        LET s == call[c]
        IN  /\ mode = "enforce" /\ Answered(c, "silence")
            /\ s.op.path # NoPath /\ s.op.tool \in {"file", "shell"}
            => /\ \E r \in Readings : <<c, r>> \in reviews
               /\ c \notin consumed =>
                    /\ ~s.op.weakening
                    /\ ~("deception" \in s.op.words /\ s.op.path \in PeoplePaths \cap SignedPaths)
                    /\ s.bound = {}

\* Every override consumed was recorded first, though it is read outside the
\* lock: a write is only let through against one while one was there.
ConsumedWasGranted ==
    \A c \in consumed : overrides[call[c].op.path] > 0

\* The council binds: it only raises the bar, in enforce mode it holds what it
\* objects to, and an override that lets a write through was granted first.
CouncilBinds == CouncilOnlyRaises /\ EnforceHolds /\ ConsumedWasGranted
=============================================================================
