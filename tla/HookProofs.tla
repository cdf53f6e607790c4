----------------------------- MODULE HookProofs -----------------------------
(***************************************************************************)
(* Proofs about the pre-tool hook, for any number of hooks, operations,    *)
(* core paths, rulings, overrides and failures, whatever the councils'     *)
(* vocabularies hit.                                                       *)
(*                                                                         *)
(* The three properties speak of the answer, the end of a hook's life.     *)
(* What makes them inductive is what each hook carries there: a stand-down *)
(* that spans it is in its floor, its verdict is never laxer than that     *)
(* floor, a verdict about to leave is a row already, and one that will     *)
(* pass in silence has its review behind it.                               *)
(***************************************************************************)
EXTENDS Hook, FiniteSetTheorems, TLAPS

USE OpsAssumption, PathAssumption

Live  == Steps \ (Ended \cup {"idle"})
After == {"council", "append", "override", "consume", "record", "emit"}

Types == /\ call \in [Calls -> CallState]
         /\ marker \in BOOLEAN
         /\ overrides \in [Paths -> Nat]
         /\ consumed \subseteq Calls
         /\ IsFiniteSet(consumed)

\* A hook at work has not answered; one that works under a stand-down which
\* spans it finds the marker there, decides HALT, and lets nothing through.
StandOf(c) ==
    /\ call[c].at \notin Ended => call[c].answer = "none"
    /\ call[c].at \in Live /\ ~call[c].up => marker
    /\ call[c].at \in After /\ ~call[c].up => call[c].floor = "HALT"
    /\ call[c].answer \in {"silence", "ask"} => call[c].up

\* The verdict is never laxer than the floor; only a core write that was not
\* refused is reviewed; a decision is on the record before it leaves.
BarOf(c) ==
    LET d == call[c].verdict.decision
    IN  /\ call[c].at \in After =>
             /\ d = "ALLOW" => call[c].floor = "ALLOW"
             /\ d = "ASK" => call[c].floor \in {"ALLOW", "ASK"}
        /\ call[c].at \in {"append", "override", "consume"} =>
             d \in {"ALLOW", "ASK"} /\ call[c].op.path # NoPath
        /\ call[c].at = "emit" => <<c, d>> \in gateLedger
        /\ call[c].answer = "silence" =>
             call[c].floor = "ALLOW" /\ <<c, "ALLOW">> \in gateLedger
        /\ call[c].answer = "ask" =>
             call[c].floor \in {"ALLOW", "ASK"} /\ <<c, "ASK">> \in gateLedger

\* A write whose review may pass it: nothing in it that the council holds.
Clean(c) ==
    /\ ~call[c].op.weakening
    /\ ~("deception" \in call[c].op.words /\ call[c].op.path \in PeoplePaths \cap SignedPaths)
    /\ call[c].bound = {}

Reviewed(c) == \E r \in Readings : <<c, r>> \in reviews

\* A core write the council answers for, in the mode that blocks; and what
\* it takes for one to pass.
Bound(c)   == /\ mode = "enforce" /\ call[c].op.path # NoPath
              /\ call[c].op.tool \in {"file", "shell"}
MayPass(c) == Reviewed(c) /\ (c \notin consumed => Clean(c))

\* The rulings that have bound a write are among those that govern it now, so
\* a reading that consents found none; a bound write about to leave, or gone,
\* in silence may pass.
ReviewOf(c) ==
    /\ call[c].op.path # NoPath => call[c].bound \subseteq Escalating(records, call[c].op)
    /\ call[c].at = "append" /\ call[c].reading = "consent" => Clean(c)
    /\ call[c].at \in {"override", "consume"} => Reviewed(c)
    /\ call[c].at \in {"record", "emit"} /\ call[c].verdict.decision = "ALLOW" /\ Bound(c)
         => MayPass(c)
    /\ call[c].answer = "silence" /\ Bound(c) => MayPass(c)

\* An override is there for every hook that goes to consume one, and for every
\* hook that did: overrides are never withdrawn.
Granted(c) == call[c].op.path \in Paths /\ overrides[call[c].op.path] > 0

OverrideOf(c) ==
    /\ call[c].at = "consume" => Granted(c)
    /\ c \in consumed => Granted(c) /\ call[c].at \in {"record", "emit"} \cup Ended

StandInv    == \A c \in Calls : StandOf(c)
BarInv      == \A c \in Calls : BarOf(c)
ReviewInv   == \A c \in Calls : ReviewOf(c)
OverrideInv == \A c \in Calls : OverrideOf(c)

IInv == Types /\ StandInv /\ BarInv /\ ReviewInv /\ OverrideInv
----------------------------------------------------------------------------
(* The operators                                                           *)

LEMMA HighestIn ==
    ASSUME NEW ts \in SUBSET TIERS, ts # {}
    PROVE  Highest(ts) \in ts
<1> DEFINE Top(t) == \A u \in ts : _TIER_ORDER[u] <= _TIER_ORDER[t]
<1>1. \E t \in ts : Top(t)
  <2>1. CASE "T4" \in ts
    BY <2>1 DEF TIERS, _TIER_ORDER
  <2>2. CASE "T4" \notin ts /\ "T3" \in ts
    BY <2>2 DEF TIERS, _TIER_ORDER
  <2>3. CASE {"T4", "T3"} \cap ts = {} /\ "T2" \in ts
    BY <2>3 DEF TIERS, _TIER_ORDER
  <2>4. CASE {"T4", "T3", "T2"} \cap ts = {} /\ "T1" \in ts
    BY <2>4 DEF TIERS, _TIER_ORDER
  <2>5. CASE ts = {"T0"}
    BY <2>5 DEF TIERS, _TIER_ORDER
  <2> QED BY <2>1, <2>2, <2>3, <2>4, <2>5 DEF TIERS
<1>2. Highest(ts) = CHOOSE t \in ts : Top(t)
  BY DEF Highest
<1> HIDE DEF Top
<1> QED BY <1>1, <1>2

\* The classifier names one tier or none.
LEMMA ClassifierNames ==
    ASSUME NEW op
    PROVE  LET hit == classify_reaches_reality(op, known)
           IN  hit = {} \/ \E t \in TIERS : hit = {t}
<1> DEFINE hits == classify_outbound_comms(op)
                     \cup classify_third_party_disclosure(op, known)
                     \cup classify_money(op.command, known)
                     \cup classify_irreversible_delete(op.command)
                     \cup classify_remote_push(op.command, known)
                     \cup classify_prod_change(op.command, known)
                     \cup SecretPath(op)
<1>1. /\ classify_outbound_comms(op) \subseteq TIERS
      /\ classify_third_party_disclosure(op, known) \subseteq TIERS
      /\ SecretPath(op) \subseteq TIERS
  BY DEF classify_outbound_comms, classify_third_party_disclosure, SecretPath, TIERS
<1>2. /\ classify_money(op.command, known) \subseteq TIERS
      /\ classify_irreversible_delete(op.command) \subseteq TIERS
      /\ classify_prod_change(op.command, known) \subseteq TIERS
  BY DEF classify_money, classify_irreversible_delete, classify_prod_change, TIERS
<1>3. classify_remote_push(op.command, known) \subseteq TIERS
  BY DEF classify_remote_push, TIERS
<1>4. hits \in SUBSET TIERS
  BY <1>1, <1>2, <1>3
<1>5. classify_reaches_reality(op, known) = IF hits = {} THEN {} ELSE {Highest(hits)}
  BY DEF classify_reaches_reality
<1> HIDE DEF hits
<1> QED BY <1>4, <1>5, HighestIn

LEMMA VerdictsTyped ==
    /\ \A t \in TIERS : allow(t) \in Verdict
    /\ \A t \in TIERS : \A r \in BOOLEAN : ask(t, r) \in Verdict
    /\ halt \in Verdict
    /\ \A op \in Ops : verdict_for(op, known) \in Verdict
<1>1. /\ \A t \in TIERS : allow(t) \in Verdict
      /\ \A t \in TIERS : \A r \in BOOLEAN : ask(t, r) \in Verdict
      /\ halt \in Verdict
  BY DEF Verdict, allow, ask, halt, Decisions, TIERS
<1>2. ASSUME NEW op \in Ops
      PROVE  verdict_for(op, known) \in Verdict
  <2> DEFINE hit == classify_reaches_reality(op, known)
  <2>1. CASE hit = {}
    BY <2>1, <1>1 DEF verdict_for, TIERS
  <2>2. CASE hit # {}
    <3>1. PICK t \in TIERS : hit = {t}
      BY <2>2, ClassifierNames
    <3>2. Highest(hit) \in TIERS
      BY <3>1, HighestIn
    <3> HIDE DEF hit
    <3> QED BY <2>2, <3>2, <1>1 DEF verdict_for, hit
  <2> QED BY <2>1, <2>2
<1> QED BY <1>1, <1>2

\* The moral compass holds the deception of people that cannot be taken back:
\* both of Rogers' concerns are raised, which makes an objection.
LEMMA DeceptionIsHeld ==
    ASSUME NEW op \in Ops, "deception" \in op.words,
           op.path \in PeoplePaths \cap SignedPaths
    PROVE  conscience_hold(_default_action(op))
<1> DEFINE a      == _default_action(op)
           raised == <<_rogers_person_at_risk(a), _rogers_dignity(a)>>
<1>1. _rogers_person_at_risk(a) /\ _rogers_dignity(a)
  BY DEF _default_action, _rogers_person_at_risk, _rogers_dignity
<1>2. {i \in DOMAIN raised : raised[i]} = {1, 2}
  <2>1. DOMAIN raised = {1, 2}
    OBVIOUS
  <2>2. raised[1] /\ raised[2]
    BY <1>1
  <2> HIDE DEF raised
  <2> QED BY <2>1, <2>2
<1>3. Cardinality({1, 2}) = 2
  <2>1. Cardinality({2}) = 1 /\ IsFiniteSet({2})
    BY FS_Singleton
  <2>2. {1, 2} = {2} \cup {1} /\ 1 \notin {2}
    OBVIOUS
  <2>3. Cardinality({2} \cup {1}) = Cardinality({2}) + 1
    BY <2>1, <2>2, FS_AddElement
  <2> QED BY <2>1, <2>2, <2>3
<1>4. Concerns("Rogers", a) = 2
  BY <1>2, <1>3 DEF Concerns
<1> QED BY <1>4 DEF conscience_hold, stance
----------------------------------------------------------------------------
(* One hook's step, field by field                                         *)

\* What of a hook's record no step after the first touches.
Keeps(c) == /\ call'[c].op = call[c].op
            /\ call'[c].up = call[c].up
            /\ call'[c].bound = call[c].bound

LEMMA Goes ==
    ASSUME Types, NEW c \in Calls, NEW step \in Steps, NEW v \in Verdict,
           Goto(c, step, v)
    PROVE  /\ call' \in [Calls -> CallState]
           /\ \A d \in Calls \ {c} : call'[d] = call[d]
           /\ call'[c].at = step /\ call'[c].verdict = v /\ Keeps(c)
           /\ call'[c].floor = call[c].floor
           /\ call'[c].answer = call[c].answer
<1>1. call[c] \in CallState
  BY DEF Types
<1>2. [call[c] EXCEPT !.at = step, !.verdict = v] \in CallState
  BY <1>1 DEF CallState
<1> QED BY <1>1, <1>2 DEF Types, Goto, Become, Keeps, CallState

LEMMA Finishes ==
    ASSUME Types, NEW c \in Calls, NEW how \in Ended, NEW answer \in Answers,
           End(c, how, answer)
    PROVE  /\ call' \in [Calls -> CallState]
           /\ \A d \in Calls \ {c} : call'[d] = call[d]
           /\ call'[c].at = how /\ call'[c].answer = answer /\ Keeps(c)
           /\ call'[c].floor = call[c].floor
<1>1. call[c] \in CallState
  BY DEF Types
<1>2. allow("T0") \in Verdict
  BY VerdictsTyped DEF TIERS
<1>3. [call[c] EXCEPT !.at = how, !.answer = answer, !.verdict = allow("T0"),
                      !.reading = "consent"] \in CallState
  BY <1>1, <1>2 DEF CallState, Ended, Steps, Readings
<1> QED BY <1>1, <1>3 DEF Types, End, Become, Keeps, CallState

\* Start, when it does not refuse.
LEMMA Starts ==
    ASSUME Types, NEW c \in Calls, NEW op \in Ops,
           Become(c, [call[c] EXCEPT !.at = "load", !.op = op, !.up = ~marker,
                        !.bound = IF op.path = NoPath THEN {} ELSE Escalating(records, op)])
    PROVE  /\ call' \in [Calls -> CallState]
           /\ \A d \in Calls \ {c} : call'[d] = call[d]
           /\ call'[c].at = "load" /\ call'[c].op = op
           /\ call'[c].up = ~marker
           /\ call'[c].bound = IF op.path = NoPath THEN {} ELSE Escalating(records, op)
           /\ call'[c].answer = call[c].answer
<1> DEFINE b == IF op.path = NoPath THEN {} ELSE Escalating(records, op)
<1>1. call[c] \in CallState
  BY DEF Types
<1>2. b \in SUBSET Rulings
  BY DEF Escalating, governing
<1>3. Become(c, [call[c] EXCEPT !.at = "load", !.op = op, !.up = ~marker, !.bound = b])
  OBVIOUS
<1> HIDE DEF b
<1>4. (~marker) \in BOOLEAN
  BY DEF Types
<1> DEFINE s == [call[c] EXCEPT !.at = "load", !.op = op, !.up = ~marker, !.bound = b]
<1>5. /\ s \in CallState
      /\ s.at = "load" /\ s.op = op /\ s.up = ~marker /\ s.bound = b
      /\ s.answer = call[c].answer
  BY <1>1, <1>2, <1>4 DEF CallState, Steps
<1>6. Become(c, s)
  BY <1>3
<1> HIDE DEF s
<1>7. /\ call' \in [Calls -> CallState] /\ call'[c] = s
      /\ \A d \in Calls \ {c} : call'[d] = call[d]
  BY <1>5, <1>6 DEF Types, Become
<1> QED BY <1>5, <1>7 DEF b

\* Decide, when the marker can be read.
LEMMA Decides ==
    ASSUME Types, NEW c \in Calls, NEW v \in Verdict,
           Become(c, [call[c] EXCEPT !.at = "council", !.verdict = v, !.floor = v.decision])
    PROVE  /\ call' \in [Calls -> CallState]
           /\ \A d \in Calls \ {c} : call'[d] = call[d]
           /\ call'[c].at = "council" /\ call'[c].verdict = v
           /\ call'[c].floor = v.decision /\ Keeps(c)
           /\ call'[c].answer = call[c].answer
<1>1. call[c] \in CallState /\ v.decision \in Decisions
  BY DEF Types, Verdict
<1>2. [call[c] EXCEPT !.at = "council", !.verdict = v, !.floor = v.decision] \in CallState
  BY <1>1 DEF CallState, Steps
<1> QED BY <1>1, <1>2 DEF Types, Become, Keeps, CallState

\* Council, when a review is formed.
LEMMA Reviews ==
    ASSUME Types, NEW c \in Calls, NEW r \in Readings,
           Become(c, [call[c] EXCEPT !.at = "append", !.reading = r])
    PROVE  /\ call' \in [Calls -> CallState]
           /\ \A d \in Calls \ {c} : call'[d] = call[d]
           /\ call'[c].at = "append" /\ call'[c].reading = r /\ Keeps(c)
           /\ call'[c].verdict = call[c].verdict
           /\ call'[c].floor = call[c].floor
           /\ call'[c].answer = call[c].answer
<1>1. call[c] \in CallState
  BY DEF Types
<1>2. [call[c] EXCEPT !.at = "append", !.reading = r] \in CallState
  BY <1>1 DEF CallState, Steps
<1> QED BY <1>1, <1>2 DEF Types, Become, Keeps, CallState

LEMMA ReadingsTyped == \A op \in Ops : review_core_write(op) \in Readings
BY DEF review_core_write, Readings

LEMMA AnswersTyped == \A v : decision_frame(v) \in Answers
BY DEF decision_frame, Answers

\* The verdicts the council hands on are verdicts, and no laxer.
LEMMA HandedOn ==
    ASSUME Types, NEW c \in Calls
    PROVE  /\ call[c] \in CallState /\ call[c].verdict \in Verdict
           /\ call[c].op \in Ops /\ call[c].op \in Operation
           /\ Raised(c) \in Verdict /\ Raised(c).decision = "ASK"
           /\ Refused(c) \in Verdict /\ Refused(c).decision = "BLOCK"
<1>1. call[c] \in CallState
  BY DEF Types
<1>2. call[c].verdict \in Verdict /\ call[c].op \in Ops /\ call[c].op \in Operation
  BY <1>1 DEF CallState
<1>3. Raised(c) \in Verdict /\ Raised(c).decision = "ASK"
  BY <1>2 DEF Raised, Verdict, ask, Decisions
<1>4. Refused(c) \in Verdict /\ Refused(c).decision = "BLOCK"
  BY <1>2 DEF Refused, Verdict, Decisions
<1> QED BY <1>1, <1>2, <1>3, <1>4

LEMMA Halts ==
    ASSUME NEW c \in Calls, Halted(c)
    PROVE  \/ Goto(c, "record", Refused(c))
           \/ mode \notin {"enforce", "unreadable"} /\ Goto(c, "record", call[c].verdict)
BY DEF Halted
----------------------------------------------------------------------------
(* Every step but the hook's own                                           *)

\* What a step of c leaves every other hook, whichever step it is.
Frame(c) ==
    /\ call' \in [Calls -> CallState]
    /\ \A d \in Calls \ {c} : call'[d] = call[d]
    /\ UNCHANGED <<marker, estate, mode, records, overrides>>
    /\ gateLedger \subseteq gateLedger' /\ reviews \subseteq reviews'
    /\ consumed \subseteq consumed' /\ consumed' \subseteq consumed \cup {c}

\* A hook that still is what it was keeps what it carries while the ledgers
\* and the overrides only grow.
LEMMA CarriesOn ==
    ASSUME IInv, NEW c \in Calls, Frame(c), NEW d \in Calls \ {c}
    PROVE  StandOf(d)' /\ BarOf(d)' /\ ReviewOf(d)' /\ OverrideOf(d)'
<1>1. call'[d] = call[d] /\ (d \in consumed <=> d \in consumed')
  BY DEF Frame
<1>2. StandOf(d)'
  BY <1>1 DEF IInv, StandInv, StandOf, Frame
<1>3. BarOf(d)'
  BY <1>1 DEF IInv, BarInv, BarOf, Frame
<1>4. ReviewOf(d)'
  <2>1. Escalating(records, call[d].op)' = Escalating(records, call[d].op)
    BY <1>1 DEF Frame, Escalating, Facts, Gated, Tier, known
  <2>2. Clean(d)' <=> Clean(d)
    BY <1>1 DEF Clean
  <2>3. Reviewed(d) => Reviewed(d)'
    BY DEF Reviewed, Frame
  <2>4. Bound(d)' <=> Bound(d)
    BY <1>1 DEF Bound, Frame
  <2>5. ReviewOf(d)
    BY DEF IInv, ReviewInv
  <2> QED BY <1>1, <2>1, <2>2, <2>3, <2>4, <2>5 DEF ReviewOf, MayPass
<1>5. OverrideOf(d)'
  BY <1>1 DEF IInv, OverrideInv, OverrideOf, Granted, Frame
<1> QED BY <1>2, <1>3, <1>4, <1>5

\* So a step of c keeps the invariant if c itself carries it on.
LEMMA Suffices ==
    ASSUME IInv, NEW c \in Calls, Frame(c),
           StandOf(c)', BarOf(c)', ReviewOf(c)', OverrideOf(c)'
    PROVE  IInv'
<1>1. Types'
  <2>1. consumed' = consumed \/ consumed' = consumed \cup {c}
    BY DEF Frame
  <2>2. IsFiniteSet(consumed \cup {c}) /\ IsFiniteSet(consumed)
    BY FS_AddElement DEF IInv, Types
  <2>3. IsFiniteSet(consumed')
    BY <2>1, <2>2
  <2> QED BY <2>1, <2>3 DEF IInv, Types, Frame
<1>2. \A d \in Calls : StandOf(d)' /\ BarOf(d)' /\ ReviewOf(d)' /\ OverrideOf(d)'
  BY CarriesOn
<1> QED BY <1>1, <1>2 DEF IInv, StandInv, BarInv, ReviewInv, OverrideInv

\* A step that ends a hook with no leave given.
LEMMA DeniesKeep ==
    ASSUME IInv, NEW c \in Calls, NEW how \in Ended, NEW answer \in {"none", "deny"},
           End(c, how, answer), NoRow, Elsewhere
    PROVE  IInv'
<1>1. /\ call'[c].at = how /\ call'[c].answer = answer /\ Keeps(c)
      /\ call' \in [Calls -> CallState]
      /\ \A d \in Calls \ {c} : call'[d] = call[d]
      /\ how \in {"done", "crashed", "killed"}
  BY Finishes DEF IInv, Ended, Answers
<1> Frame(c)
  BY <1>1 DEF Frame, NoRow, Elsewhere, orderingVars
<1>2. StandOf(c)' /\ BarOf(c)'
  BY <1>1 DEF StandOf, BarOf, Live, After, Ended
<1>3. ReviewOf(c)'
  <2>1. Escalating(records, call[c].op)' = Escalating(records, call[c].op)
    BY <1>1 DEF Frame, Keeps, Escalating, Facts, Gated, Tier, known
  <2> QED BY <1>1, <2>1 DEF ReviewOf, IInv, ReviewInv, Keeps
<1>4. OverrideOf(c)'
  BY <1>1 DEF OverrideOf, Granted, IInv, OverrideInv, Keeps, Frame, Ended, NoRow
<1> QED BY <1>2, <1>3, <1>4, Suffices
----------------------------------------------------------------------------
(* The hook's own steps                                                    *)

LEMMA StartKeeps ==
    ASSUME IInv, NEW c \in Calls, Start(c)
    PROVE  IInv'
<1>1. CASE Deny(c)
  BY <1>1, DeniesKeep DEF Start, Deny, Ended
<1>2. ASSUME NEW op \in Ops,
             Become(c, [call[c] EXCEPT !.at = "load", !.op = op, !.up = ~marker,
                          !.bound = IF op.path = NoPath THEN {} ELSE Escalating(records, op)])
      PROVE  IInv'
  <2>1. /\ call' \in [Calls -> CallState]
        /\ \A d \in Calls \ {c} : call'[d] = call[d]
        /\ call'[c].at = "load" /\ call'[c].op = op /\ call'[c].up = ~marker
        /\ call'[c].bound = IF op.path = NoPath THEN {} ELSE Escalating(records, op)
        /\ call'[c].answer = call[c].answer
    BY <1>2, Starts DEF IInv
  <2>2. Frame(c)
    BY <2>1 DEF Frame, Start, NoRow, Elsewhere, orderingVars
  <2>3. call[c].at = "idle" /\ call[c].answer = "none" /\ c \notin consumed'
    BY DEF Start, NoRow, IInv, StandInv, StandOf, OverrideInv, OverrideOf, Granted, Ended
  <2>4. StandOf(c)' /\ BarOf(c)' /\ OverrideOf(c)'
    BY <2>1, <2>2, <2>3 DEF StandOf, BarOf, OverrideOf, Granted, Frame, Live, After, Ended
  <2>5. ReviewOf(c)'
    <3>1. Escalating(records, call[c].op)' = Escalating(records, op)
      BY <2>1, <2>2 DEF Frame, Escalating, Facts, Gated, Tier, known
    <3> QED BY <2>1, <2>3, <3>1 DEF ReviewOf
  <2> QED BY <2>2, <2>4, <2>5, Suffices
<1> QED BY <1>1, <1>2 DEF Start

\* A step that only moves a hook along, its verdict the same or stricter.
LEMMA MovesKeep ==
    ASSUME IInv, NEW c \in Calls, NEW step \in Steps \ Ended, NEW v \in Verdict,
           Goto(c, step, v), Elsewhere, UNCHANGED overrides,
           call[c].at \in Live, step \in After \/ (step = "decide" /\ call[c].at = "load"),
           step \in After => call[c].at \in After,
           v.decision = "ALLOW" => call[c].verdict.decision = "ALLOW",
           v.decision = "ASK" => call[c].verdict.decision \in {"ALLOW", "ASK"},
           gateLedger \subseteq gateLedger', reviews \subseteq reviews',
           consumed' = consumed \/ consumed' = consumed \cup {c},
           step \notin {"append"},
           step \in {"override", "consume"} =>
             /\ Reviewed(c)'
             /\ v.decision \in {"ALLOW", "ASK"} /\ call[c].op.path # NoPath,
           step = "consume" => Granted(c),
           step = "emit" => <<c, v.decision>> \in gateLedger',
           step \in {"record", "emit"} /\ v.decision = "ALLOW" /\ Bound(c) => MayPass(c)',
           c \in consumed' => Granted(c) /\ step \in {"record", "emit"}
    PROVE  IInv'
<1>1. /\ call' \in [Calls -> CallState]
      /\ \A d \in Calls \ {c} : call'[d] = call[d]
      /\ call'[c].at = step /\ call'[c].verdict = v /\ Keeps(c)
      /\ call'[c].floor = call[c].floor
      /\ call'[c].answer = call[c].answer
  BY Goes DEF IInv
<1>2. Frame(c)
  BY <1>1 DEF Frame, Elsewhere, orderingVars
<1>3. StandOf(c) /\ BarOf(c) /\ ReviewOf(c)
  BY DEF IInv, StandInv, BarInv, ReviewInv
<1>4. call[c].answer = "none"
  BY <1>3 DEF StandOf, Live
<1>5. StandOf(c)'
  BY <1>1, <1>2, <1>3, <1>4 DEF StandOf, Frame, Live, After, Ended, Keeps
<1>6. BarOf(c)'
  <2>1. call[c].at \in After =>
          /\ v.decision = "ALLOW" => call[c].floor = "ALLOW"
          /\ v.decision = "ASK" => call[c].floor \in {"ALLOW", "ASK"}
    BY <1>3 DEF BarOf
  <2> QED BY <1>1, <1>4, <2>1 DEF BarOf, Keeps, After
<1>7. ReviewOf(c)'
  <2>1. Escalating(records, call[c].op)' = Escalating(records, call[c].op)
    BY <1>1, <1>2 DEF Frame, Keeps, Escalating, Facts, Gated, Tier, known
  <2>2. Bound(c)' <=> Bound(c)
    BY <1>1, <1>2 DEF Bound, Frame, Keeps
  <2> QED BY <1>1, <1>3, <1>4, <2>1, <2>2 DEF ReviewOf, Keeps
<1>8. OverrideOf(c)'
  BY <1>1, <1>2 DEF OverrideOf, Granted, Frame, Keeps, After
<1> QED BY <1>2, <1>5, <1>6, <1>7, <1>8, Suffices

LEMMA LoadContextKeeps ==
    ASSUME IInv, NEW c \in Calls, LoadContext(c)
    PROVE  IInv'
<1>1. CASE Deny(c)
  BY <1>1, DeniesKeep DEF LoadContext, Deny, Ended
<1>2. CASE End(c, "crashed", "none")
  BY <1>2, DeniesKeep DEF LoadContext, Ended
<1>3. CASE Goto(c, "decide", call[c].verdict)
  <2>1. call[c].verdict \in Verdict
    BY HandedOn DEF IInv
  <2>2. call[c].at = "load" /\ c \notin consumed
    BY DEF LoadContext, IInv, OverrideInv, OverrideOf, Granted, Ended
  <2>3. Elsewhere /\ NoRow
    BY DEF LoadContext
  <2> DEFINE step == "decide"
             v    == call[c].verdict
  <2>4. /\ step \in Steps \ Ended /\ step \notin After /\ call[c].at \in Live
        /\ step \notin {"append", "override", "consume", "record", "emit"}
        /\ step = "decide" /\ Goto(c, step, v) /\ v \in Verdict /\ v = call[c].verdict
    BY <1>3, <2>1, <2>2 DEF Steps, Live, After, Ended
  <2>5. v.decision = "ASK" => v.decision \in {"ALLOW", "ASK"}
    OBVIOUS
  <2> HIDE DEF step, v
  <2> QED BY <2>2, <2>3, <2>4, <2>5, MovesKeep DEF NoRow
<1> QED BY <1>1, <1>2, <1>3 DEF LoadContext
\* A move to the record, where every path of the council ends.
LEMMA RecordsKeep ==
    ASSUME IInv, NEW c \in Calls, NEW v \in Verdict,
           Goto(c, "record", v), Elsewhere, UNCHANGED overrides,
           call[c].at \in After,
           v.decision = "ALLOW" => call[c].verdict.decision = "ALLOW",
           v.decision = "ASK" => call[c].verdict.decision \in {"ALLOW", "ASK"},
           gateLedger \subseteq gateLedger', reviews \subseteq reviews',
           consumed' = consumed \/ consumed' = consumed \cup {c},
           v.decision = "ALLOW" /\ Bound(c) => MayPass(c)',
           c \in consumed' => Granted(c)
    PROVE  IInv'
<1> DEFINE step == "record"
<1>1. /\ step \in Steps \ Ended /\ step \in After /\ call[c].at \in Live
      /\ step \notin {"append", "override", "consume", "emit"}
      /\ step \in {"record", "emit"}
      /\ Goto(c, step, v)
  BY DEF Steps, Live, After, Ended
<1> HIDE DEF step
<1> QED BY <1>1, MovesKeep

\* A verdict that is not an ALLOW goes to the record whatever it was.
LEMMA RefusesKeep ==
    ASSUME IInv, NEW c \in Calls, NEW v \in Verdict,
           Goto(c, "record", v), Elsewhere, NoRow,
           call[c].at \in After \ {"record", "emit"},
           v.decision \in {"ASK", "BLOCK", "HALT"},
           v.decision = "ASK" => call[c].verdict.decision \in {"ALLOW", "ASK"}
    PROVE  IInv'
<1>1. c \notin consumed
  BY DEF IInv, OverrideInv, OverrideOf, Granted, Ended, After
<1> QED BY <1>1, RecordsKeep DEF NoRow

LEMMA DecideKeeps ==
    ASSUME IInv, NEW c \in Calls, Decide(c)
    PROVE  IInv'
<1>1. CASE Deny(c)
  BY <1>1, DeniesKeep DEF Decide, Deny, Ended
<1>2. CASE ~Deny(c)
  <2> DEFINE v == IF marker THEN halt ELSE verdict_for(call[c].op, known)
  <2>1. /\ call[c].at = "decide" /\ call[c].op \in Ops
        /\ Become(c, [call[c] EXCEPT !.at = "council", !.verdict = v, !.floor = v.decision])
    BY <1>2, HandedOn DEF Decide, IInv
  <2>2. v \in Verdict
    BY <2>1, VerdictsTyped
  <2>3. marker => v.decision = "HALT"
    BY DEF halt
  <2> HIDE DEF v
  <2>4. /\ call' \in [Calls -> CallState]
        /\ \A d \in Calls \ {c} : call'[d] = call[d]
        /\ call'[c].at = "council" /\ call'[c].verdict = v
        /\ call'[c].floor = v.decision /\ Keeps(c)
        /\ call'[c].answer = call[c].answer
    BY <2>1, <2>2, Decides DEF IInv
  <2>5. Frame(c)
    BY <2>4 DEF Frame, Decide, NoRow, Elsewhere, orderingVars
  <2>6. StandOf(c) /\ ReviewOf(c) /\ c \notin consumed /\ c \notin consumed'
    BY <2>1 DEF IInv, StandInv, ReviewInv, OverrideInv, OverrideOf, Granted, Ended, Decide, NoRow
  <2>7. call[c].answer = "none"
    BY <2>1, <2>6 DEF StandOf, Ended
  <2>8. StandOf(c)' /\ BarOf(c)' /\ OverrideOf(c)'
    BY <2>1, <2>3, <2>4, <2>5, <2>6, <2>7
       DEF StandOf, BarOf, OverrideOf, Granted, Frame, Live, After, Ended, Steps, Keeps
  <2>9. ReviewOf(c)'
    <3>1. Escalating(records, call[c].op)' = Escalating(records, call[c].op)
      BY <2>4, <2>5 DEF Frame, Keeps, Escalating, Facts, Gated, Tier, known
    <3> QED BY <2>4, <2>6, <2>7, <3>1 DEF ReviewOf, Keeps
  <2> QED BY <2>5, <2>8, <2>9, Suffices
<1> QED BY <1>1, <1>2

\* The reading consents only to a write with nothing in it to hold.
LEMMA ConsentIsClean ==
    ASSUME NEW op \in Ops, review_core_write(op) = "consent"
    PROVE  /\ Escalating(records, op) = {} /\ ~op.weakening
           /\ ~("deception" \in op.words /\ op.path \in PeoplePaths \cap SignedPaths)
<1>1. /\ Escalating(records, op) = {} /\ ~op.weakening
      /\ ~conscience_hold(_default_action(op))
  BY DEF review_core_write
<1> QED BY <1>1, DeceptionIsHeld

LEMMA CouncilKeeps ==
    ASSUME IInv, NEW c \in Calls, Council(c)
    PROVE  IInv'
<1> DEFINE d == call[c].verdict.decision
           convenes == d \notin {"BLOCK", "HALT"} /\ call[c].op.tool \in {"file", "shell"}
<1>1. /\ call[c].at = "council" /\ call[c].at \in After \ {"record", "emit"}
      /\ call[c].verdict \in Verdict /\ call[c].op \in Ops /\ c \notin consumed
      /\ NoRow /\ Elsewhere /\ d \in Decisions
  BY HandedOn DEF Council, After, IInv, OverrideInv, OverrideOf, Granted, Ended, Verdict
<1>2. CASE Goto(c, "record", call[c].verdict) /\ (Bound(c) => d # "ALLOW")
  BY <1>1, <1>2, RecordsKeep DEF NoRow
<1>3. CASE convenes /\ Goto(c, "record", Raised(c))
  <2>1. Raised(c) \in Verdict /\ Raised(c).decision = "ASK"
    BY HandedOn DEF IInv
  <2> QED BY <1>1, <1>3, <2>1, RefusesKeep DEF Decisions
<1>4. CASE Halted(c)
  <2>1. CASE Goto(c, "record", Refused(c))
    BY <1>1, <2>1, HandedOn, RefusesKeep DEF IInv
  <2>2. CASE mode \notin {"enforce", "unreadable"} /\ Goto(c, "record", call[c].verdict)
    BY <1>2, <2>2 DEF Bound
  <2> QED BY <1>4, <2>1, <2>2, Halts
<1>5. CASE /\ convenes /\ call[c].op.path # NoPath
           /\ Become(c, [call[c] EXCEPT !.at = "append",
                                        !.reading = review_core_write(call[c].op)])
  <2> DEFINE r == review_core_write(call[c].op)
  <2>1. r \in Readings
    BY <1>1, ReadingsTyped
  <2>2. r = "consent" => Clean(c)
    <3>1. ReviewOf(c)
      BY DEF IInv, ReviewInv
    <3> QED BY <1>1, <1>5, <3>1, ConsentIsClean DEF Clean, ReviewOf
  <2>3. Become(c, [call[c] EXCEPT !.at = "append", !.reading = r])
    BY <1>5
  <2> HIDE DEF r
  <2>4. /\ call' \in [Calls -> CallState]
        /\ \A e \in Calls \ {c} : call'[e] = call[e]
        /\ call'[c].at = "append" /\ call'[c].reading = r /\ Keeps(c)
        /\ call'[c].verdict = call[c].verdict
        /\ call'[c].floor = call[c].floor
        /\ call'[c].answer = call[c].answer
    BY <2>1, <2>3, Reviews DEF IInv
  <2>5. Frame(c)
    BY <1>1, <2>4 DEF Frame, NoRow, Elsewhere, orderingVars
  <2>6. StandOf(c) /\ BarOf(c) /\ ReviewOf(c) /\ c \notin consumed'
    BY <1>1 DEF IInv, StandInv, BarInv, ReviewInv, NoRow
  <2>7. call[c].answer = "none"
    BY <1>1, <2>6 DEF StandOf, Ended
  <2>8. StandOf(c)' /\ OverrideOf(c)'
    BY <1>1, <2>4, <2>5, <2>6, <2>7
       DEF StandOf, OverrideOf, Granted, Frame, Live, After, Ended, Steps, Keeps
  <2>9. BarOf(c)'
    BY <1>1, <1>5, <2>4, <2>6, <2>7 DEF BarOf, After, Keeps, Decisions
  <2>10. ReviewOf(c)'
    <3>1. Escalating(records, call[c].op)' = Escalating(records, call[c].op)
      BY <2>4, <2>5 DEF Frame, Keeps, Escalating, Facts, Gated, Tier, known
    <3>2. Clean(c) => Clean(c)'
      BY <2>4 DEF Clean, Keeps
    <3> QED BY <2>2, <2>4, <2>6, <2>7, <3>1, <3>2 DEF ReviewOf, Keeps
  <2> QED BY <2>5, <2>8, <2>9, <2>10, Suffices
<1>6. CASE ~convenes /\ Goto(c, "record", call[c].verdict)
  BY <1>2, <1>6 DEF Bound
<1>7. CASE call[c].op.path = NoPath /\ Goto(c, "record", call[c].verdict)
  BY <1>2, <1>7 DEF Bound
<1> QED BY <1>3, <1>4, <1>5, <1>6, <1>7 DEF Council
LEMMA AppendReviewKeeps ==
    ASSUME IInv, NEW c \in Calls, AppendReview(c)
    PROVE  IInv'
<1> DEFINE d == call[c].verdict.decision
<1>1. /\ call[c].at = "append" /\ call[c].at \in After \ {"record", "emit"}
      /\ call[c].verdict \in Verdict /\ d \in {"ALLOW", "ASK"}
      /\ call[c].op.path # NoPath /\ c \notin consumed /\ Elsewhere
      /\ UNCHANGED <<gateLedger, overrides, consumed>>
  BY HandedOn DEF AppendReview, After, IInv, BarInv, BarOf, OverrideInv, OverrideOf, Granted, Ended
<1>2. CASE Halted(c) /\ UNCHANGED reviews
  <2>1. NoRow
    BY <1>1, <1>2 DEF NoRow
  <2>2. CASE Goto(c, "record", Refused(c))
    BY <1>1, <2>1, <2>2, HandedOn, RefusesKeep DEF IInv
  <2>3. CASE mode \notin {"enforce", "unreadable"} /\ Goto(c, "record", call[c].verdict)
    BY <1>1, <2>1, <2>3, RecordsKeep DEF Bound, NoRow
  <2> QED BY <1>2, <2>2, <2>3, Halts
<1>3. ASSUME reviews' = reviews \cup {<<c, call[c].reading>>}
      PROVE  Reviewed(c)' /\ reviews \subseteq reviews'
  <2>1. call[c].reading \in Readings
    BY HandedOn DEF IInv, CallState
  <2> QED BY <1>3, <2>1 DEF Reviewed
<1>4. CASE /\ reviews' = reviews \cup {<<c, call[c].reading>>}
           /\ mode = "enforce" /\ call[c].reading # "consent"
           /\ Goto(c, "override", call[c].verdict)
  <2> DEFINE step == "override"
             v    == call[c].verdict
  <2>1. /\ step \in Steps \ Ended /\ step \in After /\ call[c].at \in Live
        /\ step \notin {"append", "record", "emit", "consume"}
        /\ call[c].at \in After
        /\ Goto(c, step, v) /\ v \in Verdict /\ v = call[c].verdict
    BY <1>1, <1>4 DEF Steps, Live, After, Ended
  <2>2. Reviewed(c)' /\ reviews \subseteq reviews'
    BY <1>3, <1>4
  <2>3. /\ v.decision = "ASK" => v.decision \in {"ALLOW", "ASK"}
        /\ c \notin consumed' /\ gateLedger \subseteq gateLedger'
        /\ consumed' = consumed /\ v.decision \in {"ALLOW", "ASK"}
        /\ UNCHANGED overrides
    BY <1>1
  <2> HIDE DEF step, v
  <2> QED BY <1>1, <2>1, <2>2, <2>3, MovesKeep
<1>5. CASE /\ reviews' = reviews \cup {<<c, call[c].reading>>}
           /\ mode # "enforce" \/ call[c].reading = "consent"
           /\ Goto(c, "record", call[c].verdict)
  <2>1. Reviewed(c)' /\ reviews \subseteq reviews'
    BY <1>3, <1>5
  <2>2. Keeps(c)
    BY <1>1, <1>5, Goes DEF IInv, Steps
  <2>3. Bound(c) => MayPass(c)'
    <3>1. call[c].reading = "consent" => Clean(c)
      BY <1>1 DEF IInv, ReviewInv, ReviewOf
    <3> QED BY <1>5, <2>1, <2>2, <3>1 DEF Bound, MayPass, Clean, Keeps
  <2> QED BY <1>1, <1>5, <2>1, <2>3, RecordsKeep
<1> QED BY <1>2, <1>4, <1>5 DEF AppendReview

LEMMA ReadOverridesKeeps ==
    ASSUME IInv, NEW c \in Calls, ReadOverrides(c)
    PROVE  IInv'
<1> DEFINE d == call[c].verdict.decision
<1>1. /\ call[c].at = "override" /\ call[c].at \in After \ {"record", "emit"}
      /\ call[c].verdict \in Verdict /\ d \in {"ALLOW", "ASK"}
      /\ call[c].op.path \in Paths /\ call[c].op.path # NoPath
      /\ c \notin consumed /\ Reviewed(c) /\ Elsewhere /\ NoRow
  BY HandedOn DEF ReadOverrides, After, IInv, BarInv, BarOf, OverrideInv, OverrideOf, Granted,
                  ReviewInv, ReviewOf, Ended, Operation
<1>2. CASE Goto(c, "record", Refused(c))
  BY <1>1, <1>2, HandedOn, RefusesKeep DEF IInv
<1>3. CASE outstanding(call[c].op.path) /\ Goto(c, "consume", call[c].verdict)
  <2>1. Granted(c)
    <3> DEFINE used == {e \in consumed : call[e].op.path = call[c].op.path}
    <3>1. Cardinality(used) \in Nat
      BY FS_Subset, FS_CardinalityType DEF IInv, Types
    <3>2. overrides[call[c].op.path] \in Nat
      BY <1>1 DEF IInv, Types
    <3>3. overrides[call[c].op.path] > Cardinality(used)
      BY <1>3 DEF outstanding
    <3> HIDE DEF used
    <3> QED BY <1>1, <3>1, <3>2, <3>3 DEF Granted
  <2> DEFINE step == "consume"
             v    == call[c].verdict
  <2>2. /\ step \in Steps \ Ended /\ step \in After /\ call[c].at \in Live
        /\ step \notin {"append", "record", "emit", "override"}
        /\ call[c].at \in After
        /\ Goto(c, step, v) /\ v \in Verdict /\ v = call[c].verdict
    BY <1>1, <1>3 DEF Steps, Live, After, Ended
  <2>3. Reviewed(c)' /\ reviews \subseteq reviews'
    BY <1>1 DEF NoRow, Reviewed
  <2>4. /\ v.decision = "ASK" => v.decision \in {"ALLOW", "ASK"}
        /\ c \notin consumed' /\ gateLedger \subseteq gateLedger'
        /\ consumed' = consumed /\ v.decision \in {"ALLOW", "ASK"}
        /\ UNCHANGED overrides
    BY <1>1 DEF NoRow
  <2> HIDE DEF step, v
  <2> QED BY <1>1, <2>1, <2>2, <2>3, <2>4, MovesKeep
<1> QED BY <1>2, <1>3 DEF ReadOverrides

LEMMA ConsumeKeeps ==
    ASSUME IInv, NEW c \in Calls, Consume(c)
    PROVE  IInv'
<1> DEFINE d == call[c].verdict.decision
<1>1. /\ call[c].at = "consume" /\ call[c].at \in After \ {"record", "emit"}
      /\ call[c].verdict \in Verdict /\ d \in {"ALLOW", "ASK"}
      /\ Granted(c) /\ Reviewed(c) /\ Elsewhere
      /\ UNCHANGED <<gateLedger, reviews, overrides>>
  BY HandedOn DEF Consume, After, IInv, BarInv, BarOf, OverrideInv, OverrideOf, Granted,
                  ReviewInv, ReviewOf
<1>2. CASE UNCHANGED consumed /\ Goto(c, "record", Raised(c))
  <2>1. NoRow
    BY <1>1, <1>2 DEF NoRow
  <2> QED BY <1>1, <1>2, <2>1, HandedOn, RefusesKeep DEF IInv
<1>3. CASE consumed' = consumed \cup {c} /\ Goto(c, "record", call[c].verdict)
  <2>1. MayPass(c)'
    BY <1>1, <1>3 DEF MayPass, Reviewed
  <2> QED BY <1>1, <1>3, <2>1, RecordsKeep
<1> QED BY <1>2, <1>3 DEF Consume

LEMMA RecordKeeps ==
    ASSUME IInv, NEW c \in Calls, Record(c)
    PROVE  IInv'
<1> DEFINE d == call[c].verdict.decision
<1>1. /\ call[c].at = "record" /\ call[c].at \in After
      /\ call[c].verdict \in Verdict /\ Elsewhere
      /\ UNCHANGED <<reviews, overrides, consumed>>
  BY HandedOn DEF Record, After, IInv
<1>2. CASE Deny(c) /\ UNCHANGED gateLedger
  <2>1. NoRow
    BY <1>1, <1>2 DEF NoRow
  <2> QED BY <1>1, <1>2, <2>1, DeniesKeep DEF Deny, Ended
<1>3. CASE gateLedger' = gateLedger \cup {<<c, d>>} /\ Goto(c, "emit", call[c].verdict)
  <2> DEFINE step == "emit"
             v    == call[c].verdict
  <2>1. /\ step \in Steps \ Ended /\ step \in After /\ call[c].at \in Live
        /\ step \notin {"append", "override", "consume"} /\ step \in {"record", "emit"}
        /\ Goto(c, step, v) /\ v \in Verdict /\ v = call[c].verdict
        /\ <<c, v.decision>> \in gateLedger' /\ gateLedger \subseteq gateLedger'
    BY <1>1, <1>3 DEF Steps, Live, After, Ended
  <2>2. Keeps(c)
    BY <1>1, <1>3, Goes DEF IInv, Steps
  <2>3. v.decision = "ALLOW" /\ Bound(c) => MayPass(c)'
    <3>1. v.decision = "ALLOW" /\ Bound(c) => MayPass(c)
      BY <1>1, <2>1 DEF IInv, ReviewInv, ReviewOf
    <3> QED BY <1>1, <2>2, <3>1 DEF MayPass, Reviewed, Clean, Keeps
  <2>4. /\ c \in consumed' => Granted(c)
        /\ reviews \subseteq reviews' /\ consumed' = consumed /\ UNCHANGED overrides
        /\ v.decision = "ASK" => v.decision \in {"ALLOW", "ASK"}
    BY <1>1 DEF IInv, OverrideInv, OverrideOf, Granted
  <2> HIDE DEF step, v
  <2> QED BY <1>1, <2>1, <2>3, <2>4, MovesKeep
<1> QED BY <1>2, <1>3 DEF Record

LEMMA EmitKeeps ==
    ASSUME IInv, NEW c \in Calls, Emit(c)
    PROVE  IInv'
<1> DEFINE d == call[c].verdict.decision
           a == decision_frame(call[c].verdict)
<1>1. /\ call[c].at = "emit" /\ call[c].at \in After /\ d \in Decisions
      /\ a \in Answers /\ End(c, "done", a) /\ NoRow /\ Elsewhere
  BY HandedOn, AnswersTyped DEF Emit, After, IInv, Verdict
<1>2. (a = "silence" => d = "ALLOW") /\ (a = "ask" => d = "ASK") /\ a # "none"
  BY <1>1 DEF decision_frame, Decisions
<1> HIDE DEF a
<1>3. /\ call' \in [Calls -> CallState]
      /\ \A e \in Calls \ {c} : call'[e] = call[e]
      /\ call'[c].at = "done" /\ call'[c].answer = a /\ Keeps(c)
      /\ call'[c].floor = call[c].floor
  BY <1>1, Finishes DEF IInv, Ended
<1>4. Frame(c)
  BY <1>1, <1>3 DEF Frame, NoRow, Elsewhere, orderingVars
<1>5. StandOf(c) /\ BarOf(c) /\ ReviewOf(c) /\ OverrideOf(c)
  BY DEF IInv, StandInv, BarInv, ReviewInv, OverrideInv
<1>6. StandOf(c)'
  <2>1. ~call[c].up => call[c].floor = "HALT"
    BY <1>1, <1>5 DEF StandOf
  <2>2. d = "ALLOW" \/ d = "ASK" => call[c].floor # "HALT"
    BY <1>1, <1>5 DEF BarOf
  <2>3. a \in {"silence", "ask"} => call[c].up
    BY <1>2, <2>1, <2>2
  <2> QED BY <1>3, <2>3 DEF StandOf, Live, After, Ended, Keeps
<1>7. BarOf(c)'
  BY <1>1, <1>2, <1>3, <1>5 DEF BarOf, NoRow, After
<1>8. ReviewOf(c)'
  <2>1. Escalating(records, call[c].op)' = Escalating(records, call[c].op)
    BY <1>3, <1>4 DEF Frame, Keeps, Escalating, Facts, Gated, Tier, known
  <2>2. Bound(c)' <=> Bound(c)
    BY <1>3, <1>4 DEF Bound, Frame, Keeps
  <2>3. MayPass(c)' <=> MayPass(c)
    BY <1>1, <1>3 DEF MayPass, Reviewed, Clean, Keeps, NoRow
  <2> QED BY <1>1, <1>2, <1>3, <1>5, <2>1, <2>2, <2>3 DEF ReviewOf, Keeps
<1>9. OverrideOf(c)'
  BY <1>1, <1>3, <1>4, <1>5 DEF OverrideOf, Granted, Frame, Keeps, NoRow, Ended
<1> QED BY <1>4, <1>6, <1>7, <1>8, <1>9, Suffices
----------------------------------------------------------------------------
(* The operator's steps, and the theorems                                  *)

\* The operator's steps touch no more of a hook than its history.
LEMMA StandKeeps ==
    ASSUME IInv, Stand
    PROVE  IInv'
<1> /\ UNCHANGED <<estate, mode, records, gateLedger, reviews, overrides, consumed>>
    /\ StandDown \/ StandUp
  BY DEF Stand, NoRow, orderingVars
<1> DEFINE Same(c) == /\ call'[c].at = call[c].at /\ call'[c].op = call[c].op
                      /\ call'[c].verdict = call[c].verdict
                      /\ call'[c].floor = call[c].floor
                      /\ call'[c].reading = call[c].reading
                      /\ call'[c].answer = call[c].answer
                      /\ call'[c].bound = call[c].bound
<1>1. /\ call' \in [Calls -> CallState] /\ marker' \in BOOLEAN
      /\ \A c \in Calls : Same(c)
      /\ marker' \/ \A c \in Calls : call'[c].up <=> call[c].at # "idle"
      /\ marker' => UNCHANGED call
  <2>1. CASE StandDown
    BY <2>1 DEF StandDown, IInv, Types
  <2>2. CASE StandUp
    <3>1. \A c \in Calls : call[c] \in CallState
      BY DEF IInv, Types
    <3>2. \A c \in Calls : [call[c] EXCEPT !.up = call[c].at # "idle"] \in CallState
      BY <3>1 DEF CallState
    <3> QED BY <2>2, <3>1, <3>2 DEF StandUp, CallState
  <2> QED BY <2>1, <2>2
<1>2. Types'
  BY <1>1 DEF IInv, Types
<1> HIDE DEF Same
<1>3. ASSUME NEW c \in Calls
      PROVE  StandOf(c)' /\ BarOf(c)' /\ ReviewOf(c)' /\ OverrideOf(c)'
  <2>1. Same(c) /\ StandOf(c) /\ BarOf(c) /\ ReviewOf(c) /\ OverrideOf(c)
    BY <1>1 DEF IInv, StandInv, BarInv, ReviewInv, OverrideInv
  <2>2. StandOf(c)'
    BY <1>1, <2>1 DEF StandOf, Same, Live, After, Ended, Steps
  <2>3. BarOf(c)'
    BY <2>1 DEF BarOf, Same
  <2>4. ReviewOf(c)'
    <3>1. Escalating(records, call[c].op)' = Escalating(records, call[c].op)
      BY <2>1 DEF Same, Escalating, Facts, Gated, Tier, known
    <3>2. (Bound(c)' <=> Bound(c)) /\ (Clean(c)' <=> Clean(c))
      BY <2>1 DEF Bound, Clean, Same
    <3>3. Reviewed(c)' <=> Reviewed(c)
      BY DEF Reviewed
    <3> QED BY <2>1, <3>1, <3>2, <3>3 DEF ReviewOf, MayPass, Same
  <2>5. OverrideOf(c)'
    BY <2>1 DEF OverrideOf, Granted, Same
  <2> QED BY <2>2, <2>3, <2>4, <2>5
<1> QED BY <1>2, <1>3 DEF IInv, StandInv, BarInv, ReviewInv, OverrideInv
LEMMA OverrideRecordedKeeps ==
    ASSUME IInv, NEW p \in Paths, record_override(p)
    PROVE  IInv'
<1>1. UNCHANGED <<call, marker, estate, mode, records, gateLedger, reviews, consumed>>
  BY DEF record_override, Elsewhere, orderingVars
<1>2. /\ overrides' = [overrides EXCEPT ![p] = overrides[p] + 1]
      /\ overrides \in [Paths -> Nat]
  BY DEF record_override, IInv, Types
<1>3. /\ overrides' \in [Paths -> Nat]
      /\ \A q \in Paths : overrides[q] > 0 => overrides'[q] > 0
  BY <1>2
<1>4. Types'
  BY <1>1, <1>3 DEF IInv, Types
<1>5. ASSUME NEW c \in Calls
      PROVE  StandOf(c)' /\ BarOf(c)' /\ ReviewOf(c)' /\ OverrideOf(c)'
  <2>1. StandOf(c) /\ BarOf(c) /\ ReviewOf(c) /\ OverrideOf(c)
    BY DEF IInv, StandInv, BarInv, ReviewInv, OverrideInv
  <2>2. StandOf(c)' /\ BarOf(c)'
    BY <1>1, <2>1 DEF StandOf, BarOf
  <2>3. ReviewOf(c)'
    <3>1. Escalating(records, call[c].op)' = Escalating(records, call[c].op)
      BY <1>1 DEF Escalating, Facts, Gated, Tier, known
    <3> QED BY <1>1, <2>1, <3>1 DEF ReviewOf, MayPass, Reviewed, Clean, Bound
  <2>4. OverrideOf(c)'
    BY <1>1, <1>3, <2>1 DEF OverrideOf, Granted
  <2> QED BY <2>2, <2>3, <2>4
<1> QED BY <1>4, <1>5 DEF IInv, StandInv, BarInv, ReviewInv, OverrideInv

LEMMA RulingKeeps ==
    ASSUME IInv, Ruling
    PROVE  IInv'
<1> UNCHANGED <<marker, estate, mode, gateLedger, reviews, overrides, consumed>>
  BY DEF Ruling
<1> DEFINE Esc(c)  == Escalating(records', call[c].op)
           Same(c) == /\ call'[c].at = call[c].at /\ call'[c].op = call[c].op
                      /\ call'[c].verdict = call[c].verdict
                      /\ call'[c].floor = call[c].floor
                      /\ call'[c].reading = call[c].reading
                      /\ call'[c].answer = call[c].answer
                      /\ call'[c].up = call[c].up
<1>1. /\ call' \in [Calls -> CallState]
      /\ \A c \in Calls : Same(c) /\ call'[c].bound = call[c].bound \cap Esc(c)
  <2>1. \A c \in Calls : call[c] \in CallState
    BY DEF IInv, Types
  <2>2. call' = [c \in Calls |-> [call[c] EXCEPT !.bound = call[c].bound \cap Esc(c)]]
    BY <2>1 DEF Ruling, CallState
  <2> HIDE DEF Esc
  <2>3. \A c \in Calls : [call[c] EXCEPT !.bound = call[c].bound \cap Esc(c)] \in CallState
    BY <2>1 DEF CallState
  <2> QED BY <2>1, <2>2, <2>3 DEF CallState
<1>2. Types'
  BY <1>1 DEF IInv, Types
<1> HIDE DEF Same
<1>3. ASSUME NEW c \in Calls
      PROVE  StandOf(c)' /\ BarOf(c)' /\ ReviewOf(c)' /\ OverrideOf(c)'
  <2>1. /\ Same(c) /\ call'[c].bound = call[c].bound \cap Esc(c)
        /\ StandOf(c) /\ BarOf(c) /\ ReviewOf(c) /\ OverrideOf(c)
    BY <1>1 DEF IInv, StandInv, BarInv, ReviewInv, OverrideInv
  <2>2. StandOf(c)' /\ BarOf(c)' /\ OverrideOf(c)'
    BY <2>1 DEF StandOf, BarOf, OverrideOf, Granted, Same
  <2>3. ReviewOf(c)'
    <3>1. Escalating(records, call[c].op)' = Esc(c)
      BY <2>1 DEF Same, Escalating, Facts, Gated, Tier, known
    <3>2. (Bound(c)' <=> Bound(c)) /\ (Clean(c) => Clean(c)')
      BY <2>1 DEF Bound, Clean, Same
    <3>3. Reviewed(c)' <=> Reviewed(c)
      BY DEF Reviewed
    <3> HIDE DEF Esc
    <3> QED BY <2>1, <3>1, <3>2, <3>3 DEF ReviewOf, MayPass, Same
  <2> QED BY <2>2, <2>3
<1> QED BY <1>2, <1>3 DEF IInv, StandInv, BarInv, ReviewInv, OverrideInv

LEMMA KilledKeeps ==
    ASSUME IInv, NEW c \in Calls, Killed(c)
    PROVE  IInv'
BY DeniesKeep DEF Killed, Ended

LEMMA InitInv == Init => IInv
<1> SUFFICES ASSUME Init PROVE IInv
  OBVIOUS
<1> DEFINE fresh == [at |-> "idle", op |-> CHOOSE op \in Ops : TRUE,
                     verdict |-> allow("T0"), floor |-> "ALLOW",
                     reading |-> "consent", answer |-> "none",
                     up |-> FALSE, bound |-> {}]
<1>1. fresh \in CallState
  <2>1. allow("T0") \in Verdict
    BY VerdictsTyped DEF TIERS
  <2>2. (CHOOSE op \in Ops : TRUE) \in Ops
    OBVIOUS
  <2> QED BY <2>1, <2>2 DEF CallState, Steps, Decisions, Readings, Answers
<1>2. call = [c \in Calls |-> fresh]
  BY DEF Init
<1>3. fresh.at = "idle" /\ fresh.answer = "none" /\ fresh.bound = {}
  OBVIOUS
<1> HIDE DEF fresh
<1>4. /\ marker \in BOOLEAN /\ overrides \in [Paths -> Nat]
      /\ consumed = {} /\ IsFiniteSet({})
  BY FS_EmptySet DEF Init
<1>5. Types
  BY <1>1, <1>2, <1>4 DEF Types
<1>6. ASSUME NEW c \in Calls
      PROVE  StandOf(c) /\ BarOf(c) /\ ReviewOf(c) /\ OverrideOf(c)
  <2>1. call[c].at = "idle" /\ call[c].answer = "none" /\ call[c].bound = {}
    BY <1>2, <1>3
  <2> QED BY <1>4, <2>1 DEF StandOf, BarOf, ReviewOf, OverrideOf, Granted, Live, After, Ended
<1> QED BY <1>5, <1>6 DEF IInv, StandInv, BarInv, ReviewInv, OverrideInv

LEMMA StepInv == IInv /\ [Next]_vars => IInv'
<1> SUFFICES ASSUME IInv, [Next]_vars PROVE IInv'
  OBVIOUS
<1>1. CASE UNCHANGED vars
  <2>1. UNCHANGED <<marker, estate, mode, call, gateLedger, reviews, overrides, consumed,
                    records>>
    BY <1>1 DEF vars, hookVars, orderingVars
  <2>2. ASSUME NEW c \in Calls
        PROVE  StandOf(c)' /\ BarOf(c)' /\ ReviewOf(c)' /\ OverrideOf(c)'
    <3>1. Escalating(records, call[c].op)' = Escalating(records, call[c].op)
      BY <2>1 DEF Escalating, Facts, Gated, Tier, known
    <3>2. StandOf(c) /\ BarOf(c) /\ ReviewOf(c) /\ OverrideOf(c)
      BY DEF IInv, StandInv, BarInv, ReviewInv, OverrideInv
    <3>3. StandOf(c)' /\ BarOf(c)' /\ OverrideOf(c)'
      BY <2>1, <3>2 DEF StandOf, BarOf, OverrideOf, Granted
    <3>4. ReviewOf(c)'
      BY <2>1, <3>1, <3>2 DEF ReviewOf, MayPass, Reviewed, Clean, Bound
    <3> QED BY <3>3, <3>4
  <2>3. Types'
    BY <2>1 DEF IInv, Types
  <2> QED BY <2>2, <2>3 DEF IInv, StandInv, BarInv, ReviewInv, OverrideInv
<1>2. ASSUME NEW c \in Calls, HookStep(c) \/ Killed(c)
      PROVE  IInv'
  BY <1>2, StartKeeps, LoadContextKeeps, DecideKeeps, CouncilKeeps, AppendReviewKeeps,
     ReadOverridesKeeps, ConsumeKeeps, RecordKeeps, EmitKeeps, KilledKeeps DEF HookStep
<1>3. CASE Stand
  BY <1>3, StandKeeps
<1>4. ASSUME NEW p \in Paths, record_override(p)
      PROVE  IInv'
  BY <1>4, OverrideRecordedKeeps
<1>5. CASE Ruling
  BY <1>5, RulingKeeps
<1> QED BY <1>1, <1>2, <1>3, <1>4, <1>5 DEF Next

LEMMA Invariant == Spec => []IInv
BY InitInv, StepInv, PTL DEF Spec

\* No hook lets a call through whose decision is not a row of the gate ledger
\* (pre_tool.run records before it emits).
THEOREM OnTheRecord == Spec => []NothingOffTheRecord
<1>1. IInv => NothingOffTheRecord
  BY DEF IInv, BarInv, BarOf, NothingOffTheRecord, Answered
<1> QED BY <1>1, Invariant, PTL

\* No hook lets a call through that a stand-down spans (pre_tool.decide reads
\* the marker before it classifies, and nothing after it lowers a HALT).
THEOREM StandDownKept == Spec => []StandDownHonoured
<1>1. IInv => StandDownHonoured
  BY DEF IInv, StandInv, StandOf, StandDownHonoured
<1> QED BY <1>1, Invariant, PTL

\* Step 0 only raises the bar, in enforce mode it holds what it objects to,
\* and an override that lets a write through was granted first
\* (gate_values_council and the core-review ledger).
THEOREM CouncilBindsAlways == Spec => []CouncilBinds
<1>1. IInv => CouncilOnlyRaises
  BY DEF IInv, BarInv, BarOf, CouncilOnlyRaises, Answered
<1>2. IInv => EnforceHolds
  BY DEF IInv, ReviewInv, ReviewOf, MayPass, Reviewed, Clean, Bound, EnforceHolds, Answered
<1>3. IInv => ConsumedWasGranted
  BY DEF IInv, Types, OverrideInv, OverrideOf, Granted, ConsumedWasGranted
<1> QED BY <1>1, <1>2, <1>3, Invariant, PTL DEF CouncilBinds
=============================================================================
