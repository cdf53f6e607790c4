------------------------------ MODULE Presence ------------------------------
(***************************************************************************)
(* intentops_core/presence: a message arrives on a channel (channels.py),  *)
(* the operator rule says whether its speaker may be answered              *)
(* (operator_rule.py), the router finds its intent in the taxonomy         *)
(* (intents.py), raises its tier and holds it to the channel's ceiling     *)
(* (router.py), and one row is appended to the journal (journal.py).       *)
(*                                                                         *)
(* The taxonomy is a constant: load_taxonomy runs once per process, before *)
(* the first message, and TaxonomyHolds is what it refuses.  The operator  *)
(* edits the operator record at any time; a process keeps the binding it   *)
(* loaded.  A text is the set of intents whose keywords occur in it.       *)
(* Tiers T0..T4 are 0..4.                                                  *)
(***************************************************************************)
EXTENDS Naturals, Sequences, FiniteSets, FiniteSetsExt, SequencesExt

CONSTANTS Channels,    \* channel id -> [class, self_ref, reaches_reality]
          Speakers,    \* speaker refs, the node's own among them
          Intents,     \* intent id -> [domain, action, tier, reversible, rollback,
                       \*               reaches_reality, handler]
          Rules,       \* the escalation rules, in file order
          Targets,     \* a message's targets; NoTarget for the empty one
          NoTarget,
          NoIntent,    \* no declared intent, no proposal
          Outside,     \* the targets that resolve outside the workspace
          MaxTurns,    \* bound: rows of the journal
          MaxRecordEdits \* bound: edits of the operator record

CHANNEL_CLASSES == {"private", "shared", "unknown"}
Tiers           == 0..4
UNCLASSIFIED    == "unclassified"
Nothing         == <<>>

\* load_taxonomy: the refusals that depend on what an action declares.
IntentHolds(a) ==
    /\ a.tier \in Tiers
    /\ a.reversible /\ a.tier # 0 => a.rollback
    /\ ~a.reversible => ~a.rollback
    /\ a.handler # ""

\* load_taxonomy: a rule has one declared matcher, and raises.
RuleHolds(r) ==
    /\ r.matcher \in {"target_contains", "action_in", "target_outside_workspace"}
    /\ r.escalate_to \in Tiers \ {0}
    /\ r.matcher # "target_outside_workspace" => r.operand # {}

TaxonomyHolds ==
    /\ \A i \in DOMAIN Intents: IntentHolds(Intents[i])
    /\ \A r \in DOMAIN Rules: RuleHolds(Rules[r])
    /\ \A q, r \in DOMAIN Rules: Rules[q].id = Rules[r].id => q = r

ASSUME PresenceAssumption ==
    /\ Rules \in Seq({Rules[r] : r \in DOMAIN Rules})
    /\ \A c \in DOMAIN Channels: Channels[c].class \in CHANNEL_CLASSES
    /\ TaxonomyHolds

VARIABLES record,    \* identity/operator/operator.yaml: Nothing, or the refs by channel
          binding,   \* the binding the process loaded: Nothing, or the refs by channel
          inbox,     \* the message polled, or Nothing
          decided,   \* the route decided for it, or Nothing
          turns,     \* .intentops/presence/interactions.jsonl
          recordEdits

presenceVars == <<record, binding, inbox, decided, turns, recordEdits>>

PresenceInit ==
    /\ record = Nothing /\ binding = Nothing /\ inbox = Nothing /\ decided = Nothing
    /\ turns = <<>> /\ recordEdits = 0
----------------------------------------------------------------------------
(* The operator record                                                     *)

EditRecord(c, refs) ==
    /\ recordEdits < MaxRecordEdits /\ recordEdits' = recordEdits + 1
    /\ record' = [d \in DOMAIN Channels |->
                    IF d = c THEN refs
                    ELSE IF record = Nothing THEN {} ELSE record[d]]
    /\ UNCHANGED <<binding, inbox, decided, turns>>

\* load_operator_binding: without a record it halts, and nothing is routed.
LoadBinding ==
    /\ binding = Nothing /\ record # Nothing
    /\ binding' = record
    /\ UNCHANGED <<record, inbox, decided, turns, recordEdits>>

\* The process ends: between messages, or with a message it decided on and had
\* not written.
Restart ==
    /\ binding # Nothing
    /\ binding' = Nothing /\ inbox' = Nothing /\ decided' = Nothing
    /\ UNCHANGED <<record, turns, recordEdits>>

\* decide: the node does not answer itself, and answers the operator only.
Decide(known, channel, speaker) ==
    CASE speaker = Channels[channel].self_ref -> "IGNORE"
      [] speaker # Channels[channel].self_ref /\ speaker \in known[channel] -> "ANSWER"
      [] OTHER -> "SURFACE_TO_OPERATOR"
----------------------------------------------------------------------------
(* The router                                                              *)

\* _CEILING_BY_CLASS.
Ceiling(channel) == IF Channels[channel].class = "private" THEN 2 ELSE 0

\* _inside_workspace: no target is inside.
InsideWorkspace(target) == target \notin Outside

\* EscalationRule.applies.
Applies(r, intent, target) ==
    CASE r.matcher = "target_contains" -> target \in r.operand
      [] r.matcher = "action_in"       -> intent.action \in r.operand
      [] OTHER                         -> ~InsideWorkspace(target)

\* Mutant of Escalated: the last rule that applies sets the tier.
EscalatedByLast(intent, target) ==
    FoldLeft(LAMBDA t, r: IF Applies(r, intent, target) THEN r.escalate_to ELSE t,
             intent.tier, Rules)

\* route: the rules in file order, each raising and none lowering (tier_max).
Escalated(intent, target) ==
    FoldLeft(LAMBDA t, r: IF Applies(r, intent, target) THEN Max({t, r.escalate_to}) ELSE t,
             intent.tier, Rules)

\* The early returns: nothing is classified, or more than one thing is.
Unrouted(handler, tier, operator, reaches) ==
    [intent |-> UNCLASSIFIED, tier |-> tier, handler |-> handler,
     reaches_reality |-> reaches, permitted |-> TRUE, operator |-> operator]

\* The intent of a message: declared, else matched alone, else proposed by the
\* classifier; NoIntent where none of them names one of the taxonomy.
IntentOf(msg) ==
    CASE msg.declared \in DOMAIN Intents -> msg.declared
      [] msg.declared \notin DOMAIN Intents /\ Cardinality(msg.matched) = 1
            -> CHOOSE i \in msg.matched: TRUE
      [] msg.declared \notin DOMAIN Intents /\ msg.matched = {} /\ msg.proposed \in DOMAIN Intents
            -> msg.proposed
      [] OTHER -> NoIntent

\* route, a message whose intent is known.
Routed(i, msg) ==
    LET spec == Intents[i]
        tier == Escalated(spec, msg.target)
        ch   == Channels[msg.channel]
        permitted == tier <= Ceiling(msg.channel)
    IN  [intent |-> i, tier |-> tier, permitted |-> permitted, operator |-> TRUE,
         reaches_reality |-> spec.reaches_reality
                               \/ (ch.reaches_reality /\ spec.domain = "communication"),
         handler |-> IF permitted THEN spec.handler ELSE "surface_to_operator"]

\* route.
Route(known, msg) ==
    LET verdict   == Decide(known, msg.channel, msg.speaker)
        ambiguous == msg.declared \notin DOMAIN Intents /\ Cardinality(msg.matched) > 1
    IN  CASE verdict = "IGNORE" -> Unrouted("ignore", 0, FALSE, FALSE)
          [] verdict = "SURFACE_TO_OPERATOR" ->
               Unrouted("surface_to_operator", Ceiling(msg.channel), FALSE, FALSE)
          [] verdict = "ANSWER" /\ ambiguous ->
               Unrouted("disambiguate", Max({Intents[i].tier: i \in msg.matched}), TRUE,
                        \E i \in msg.matched: Intents[i].reaches_reality)
          [] OTHER -> IF IntentOf(msg) = NoIntent
                        THEN Unrouted("surface_to_operator", Ceiling(msg.channel), TRUE, FALSE)
                        ELSE Routed(IntentOf(msg), msg)

\* Route.disposition and Route.decision.
Disposition(r) ==
    CASE r.handler = "ignore" -> "ignored"
      [] r.handler # "ignore" /\ ~r.permitted -> "queued_for_approval"
      [] r.handler \in {"surface_to_operator", "disambiguate"} /\ r.permitted -> "surfaced"
      [] OTHER -> "answered"

RouteDecision(r) ==
    IF \/ r.handler = "ignore"
       \/ /\ r.permitted /\ r.intent # UNCLASSIFIED
          /\ r.handler \notin {"surface_to_operator", "disambiguate"}
      THEN "ALLOW" ELSE "ASK"
----------------------------------------------------------------------------
(* One message at a time: polled, decided, written                         *)

Messages == [channel: DOMAIN Channels, speaker: Speakers, declared: DOMAIN Intents \cup {NoIntent},
             matched: {s \in SUBSET DOMAIN Intents: Cardinality(s) <= 2},
             proposed: DOMAIN Intents \cup {NoIntent}, target: Targets \cup {NoTarget}]

\* ChannelAdapter.poll: the adapter hands over what arrived.
Poll ==
    /\ binding # Nothing /\ inbox = Nothing /\ Len(turns) < MaxTurns
    /\ inbox' \in Messages
    /\ UNCHANGED <<record, binding, decided, turns, recordEdits>>

\* route_inbound: decide, then record.
RouteInbound ==
    /\ inbox # Nothing /\ decided = Nothing
    /\ decided' = Route(binding, inbox)
    /\ UNCHANGED <<record, binding, inbox, turns, recordEdits>>

\* InteractionRecord: the message, what was decided of it and how; `known` is
\* the binding the decision was made from.
InteractionRecord(msg, route) ==
    [msg |-> msg, route |-> route, known |-> binding,
     disposition |-> Disposition(route), decision |-> RouteDecision(route)]

\* InteractionJournal.record: one row, under the lock.
RecordTurn ==
    /\ decided # Nothing
    /\ turns' = Append(turns, InteractionRecord(inbox, decided))
    /\ inbox' = Nothing /\ decided' = Nothing
    /\ UNCHANGED <<record, binding, recordEdits>>

PresenceNext ==
    \/ \E c \in DOMAIN Channels, refs \in SUBSET Speakers: EditRecord(c, refs)
    \/ LoadBinding \/ Restart
    \/ Poll \/ RouteInbound \/ RecordTurn

PresenceSpec == PresenceInit /\ [][PresenceNext]_presenceVars
----------------------------------------------------------------------------
(* Properties                                                              *)

\* The state of a journal (journal.state): the breaches it counts.
InvariantBreaches ==
    {n \in DOMAIN turns: turns[n].disposition = "answered" /\ ~turns[n].route.operator}

\* Whatever is answered, the journal's own breach count is zero, the speaker is
\* one the record named for that very channel, and the tier, after every rule
\* that applies to it, is within the channel's ceiling: a message is never
\* answered at a lower tier than one of its rules demands.
AnsweredWithinCeiling ==
    /\ InvariantBreaches = {}
    /\ \A n \in DOMAIN turns: turns[n].disposition = "answered" =>
         LET msg == turns[n].msg
         IN  /\ msg.speaker \in turns[n].known[msg.channel]
             /\ turns[n].route.intent \in DOMAIN Intents
             /\ Intents[turns[n].route.intent].tier <= Ceiling(msg.channel)
             /\ \A r \in DOMAIN Rules:
                  Applies(Rules[r], Intents[turns[n].route.intent], msg.target)
                     => Rules[r].escalate_to <= Ceiling(msg.channel)
=============================================================================
