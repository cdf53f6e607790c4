-------------------------------- MODULE Gate --------------------------------
(***************************************************************************)
(* intentops_core/gate: the verdict vocabulary (verdict.py) and the        *)
(* reaches-reality classifier (classify.py).  Pure operators.              *)
(*                                                                         *)
(* An operation is what the patterns see of one tool call:                 *)
(*   tool     file (a FILE_WRITE_TOOL), shell (a SHELL_COMMAND_TOOL), mcp  *)
(*            (a name under mcp__) or other;                               *)
(*   command  the patterns its command field matches (none: no command);   *)
(*   args     the patterns its name and its other fields match.            *)
(* known says that an estate map was loaded, so that the names it declares *)
(* count; with no map RealityIndicators() is empty.                        *)
(***************************************************************************)
EXTENDS Naturals

TIERS     == {"T0", "T1", "T2", "T3", "T4"}
Decisions == {"ALLOW", "ASK", "BLOCK", "HALT"}
Tools     == {"file", "shell", "mcp", "other"}

CommandSigns == {"force_push", "push", "no_verify", "remote_mutation", "owner",
                 "cloud", "orchestrator", "sql_write", "prod_name",
                 "comms", "money_sql", "money_name", "money_move",
                 "recursive_delete", "destructive_sql", "hard_reset",
                 "http_out", "third_party_host"}
ArgSigns     == {"send_verb", "draft_verb", "other_mailbox", "own_mailbox",
                 "other_identity", "own_identity", "secret_path"}

Verdict == [decision: Decisions, tier: TIERS, reaches: BOOLEAN]

_TIER_ORDER == [T0 |-> 0, T1 |-> 1, T2 |-> 2, T3 |-> 3, T4 |-> 4]
_SEVERITY   == [ALLOW |-> 0, ASK |-> 1, BLOCK |-> 2, HALT |-> 3]

is_refusal(v) == v.decision \in {"ASK", "BLOCK", "HALT"}

allow(t)    == [decision |-> "ALLOW", tier |-> t, reaches |-> FALSE]
ask(t, r)   == [decision |-> "ASK", tier |-> t, reaches |-> r]
block(t)    == [decision |-> "BLOCK", tier |-> t, reaches |-> FALSE]
halt        == [decision |-> "HALT", tier |-> "T0", reaches |-> FALSE]

\* The highest tier of a non-empty set.
Highest(ts) == CHOOSE t \in ts : \A u \in ts : _TIER_ORDER[u] <= _TIER_ORDER[t]

\* Several verdicts as one: the strictest decision, the highest tier, and
\* reality reached if any of them reaches it.  Of nothing it raises.
merge(vs) ==
    [decision |-> (CHOOSE v \in vs : \A w \in vs :
                     _SEVERITY[w.decision] <= _SEVERITY[v.decision]).decision,
     tier     |-> Highest({v.tier : v \in vs}),
     reaches  |-> \E v \in vs : v.reaches]
----------------------------------------------------------------------------
(* The six classes.  Each is the tier it assigns, if it has an opinion.    *)

_proven_remote_owner(c, known) == known /\ "owner" \in c

classify_remote_push(c, known) ==
    LET ordinary == IF _proven_remote_owner(c, known) THEN "T2" ELSE "T3"
    IN  IF "force_push" \in c           THEN {"T4"}
        ELSE IF "push" \in c            THEN {ordinary}
        ELSE IF "no_verify" \in c       THEN {"T3"}
        ELSE IF "remote_mutation" \in c THEN {ordinary}
        ELSE {}

classify_prod_change(c, known) ==
    IF \/ c \cap {"cloud", "orchestrator", "sql_write"} # {}
       \/ known /\ "prod_name" \in c
    THEN {"T3"} ELSE {}

\* A transmission verb wins even beside "draft".  Under mcp__ the command
\* field is not read for mail programs.
classify_outbound_comms(op) ==
    IF IF op.tool = "mcp" THEN "send_verb" \in op.args
                          ELSE "comms" \in op.command
    THEN {"T3"} ELSE {}

classify_money(c, known) ==
    IF "money_sql" \in c \/ (known /\ "money_name" \in c) THEN {"T4"}
    ELSE IF "money_move" \in c THEN {"T3"}
    ELSE {}

classify_irreversible_delete(c) ==
    IF c \cap {"recursive_delete", "destructive_sql"} # {} THEN {"T4"}
    ELSE IF "hard_reset" \in c THEN {"T3"}
    ELSE {}

\* Another person's mailbox read inward, or content sent outward.  With no
\* map the operator has no declared identity, so every named mailbox counts.
classify_third_party_disclosure(op, known) ==
    IF \/ "other_mailbox" \in op.args
       \/ "own_mailbox" \in op.args /\ ~known
       \/ op.tool = "mcp" /\ "other_identity" \in op.args
       \/ op.tool = "mcp" /\ "own_identity" \in op.args /\ ~known
       \/ "http_out" \in op.command
       \/ "third_party_host" \in op.command /\ known
    THEN {"T3"} ELSE {}

SecretPath(op) ==
    IF op.tool = "file" /\ "secret_path" \in op.args THEN {"T4"} ELSE {}

\* The aggregator: every class reads the call, the highest tier wins.  The
\* empty set is None, no opinion.
classify_reaches_reality(op, known) ==
    LET hits == classify_outbound_comms(op)
                  \cup classify_third_party_disclosure(op, known)
                  \cup classify_money(op.command, known)
                  \cup classify_irreversible_delete(op.command)
                  \cup classify_remote_push(op.command, known)
                  \cup classify_prod_change(op.command, known)
                  \cup SecretPath(op)
    IN  IF hits = {} THEN {} ELSE {Highest(hits)}

verdict_for(op, known) ==
    LET hit == classify_reaches_reality(op, known)
    IN  IF hit = {} THEN allow("T0")
        ELSE IF hit \subseteq {"T3", "T4"} THEN ask(Highest(hit), TRUE)
        ELSE allow(Highest(hit))
=============================================================================
