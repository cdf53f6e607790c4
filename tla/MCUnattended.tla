--------------------------- MODULE MCUnattended ---------------------------
(* What a node does with nobody at the keyboard, for TLC: the loops a host *)
(* schedules, the metabolism such a loop runs, and the presence router.    *)
(* They share no file that two of them write, so a behaviour exercises one *)
(* of them while the others rest.                                          *)
EXTENDS Metabolism, Presence, TLC

CONSTANTS
  j1, j2,
  CharterIds, LoopCadences, Shares, Hosts, MaxEntries, MaxEdits, MaxRows

VARIABLES
  part,      \* what this behaviour is about
  charterFile, schedule, halt, switches, tick, ticks, edits

\* Cadence: an interval is a whole number of minutes, hours or days.
ASSUME LoopCadenceAssumption ==
  \A c \in LoopCadences : c.kind = "interval" => c.every \in Int

L == INSTANCE Loops WITH Cadences <- LoopCadences

lVars == <<charterFile, schedule, halt, switches, tick, ticks, edits>>

----------------------------------------------------------------------------
(* The metabolism: the cadence a node is born with, one stage of it enabled *)
(* and left to the host, and one with every worker wired.                   *)

Entry(on, seam, empty) == [enabled |-> on, seam |-> seam, on_empty |-> empty]

Born  == [s \in STAGE_IDS |-> Entry(s = "method", IF s = "method" THEN "command" ELSE "null", "warn")]
Wired == [s \in STAGE_IDS |-> Entry(TRUE, "callable", IF s = "distill" THEN "halt" ELSE "warn")]

MCCadences == {Born, Wired}

Symmetry == Permutations(Jobs)

----------------------------------------------------------------------------
(* The loops and the presence router. *)

Every(n, u)   == [kind |-> "interval", every |-> n, unit |-> u]
MCLoopCadences == {Every(0, "m"), Every(45, "m"), Every(6, "h"),
                  [kind |-> "daily", at |-> 195], [kind |-> "manual"]}
MCChannels    == [dm |-> [class |-> "private", self_ref |-> "node", reaches_reality |-> TRUE],
                  room |-> [class |-> "shared", self_ref |-> "node", reaches_reality |-> FALSE]]
Act(d, a, t, rev) == [domain |-> d, action |-> a, tier |-> t, reversible |-> rev,
                      rollback |-> rev /\ t # 0, reaches_reality |-> d = "files",
                      handler |-> d]
MCIntents     == [read |-> Act("files", "read", 0, TRUE), write |-> Act("files", "write", 1, TRUE),
                  say |-> Act("communication", "send", 0, FALSE)]
Rule(i, w, o, t) == [id |-> i, matcher |-> w, operand |-> o, escalate_to |-> t]
MCRules       == <<Rule("r1", "target_outside_workspace", {}, 3),
                   Rule("r2", "target_contains", {"secret", "away"}, 2),
                   Rule("r3", "action_in", {"send"}, 1)>>


----------------------------------------------------------------------------
\* The metabolism starts on a new node, or on one that has absorbed all there is.
MCInit ==
  /\ part \in {"metabolism", "loops", "presence"}
  /\ absorbed \in {{}, Docs}
  /\ part # "metabolism" => cadence = Born /\ absorbed = {}
  /\ Init /\ L!LoopsInit /\ PresenceInit

MCNext ==
  \/ part = "metabolism" /\ Next         /\ UNCHANGED <<part, lVars, presenceVars>>
  \/ part = "loops"      /\ L!LoopsNext  /\ UNCHANGED <<part, vars, presenceVars>>
  \/ part = "presence"   /\ PresenceNext /\ UNCHANGED <<part, vars, lVars>>

MCSpec == MCInit /\ [][MCNext]_<<part, vars, lVars, presenceVars>>

----------------------------------------------------------------------------
\* The loops: a report that passes vouches for all the host runs, and what cron
\* is given keeps the interval its charter declares (loops/).
HostKeepsCharter == L!PassingHostIsAuthorised /\ L!CronKeepsInterval

\* Nothing runs past its limits unattended: no run of the metabolism past its
\* envelope (metabolism/), no tick over a stop that stood the whole time (loops/).
LimitsHold == SpendWithinEnvelope /\ L!StopsAreHonoured
===========================================================================
