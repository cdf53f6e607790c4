------------------------------- MODULE Loops -------------------------------
(***************************************************************************)
(* intentops_core/loops: the charters that authorise unattended work       *)
(* (charters.py), the artifacts rendered from them for three schedulers    *)
(* (adapters.py), the comparison of the charters with what the host really *)
(* schedules (conformance.py) and the tick (engine.py), one at a time.     *)
(*                                                                         *)
(* The operator edits the charter file and the host's schedule, and        *)
(* creates and removes the stand-down marker and the kill switches, while  *)
(* a tick is between its reads.                                            *)
(*                                                                         *)
(* A text is kept where it is compared: a rendered cadence is the tuple of *)
(* its fields.  The shape of the YAML around the fields below (mapping,    *)
(* undeclared or missing field, wrong type) is the one flag `formed`.      *)
(* Budget shares are in hundredths.                                        *)
(***************************************************************************)
EXTENDS Integers, Sequences, FiniteSets, SequencesExt

CONSTANTS CharterIds,  \* ids a charter or a binding may carry
          Cadences,    \* the cadences the operator writes
          Shares,      \* the budget shares the operator writes
          Hosts,       \* the scheduler kinds this operator uses
          MaxEntries,  \* bound: entries of the charter file and of the schedule
          MaxEdits,    \* bound: edits of the operator
          MaxRows      \* bound: rows of the tick journal

ADAPTER_KINDS == {"cron", "systemd", "windows-task"}
TIER_CEILINGS == {"T0", "T1", "T2"}
Absent        == <<>>     \* no cadence, or a rendering refused

VARIABLES charterFile,  \* the entries of config/loop-charters.yaml
          schedule,     \* the host's bindings, as the export lists them
          halt,         \* .intentops/halt.marker exists
          switches,     \* the charters whose kill switch file exists
          tick,         \* the tick under way
          ticks,        \* .intentops/loops/ticks.jsonl
          edits         \* edits so far

loopsVars == <<charterFile, schedule, halt, switches, tick, ticks, edits>>

IdleTick == [pc |-> "idle"]

LoopsInit ==
    /\ charterFile = <<>> /\ schedule = <<>>
    /\ halt = FALSE /\ switches = {}
    /\ tick = IdleTick /\ ticks = <<>> /\ edits = 0
----------------------------------------------------------------------------
(* Charters                                                                *)

\* Cadence.scheduled.
Scheduled(c) == c.kind # "manual"

\* _parse_cadence: the values, whose shape `formed` stands for.
CadenceParses(c) == c.kind = "interval" => c.every >= 1

\* _parse_entry.
EntryParses(e, birth) ==
    /\ e.formed
    /\ CadenceParses(e.cadence)
    /\ e.tier_ceiling \in TIER_CEILINGS
    /\ ~(birth /\ e.enabled)
    /\ e.budget_share > 0 /\ e.budget_share <= 100
    /\ e.kill_switch = "inside"

EnabledShare(es) ==
    FoldSeq(LAMBDA e, n: IF e.enabled THEN n + e.budget_share ELSE n, 0, es)

\* parse_charters: the file loads as a whole or halts.
ParseCharters(es, birth) ==
    /\ \A i \in DOMAIN es: EntryParses(es[i], birth)
    /\ \A i, j \in DOMAIN es: es[i].id = es[j].id => i = j
    /\ EnabledShare(es) <= 100
----------------------------------------------------------------------------
(* Adapters.  A rendering is the tuple of what its text says; the text of  *)
(* the units around it carries no decision.                                *)

\* Mutant of CronInterval: a minute interval is rendered whether or not it
\* divides the hour.
CronIntervalAny(n, unit) ==
    IF unit = "m" THEN IF n > 60 THEN Absent ELSE <<"*/", n, "*", 1, "*">>
    ELSE IF unit = "h" THEN <<"", 0, "*/", n, "*">> ELSE <<"", 0, "", 0, "*">>

\* _cron_expression, an interval: <<minute, hour, weekday>> fields.
CronInterval(n, unit) ==
    CASE unit = "m" /\ n = 60 -> <<"", 0, "*", 1, "*">>
      [] unit = "m" /\ n < 60 /\ 60 % n = 0 -> <<"*/", n, "*", 1, "*">>
      [] unit = "h" /\ n = 24 -> <<"", 0, "", 0, "*">>
      [] unit = "h" /\ n < 24 /\ 24 % n = 0 -> <<"", 0, "*/", n, "*">>
      [] unit = "d" /\ n = 1 -> <<"", 0, "", 0, "*">>
      [] OTHER -> Absent

\* _cron_expression.
CronExpression(c) ==
    CASE c.kind = "interval" -> CronInterval(c.every, c.unit)
      [] c.kind = "daily"    -> <<"", c.at % 60, "", c.at \div 60, "*">>
      [] c.kind = "weekly"   -> <<"", c.at % 60, "", c.at \div 60, c.weekday>>
      [] OTHER               -> Absent

\* _systemd_schedule.
SystemdSchedule(c) ==
    CASE c.kind = "interval" -> <<"OnUnitActiveSec", c.every, c.unit>>
      [] c.kind = "daily"    -> <<"OnCalendar", c.at>>
      [] c.kind = "weekly"   -> <<"OnCalendar", c.at, c.weekday>>
      [] OTHER               -> Absent

\* _windows_trigger: what it says of a daily or weekly cadence has no time.
WindowsTrigger(c) ==
    CASE c.kind = "interval" /\ c.unit = "d" -> <<"ScheduleByDay", c.every>>
      [] c.kind = "interval" /\ c.unit # "d" -> <<"Repetition", c.every, c.unit>>
      [] c.kind = "daily"  -> <<"ScheduleByDay", 1>>
      [] c.kind = "weekly" -> <<"ScheduleByWeek", c.weekday>>
      [] OTHER -> Absent

\* render: the cadence of the binding, Absent where the adapter refuses.
\* The wrapper is "none", "console" (one of _CONSOLE_ENGINES) or "windowless".
Render(kind, c, wrapper) ==
    CASE kind = "cron"    -> CronExpression(c)
      [] kind = "systemd" -> SystemdSchedule(c)
      [] OTHER -> IF wrapper = "windowless" THEN WindowsTrigger(c) ELSE Absent

\* The scheduler's reading of a cron expression: the minutes of a day it fires.
CronMinutes(x) ==
    LET Fits(mark, n, k) == CASE mark = "" -> k = n [] mark = "*" -> TRUE [] OTHER -> k % n = 0
    IN  {60 * h + m: h \in {k \in 0..23: Fits(x[3], x[4], k)},
                     m \in {k \in 0..59: Fits(x[1], x[2], k)}}
----------------------------------------------------------------------------
(* Conformance                                                             *)

\* FINDING_CODES and POSTURES.
PostureOf(code) ==
    CASE code \in {"OK", "MANUAL-UNBOUND"}       -> "CONFORMANT"
      [] code \in {"PARKED", "BINDING-PARKED"}   -> "ATTENTION"
      [] code = "UNREADABLE"                     -> "DEGRADED"
      [] OTHER                                   -> "DRIFTED"

\* _cadence_finding.
CadenceFinding(c, b, host, wrapper) ==
    CASE Render(host, c.cadence, wrapper) = Absent -> "UNRENDERABLE"
      [] Render(host, c.cadence, wrapper) # Absent
            /\ b.cadence # Absent /\ b.cadence # Render(host, c.cadence, wrapper)
            -> "CADENCE-DRIFT"
      [] OTHER -> "OK"

\* check: what a charter with no binding, and one with a binding, is told.
UnboundFinding(c) ==
    CASE ~Scheduled(c.cadence)      -> "MANUAL-UNBOUND"
      [] Scheduled(c.cadence) /\ c.tagout /\ ~c.enabled -> "PARKED"
      [] OTHER                      -> "ABSENT"

BoundFinding(c, b, host, wrapper) ==
    CASE ~c.enabled /\ b.enabled -> "UNCHARTERED-RUN"
      [] c.enabled /\ ~b.enabled -> IF b.tagout THEN "BINDING-PARKED" ELSE "BINDING-OFF"
      [] OTHER -> IF ~Scheduled(c.cadence) THEN "MANUAL-BOUND"
                  ELSE CadenceFinding(c, b, host, wrapper)

\* check: the bindings of this scheduler, by their places in the export.
ForHost(all, host) == {i \in DOMAIN all: all[i].kind = host}

\* by_id keeps the first binding of an id.
FirstOf(all, places, id) == all[CHOOSE i \in places: all[i].id = id
                            /\ \A j \in places: all[j].id = id => i <= j]

\* Mutant of Orphans: a second binding of one charter is passed over.
OrphansIgnoresTwice(cs, all, places) ==
    {i \in places: all[i].id \notin {cs[j].id: j \in DOMAIN cs}}

\* check: bindings of no charter, and second bindings of one.
Orphans(cs, all, places) ==
    {i \in places: \/ all[i].id \notin {cs[j].id: j \in DOMAIN cs}
                   \/ \E j \in places: j < i /\ all[j].id = all[i].id}

\* check: the codes of the report.
Findings(cs, all, host, wrapper, unreadable) ==
    LET places  == ForHost(all, host)
        Told(c) == IF \E i \in places: all[i].id = c.id
                     THEN BoundFinding(c, FirstOf(all, places, c.id), host, wrapper)
                     ELSE UnboundFinding(c)
    IN  {Told(cs[i]): i \in DOMAIN cs}
          \cup (IF Orphans(cs, all, places) = {} THEN {} ELSE {"ORPHAN"})
          \cup (IF unreadable THEN {"UNREADABLE"} ELSE {})

\* check: the worst posture among the findings.
Posture(codes) ==
    LET Of(p) == \E c \in codes: PostureOf(c) = p
    IN  CASE Of("DEGRADED")  -> "DEGRADED"
          [] ~Of("DEGRADED") /\ Of("DRIFTED") -> "DRIFTED"
          [] ~Of("DEGRADED") /\ ~Of("DRIFTED") /\ Of("ATTENTION") -> "ATTENTION"
          [] OTHER -> "CONFORMANT"

\* parse_bindings, load_bindings: an export loads as a whole or not at all.
ParseBindings(bs, formed) == formed /\ \A i \in DOMAIN bs: bs[i].kind \in ADAPTER_KINDS

\* cli._cmd_check: an unreadable export is compared as an empty one, and said.
CmdCheck(cs, bs, host, wrapper, formed) ==
    LET readable == ParseBindings(bs, formed)
    IN  Posture(Findings(cs, IF readable THEN bs ELSE <<>>, host, wrapper, ~readable))
----------------------------------------------------------------------------
(* The operator: the charter file, the host, the marker, the switches      *)

Edit == edits < MaxEdits /\ edits' = edits + 1

\* The template's entry: born disabled.
Written(id, c) == [id |-> id, cadence |-> c, tier_ceiling |-> "T1", enabled |-> FALSE,
                   budget_share |-> 60, kill_switch |-> "inside", tagout |-> FALSE,
                   formed |-> TRUE]

Fields == {<<"enabled", TRUE>>, <<"enabled", FALSE>>, <<"tagout", TRUE>>,
           <<"tier_ceiling", "T3">>, <<"kill_switch", "climbs">>, <<"formed", FALSE>>}
              \cup {<<"budget_share", s>>: s \in Shares}
              \cup {<<"cadence", c>>: c \in Cadences}

WriteCharter(id, c) ==
    /\ Edit /\ Len(charterFile) < MaxEntries
    /\ charterFile' = Append(charterFile, Written(id, c))
    /\ UNCHANGED <<schedule, halt, switches, tick, ticks>>

EditCharter(i, f) ==
    /\ Edit
    /\ charterFile' = [charterFile EXCEPT ![i][f[1]] = f[2]]
    /\ UNCHANGED <<schedule, halt, switches, tick, ticks>>

\* cli._cmd_render, and the operator installs what it printed: enabled, with
\* the cadence the export of this host lists or leaves out.
Install(i, host, listed) ==
    /\ Edit /\ Len(schedule) < MaxEntries
    /\ ParseCharters(charterFile, FALSE)
    /\ LET cadence == Render(host, charterFile[i].cadence, "windowless")
       IN  /\ cadence # Absent
           /\ schedule' = Append(schedule,
                 [id |-> charterFile[i].id, kind |-> host, enabled |-> TRUE,
                  tagout |-> FALSE, cadence |-> IF listed THEN cadence ELSE Absent])
    /\ UNCHANGED <<charterFile, halt, switches, tick, ticks>>

EditBinding(i, field, value) ==
    /\ Edit
    /\ schedule' = [schedule EXCEPT ![i][field] = value]
    /\ UNCHANGED <<charterFile, halt, switches, tick, ticks>>

\* What is lifted while a tick is under way no longer stops that tick.
StillHeld(what) == IF tick.pc = "idle" THEN tick
                   ELSE [tick EXCEPT !.held = @ \ {what}]

SetHalt(on) ==
    /\ Edit /\ halt # on /\ halt' = on
    /\ tick' = IF on THEN tick ELSE StillHeld("halt")
    /\ UNCHANGED <<charterFile, schedule, switches, ticks>>

SetSwitch(id, on) ==
    /\ Edit /\ (id \in switches) # on
    /\ switches' = IF on THEN switches \cup {id} ELSE switches \ {id}
    /\ tick' = IF ~on /\ tick.pc # "idle" /\ tick.charter.id = id
                 THEN StillHeld("switch") ELSE tick
    /\ UNCHANGED <<charterFile, schedule, halt, ticks>>
----------------------------------------------------------------------------
(* cli._cmd_tick, engine.tick                                              *)

\* load_charters and _one; then _decide reads the marker, then the switch,
\* the rest from the charter in memory.  `held`: what has stopped this charter
\* ever since the tick began.
TickLoad(i, manual) ==
    /\ tick.pc = "idle" /\ Len(ticks) < MaxRows
    /\ ParseCharters(charterFile, FALSE)
    /\ tick' = [pc |-> "marker", charter |-> charterFile[i], manual |-> manual,
                verdict |-> "none",
                held |-> {w \in {"halt", "switch"}:
                            IF w = "halt" THEN halt ELSE charterFile[i].id \in switches}]
    /\ UNCHANGED <<charterFile, schedule, halt, switches, ticks, edits>>

TickMarker ==
    /\ tick.pc = "marker"
    /\ tick' = IF halt THEN [tick EXCEPT !.pc = "append", !.verdict = "REFUSED"]
               ELSE [tick EXCEPT !.pc = "decide"]
    /\ UNCHANGED <<charterFile, schedule, halt, switches, ticks, edits>>

\* Mutant of TickVerdict: the kill switch is not looked at.
TickVerdictNoSwitch(c, manual, switched) ==
    IF ~c.enabled \/ (~Scheduled(c.cadence) /\ ~manual /\ switched \in BOOLEAN)
      THEN "REFUSED" ELSE "DRY-RUN"

\* _decide, after the marker.
TickVerdict(c, manual, switched) ==
    IF switched \/ ~c.enabled \/ (~Scheduled(c.cadence) /\ ~manual)
      THEN "REFUSED" ELSE "DRY-RUN"

TickDecided ==
    /\ tick.pc = "decide"
    /\ tick' = [tick EXCEPT !.pc = "append",
                  !.verdict = TickVerdict(tick.charter, tick.manual, tick.charter.id \in switches)]
    /\ UNCHANGED <<charterFile, schedule, halt, switches, ticks, edits>>

\* TickRecord: the decision about one charter; `held` is what stood against it.
TickRecord(t) == [charter |-> t.charter, held |-> t.held, verdict |-> t.verdict]

\* _append, or the preview of --no-record, which leaves no row.
TickAppend(record) ==
    /\ tick.pc = "append"
    /\ ticks' = IF record THEN Append(ticks, TickRecord(tick)) ELSE ticks
    /\ tick' = IdleTick
    /\ UNCHANGED <<charterFile, schedule, halt, switches, edits>>

LoopsNext ==
    \/ \E id \in CharterIds, c \in Cadences: WriteCharter(id, c)
    \/ \E i \in DOMAIN charterFile, f \in Fields: EditCharter(i, f)
    \/ \E i \in DOMAIN charterFile, h \in Hosts, l \in BOOLEAN: Install(i, h, l)
    \/ \E i \in DOMAIN schedule, v \in BOOLEAN: EditBinding(i, "enabled", v)
    \/ \E i \in DOMAIN schedule: EditBinding(i, "tagout", TRUE)
    \/ \E on \in BOOLEAN: SetHalt(on)
    \/ \E id \in CharterIds, on \in BOOLEAN: SetSwitch(id, on)
    \/ \E i \in DOMAIN charterFile, m \in BOOLEAN: TickLoad(i, m)
    \/ TickMarker \/ TickDecided
    \/ \E r \in BOOLEAN: TickAppend(r)

LoopsSpec == LoopsInit /\ [][LoopsNext]_loopsVars
----------------------------------------------------------------------------
(* Properties                                                              *)

\* A report that passes (exit code 0) vouches for the host: whatever this
\* scheduler runs is a charter that is enabled and has a schedule, is bound
\* once, and, where the export lists its cadence, fires when the charter says;
\* and an unreadable export never passes.
PassingHostIsAuthorised ==
    \A host \in Hosts:
      LET places == ForHost(schedule, host)
          Passes(readable) == CmdCheck(charterFile, schedule, host, "windowless", readable)
                                 \in {"CONFORMANT", "ATTENTION"}
      IN  ParseCharters(charterFile, FALSE) =>
            /\ ~Passes(FALSE)
            /\ Passes(TRUE) => \A i \in places: schedule[i].enabled =>
                 /\ \A j \in places: schedule[j].id = schedule[i].id => j = i
                 /\ \E k \in DOMAIN charterFile:
                      LET c == charterFile[k]
                      IN  /\ c.id = schedule[i].id /\ c.enabled /\ Scheduled(c.cadence)
                          /\ schedule[i].cadence
                               \in {Absent, Render(host, c.cadence, "windowless")}

\* What cron is given keeps the interval the charter declares, over midnight
\* too: the gap between two firings is always the interval.
CronKeepsInterval ==
    \A i \in DOMAIN charterFile:
      LET c    == charterFile[i].cadence
          Size == [m |-> 1, h |-> 60, d |-> 1440]
          x    == CronExpression(c)
      IN  (CadenceParses(c) /\ c.kind = "interval" /\ x # Absent) =>
            LET step == c.every * Size[c.unit]
            IN  1440 % step = 0 /\ CronMinutes(x) = {step * k: k \in 0..(1440 \div step - 1)}

\* A stop that is in force from before a tick reads anything until it is over
\* stops it: no row says DRY-RUN over a marker or a kill switch that stood the
\* whole time, a charter that was disabled, or a share the file could not hold.
StopsAreHonoured ==
    \A n \in DOMAIN ticks: ticks[n].verdict = "DRY-RUN" =>
      /\ ticks[n].held = {}
      /\ ticks[n].charter.enabled
      /\ EntryParses(ticks[n].charter, FALSE)
=============================================================================
