------------------------------ MODULE Beliefs ------------------------------
(***************************************************************************)
(* intentops_core/validation: is what the node believes still true, and    *)
(* did anyone answer when it was not?  belief_carriers.py binds the        *)
(* population, still_true.py reads it and asks, responsiveness.py compares *)
(* the questions asked with the ordering journal's events, and witness.py  *)
(* keeps the register of heal-claims.  The rulings are Ordering's; every   *)
(* operation on them is repeated here with the journal rows it appends,    *)
(* which the readers of this module read raw, not folded.                  *)
(***************************************************************************)
EXTENDS Ordering, Sequences, SequencesExt, FiniteSets, FiniteSetsExt

CONSTANTS Subjects,         \* files a belief may rest on
          NodeLocal,        \* those under .intentops/
          Elsewhere,        \* for a bare file name: how many tracked paths carry it
          Templates,        \* belief-carrier templates a repository may ship
          Configs,          \* still-true carrier configurations a node may have
          Witnesses,        \* heal-claims
          DECAY_TOLERANCE,  \* questions above the low-water mark before it is decay
          FALL_TOLERANCE,   \* points below the high-water mark before it is a fall
          MAX_IDS,          \* question ids a ledger row keeps
          MaxDay,           \* bound: days that pass
          MaxReadings       \* bound: readings of each instrument

\* A YAML list, whatever its items.
IsList(s) == s \in Seq(Range(s))

ASSUME BeliefsAssumption ==
    /\ {DECAY_TOLERANCE, FALL_TOLERANCE, MAX_IDS, MaxDay, MaxReadings} \subseteq Nat
    /\ NodeLocal \subseteq Subjects /\ DOMAIN Elsewhere \subseteq Subjects
    /\ IsFiniteSet(Rulings)
    /\ \A t \in Templates : IsList(t.sources)
    /\ \A c \in Configs : IsList(c.carriers)

QUESTION_KINDS == {"UNDATED", "EVIDENCE-MOVED", "SUBJECT-GONE", "CONFLICT"}
BASES          == {"node", "identity-repo", "repo"}

\* The kinds of carrier and the falsifiers the instrument can evaluate for each.
EVALUABLE_FALSIFIERS ==
    [ruling |-> QUESTION_KINDS, anchor |-> QUESTION_KINDS \ {"CONFLICT"},
     briefing |-> QUESTION_KINDS \ {"CONFLICT"},
     memory_topic |-> {"SUBJECT-GONE", "UNDATED"}]
KINDS == DOMAIN EVALUABLE_FALSIFIERS

ANSWER_EVENTS == {"supersede", "reaffirm"}

VARIABLES day,         \* today, from 1
          files,       \* files[f]: on disk, known to git, day of its last commit (0: never)
          journal,     \* the rows of orderings.jsonl
          binding,     \* .intentops/config/belief-carriers.yaml: <<>> or <<template>>
          documents,   \* documents[source id]: its stamp (0: none) and what it names
          inflight,    \* readings taken and not yet appended
          ledger,      \* .intentops/still-true/ledger.jsonl
          answers,     \* .intentops/responsiveness/ledger.jsonl
          register     \* the rows of the witness register

beliefVars == <<orderingVars, day, files, journal, binding, documents, inflight,
                ledger, answers, register>>
worldVars  == <<day, files, documents>>
readerVars == <<binding, inflight, ledger, answers, register>>

CarrierIds == (UNION {{s.id : s \in Range(t.sources)} : t \in Templates})
              \cup (UNION {{s.id : s \in Range(c.carriers)} : c \in Configs})

BeliefsInit ==
    /\ OrderingInit
    /\ day = 1
    /\ files = [f \in Subjects |-> [present |-> TRUE, tracked |-> f \notin NodeLocal, commit |-> 0]]
    /\ journal = <<>>
    /\ binding = <<>>
    /\ documents = [d \in CarrierIds |-> [as_of |-> 1, names |-> {}]]
    /\ inflight = {}
    /\ ledger = <<>>
    /\ answers = <<>>
    /\ register = <<>>
----------------------------------------------------------------------------
(* The rulings, with the journal rows they leave (wisdom/ordering.py)      *)

Row(e, i)  == [event |-> e, id |-> i, at |-> day, date |-> 0, evidence |-> {}]
Write(rows) == journal' = journal \o rows /\ UNCHANGED <<worldVars, readerVars>>

RuleOn(i, pred, match, old, dated, evidence) ==
    /\ rule(i, pred, match, old)
    /\ Write(<<[Row("rule", i) EXCEPT !.date = IF dated THEN day ELSE 0,
                                      !.evidence = evidence]>>
             \o IF old = NoRuling THEN <<>> ELSE <<Row("supersede", old)>>)

CompileOn(i, pred, match) ==
    compile_predicate(i, pred, match) /\ Write(<<Row("compile", i)>>)

ReopenOn(i) == reopen(i) /\ Write(<<Row("reopen", i)>>)

ReaffirmOn(i) ==
    \/ ReaffirmLoad(i) /\ Write(<<>>)
    \/ ReaffirmAppend(i) /\ Write(<<Row("reaffirm", i)>>)

\* OrderingState.conflicts: active rulings whose predicates share a fact and
\* that order differently.  Two ids are two statements, hence two orderings.
Conflicts(rs) ==
    {c \in kSubset(2, Rulings) : \E i, j \in c : i # j /\ \E r \in rs[i], q \in rs[j] :
        /\ r.status = "active" /\ q.status = "active"
        /\ r.predicate \cap q.predicate # {}}
----------------------------------------------------------------------------
(* The world                                                               *)

DayPasses == /\ day < MaxDay /\ day' = day + 1
             /\ UNCHANGED <<orderingVars, files, documents, journal, readerVars>>

\* A commit touches a tracked file, or a file is deleted and not yet committed.
FileMoves(f) ==
    /\ \/ files[f].tracked /\ files' = [files EXCEPT ![f].commit = day, ![f].present = TRUE]
       \/ files[f].present /\ files' = [files EXCEPT ![f].present = FALSE]
    /\ UNCHANGED <<orderingVars, day, documents, journal, readerVars>>

\* Someone rewrites a carrier: with or without a stamp, naming some files.
EditDocument(d, stamp, names) ==
    /\ documents' = [documents EXCEPT ![d] = [as_of |-> stamp, names |-> names]]
    /\ UNCHANGED <<orderingVars, day, files, journal, readerVars>>
----------------------------------------------------------------------------
(* belief_carriers.py: the bound population                                *)

SourceHolds(t, s) ==
    /\ s.kind \in t.kinds /\ s.base \in BASES /\ s.vc \in {"git", "none"}
    /\ s.falsifiers # {} /\ s.falsifiers \subseteq EVALUABLE_FALSIFIERS[s.kind]
    /\ "EVIDENCE-MOVED" \in s.falsifiers => s.vc = "git"

\* load_binding: what it takes for a specification to be accepted whole.
BindingHolds(t) ==
    /\ t.schema /\ t.extractors
    /\ t.kinds # {} /\ t.kinds \subseteq KINDS
    /\ t.sources # <<>> /\ IsInjective([k \in DOMAIN t.sources |-> t.sources[k].id])
    /\ \A s \in Range(t.sources) : SourceHolds(t, s)

\* bind_template: the loader first, then one locked write.
BindTemplate(t) ==
    /\ BindingHolds(t)
    /\ binding' = <<t>>
    /\ UNCHANGED <<orderingVars, worldVars, journal, inflight, ledger, answers, register>>
----------------------------------------------------------------------------
(* still_true.py: beliefs, questions, posture                              *)

\* _classify_subject: where a named file stands for a source read under vc.
Classify(f, vc) ==
    CASE files[f].present -> IF vc = "git" /\ files[f].tracked THEN "watchable" ELSE "unwatchable"
      [] ~files[f].present /\ f \in NodeLocal -> "unwatchable"
      [] ~files[f].present /\ f \notin NodeLocal ->
            IF vc = "none" \/ f \notin DOMAIN Elsewhere \/ Elsewhere[f] = 0 THEN "missing"
            ELSE IF Elsewhere[f] = 1 THEN "watchable" ELSE "unwatchable"

Belief(id, as_of, names, vc) ==
    [id |-> id, as_of |-> as_of,
     subjects |-> {f \in names : Classify(f, vc) = "watchable"},
     missing |-> {f \in names : Classify(f, vc) = "missing"}]

\* read_records: every row with an id and no standing other than active is a
\* belief, the amendments too, which have no date.
ReadRecords(vc) ==
    [k \in DOMAIN journal |-> Belief(journal[k].id, journal[k].date, journal[k].evidence, vc)]

\* read_carrier.  A document is one belief, stamped or not; of the sections of
\* an anchor only the stamped are beliefs.
ReadCarrier(s) ==
    LET d == documents[s.id]
    IN  IF s.kind = "anchor" /\ d.as_of = 0 THEN <<>>
        ELSE <<Belief(s.id, d.as_of, d.names, s.vc)>>

\* read_memory_topics: a file of the directory is a belief, dated by its name.
ReadMemoryTopics(s) == <<Belief(s.id, documents[s.id].as_of, documents[s.id].names, s.vc)>>

ReadSource(s) == CASE s.kind = "ruling" -> ReadRecords(s.vc)
                   [] s.kind = "memory_topic" -> ReadMemoryTopics(s)
                   [] s.kind \in {"anchor", "briefing"} -> ReadCarrier(s)

\* evaluate, one belief: git's dates answer unless git failed.
QuestionsOf(b, git) ==
    LET ask(kind) == <<[kind |-> kind, about |-> {b.id}]>>
    IN  IF b.as_of = 0 THEN ask("UNDATED")
        ELSE (IF b.missing # {} THEN ask("SUBJECT-GONE") ELSE <<>>)
             \o (IF git /\ \E f \in b.subjects : files[f].commit > b.as_of
                 THEN ask("EVIDENCE-MOVED") ELSE <<>>)

\* take_bound_reading with the roots that were given; every source that is not
\* read is named, and so is a git that fails.
TakeReading(sources, roots, broken, git) ==
    LET read(s)   == s.base \in roots /\ s.id \notin broken
        beliefs   == FlattenSeq([k \in DOMAIN sources |->
                        IF read(sources[k]) THEN ReadSource(sources[k]) ELSE <<>>])
        conflicts == IF \E s \in Range(sources) : "CONFLICT" \in s.falsifiers
                     THEN SetToSeq(Conflicts(records)) ELSE <<>>
        asks      == FlattenSeq([k \in DOMAIN beliefs |-> QuestionsOf(beliefs[k], git)])
                     \o [k \in DOMAIN conflicts |-> [kind |-> "CONFLICT", about |-> conflicts[k]]]
    IN  [unreadable |-> (\E s \in Range(sources) : ~read(s))
                        \/ (~git /\ \E k \in DOMAIN beliefs : beliefs[k].subjects # {}),
         over |-> Range(sources), open |-> Len(asks),
         ids  |-> Range(SubSeq(asks, 1, IF Len(asks) < MAX_IDS THEN Len(asks) ELSE MAX_IDS))]

\* load_history, and the readings of it that posture compares with: a line
\* that does not parse is known to be there, and says nothing.
CleanReadings(h) == {k \in DOMAIN h : ~h[k].corrupt /\ h[k].verdict # "DEGRADED"}

\* Mutant of Posture: the last clean reading is the mark, not the lowest.
PostureByLast(r, h) ==
    LET clean == CleanReadings(h)
    IN  IF r.unreadable \/ (clean = {} /\ \E k \in DOMAIN h : h[k].corrupt) THEN "DEGRADED"
        ELSE IF clean # {} /\ r.open > h[Max(clean)].open + DECAY_TOLERANCE THEN "DECAYING"
        ELSE IF r.open > 0 THEN "ATTENTION" ELSE "CURRENT"

\* Mutant of Posture: a source that was not read is passed over.
PostureOptimist(r, h) ==
    IF r.open > 0 THEN "ATTENTION" ELSE "CURRENT"

\* posture: the reading against every earlier clean one.
Posture(r, h) ==
    LET clean == CleanReadings(h)
    IN  IF r.unreadable \/ (clean = {} /\ \E k \in DOMAIN h : h[k].corrupt) THEN "DEGRADED"
        ELSE IF clean # {} /\ r.open > Min({h[k].open : k \in clean}) + DECAY_TOLERANCE
             THEN "DECAYING"
        ELSE IF r.open > 0 THEN "ATTENTION" ELSE "CURRENT"

\* The reading's verdict on the history as it is now; over and seen, the
\* sources and the length of that history, are for the properties.
Hold(r) ==
    /\ Len(ledger) + Cardinality(inflight) < MaxReadings
    /\ inflight' = inflight \cup
           {[corrupt |-> FALSE, as_of |-> day, verdict |-> Posture(r, ledger),
             over |-> r.over, open |-> r.open, ids |-> r.ids, seen |-> Len(ledger)]}
    /\ UNCHANGED <<orderingVars, worldVars, journal, binding, ledger, answers, register>>

\* The birth check's reading of the bound population.
ReadBeliefs(roots, broken, git) ==
    /\ binding # <<>> /\ "node" \in roots
    /\ Hold(TakeReading(binding[1].sources, roots, broken, git))

\* load_carrier_specs: a configuration is taken whole or refused.
CarrierSpecsHold(c) == c.schema /\ \A k \in DOMAIN c.carriers : c.carriers[k].kind \in {"anchor", "briefing"}

\* take_reading from the command line: the ordering journal and the configured
\* documents, without conflicts; a refused configuration is unreadable.
ReadConfigured(c, broken, git) ==
    LET rulings == [id |-> "orderings", kind |-> "ruling", base |-> "node", vc |-> "git",
                    falsifiers |-> {}]
        r == TakeReading(<<rulings>> \o IF CarrierSpecsHold(c) THEN c.carriers ELSE <<>>,
                         BASES, broken, git)
    IN  Hold([r EXCEPT !.unreadable = @ \/ ~CarrierSpecsHold(c)])

\* append_reading: under the lock, whatever was appended in the meantime.  A
\* process that dies in the write leaves a line nobody can parse.
AppendReading(r, torn) ==
    /\ r \in inflight
    /\ ledger' = Append(ledger, IF torn THEN [r EXCEPT !.corrupt = TRUE, !.ids = {}] ELSE r)
    /\ inflight' = inflight \ {r}
    /\ UNCHANGED <<orderingVars, worldVars, journal, binding, answers, register>>
----------------------------------------------------------------------------
(* responsiveness.py: were the questions answered?                         *)

\* read_runs: the rows of the still-true ledger that parse.
Runs == {k \in DOMAIN ledger : ~ledger[k].corrupt}

\* The journal's rows about what a question asks, from the day it was first
\* asked.  A conflict is about a pair, which no row is about.
EventsFor(q, first) ==
    {n \in DOMAIN journal : /\ {journal[n].id} = q.about /\ journal[n].at >= first
                            /\ journal[n].event \in ANSWER_EVENTS \cup {"reopen"}}

\* Mutant of QuestionState: an event of any day answers.
QuestionStateAnyDay(q) ==
    LET rows == EventsFor(q, 0)
    IN  IF \A k \in DOMAIN journal : ~(journal[k].event = "rule" /\ journal[k].id \in q.about)
        THEN "no_channel"
        ELSE IF \E n \in rows : journal[n].event \in ANSWER_EVENTS THEN "answered"
        ELSE IF rows # {} THEN "reopened"
        ELSE IF q \in ledger[Max(Runs)].ids THEN "open" ELSE "silent_close"

\* QuestionRecord.state and _is_ruling_id: a channel exists when a ruling, or
\* half of a pair, is known; the first answer wins, a reopen without one is a
\* re-ask under way.
QuestionState(q) ==
    LET first == ledger[Min({k \in Runs : q \in ledger[k].ids})].as_of
        rows  == EventsFor(q, first)
        ruled == \E k \in DOMAIN journal : journal[k].event = "rule" /\ journal[k].id \in q.about
    IN  IF EventsFor(q, 0) = {} /\ ~ruled THEN "no_channel"
        ELSE IF \E n \in rows : journal[n].event \in ANSWER_EVENTS THEN "answered"
        ELSE IF rows # {} THEN "reopened"
        ELSE IF q \in ledger[Max(Runs)].ids THEN "open" ELSE "silent_close"

Raised == UNION {ledger[k].ids : k \in Runs}

\* Reading.responsiveness, in points; -1 when no question has a channel.
Responsiveness(answered, channelled) ==
    IF channelled > 0 THEN (100 * answered) \div channelled ELSE -1

\* The shares its own ledger holds, failed readings' too.
Marks(h) == {h[k].pct : k \in DOMAIN h} \ {-1}

\* responsiveness.posture: the share of the questions with a channel that were
\* answered, against the best share so far.
AnswerPosture(unreadable, h) ==
    LET of(state) == {q \in Raised : QuestionState(q) = state}
        chan == Cardinality(Raised) - Cardinality(of("no_channel"))
        rate == Responsiveness(Cardinality(of("answered")), chan)
    IN  [pct |-> rate,
         verdict |-> IF unreadable THEN "DEGRADED"
                     ELSE IF chan = 0 THEN "NOT-YET-ARMED"
                     ELSE IF of("silent_close") # {}
                             \/ rate + FALL_TOLERANCE < Max({rate} \cup Marks(h))
                     THEN "ATTENTION" ELSE "HEALTHY"]

\* take_reading, posture and append_reading of responsiveness.py.  The still-
\* true ledger and the journal only grow, so reading them at two moments is
\* reading an older ledger; a missing or torn one is unreadable.
ReadAnswers ==
    /\ Len(answers) < MaxReadings
    /\ LET unreadable == ledger = <<>> \/ journal = <<>> \/ Runs # DOMAIN ledger
           p == IF Runs = {}
                THEN [pct |-> -1, verdict |-> IF unreadable THEN "DEGRADED" ELSE "NOT-YET-ARMED"]
                ELSE AnswerPosture(unreadable, answers)
       IN  answers' = Append(answers, [pct |-> p.pct, verdict |-> p.verdict,
                                       runs |-> Len(ledger), rows |-> Len(journal)])
    /\ UNCHANGED <<orderingVars, worldVars, journal, binding, inflight, ledger, register>>
----------------------------------------------------------------------------
(* witness.py: the register, read, checked and appended under one lock     *)

\* load, for one claim: its registration, and then the last answer to it.
Standing(w) ==
    LET rows == {k \in DOMAIN register : register[k].claim = w}
    IN  IF rows = {} THEN "none" ELSE register[Max(rows)].says

AppendChecked(w, says) ==
    /\ register' = Append(register, [claim |-> w, says |-> says])
    /\ UNCHANGED <<orderingVars, worldVars, journal, binding, inflight, ledger, answers>>

RegisterClaim(w) == Standing(w) = "none" /\ AppendChecked(w, "OPEN-UNVERIFIED")

\* Mutant of AnswerClaim: whoever asks, the claim is answered.
AnswerClaimAgain(w, held) ==
    /\ Standing(w) # "none" /\ Len(register) < 3
    /\ AppendChecked(w, IF held THEN "ANSWERED-TRUE" ELSE "ANSWERED-FALSE")

AnswerClaim(w, held) ==
    /\ Standing(w) = "OPEN-UNVERIFIED"
    /\ AppendChecked(w, IF held THEN "ANSWERED-TRUE" ELSE "ANSWERED-FALSE")
----------------------------------------------------------------------------
BeliefsNext ==
    \/ \E i \in Rulings, pred \in Predicates, match \in ON_MATCH, old \in Rulings \cup {NoRuling},
          dated \in BOOLEAN, evidence \in SUBSET Subjects : RuleOn(i, pred, match, old, dated, evidence)
    \/ \E i \in Rulings, pred \in Predicates, match \in ON_MATCH : CompileOn(i, pred, match)
    \/ \E i \in Rulings : ReopenOn(i) \/ ReaffirmOn(i)
    \/ DayPasses
    \/ \E f \in Subjects : FileMoves(f)
    \/ \E d \in CarrierIds, stamp \in {0, day}, names \in SUBSET Subjects : EditDocument(d, stamp, names)
    \/ \E t \in Templates : BindTemplate(t)
    \/ \E roots \in SUBSET BASES, broken \in SUBSET CarrierIds, git \in BOOLEAN :
          ReadBeliefs(roots, broken, git)
    \/ \E c \in Configs, broken \in SUBSET (CarrierIds \cup {"orderings"}), git \in BOOLEAN :
          ReadConfigured(c, broken, git)
    \/ \E r \in inflight, torn \in BOOLEAN : AppendReading(r, torn)
    \/ ReadAnswers
    \/ \E w \in Witnesses : RegisterClaim(w) \/ \E held \in BOOLEAN : AnswerClaim(w, held)

BeliefsSpec == BeliefsInit /\ [][BeliefsNext]_beliefVars
----------------------------------------------------------------------------
(* Properties                                                              *)

\* A question about a ruling that leaves the readings unanswered is seen: when
\* responsiveness.py says HEALTHY, every question it read that the latest
\* still-true reading no longer asks has an event about its ruling, from the
\* day it was first asked.
SilenceIsSeen ==
    \A a \in Range(answers) : a.verdict = "HEALTHY" =>
        LET runs == {k \in 1..a.runs : ~ledger[k].corrupt}
        IN  \A k \in runs : \A q \in ledger[k].ids \ ledger[Max(runs)].ids :
               (\E n \in 1..a.rows : journal[n].event = "rule" /\ journal[n].id \in q.about)
               => \E n \in 1..a.rows : /\ journal[n].id \in q.about
                                       /\ journal[n].event \in {"supersede", "reaffirm", "reopen"}
                                       /\ \E j \in runs : /\ j <= k /\ q \in ledger[j].ids
                                                          /\ journal[n].at >= ledger[j].as_of

\* A node that once had few open questions cannot grow used to many: every
\* clean reading that exceeds, by more than the tolerance, any clean reading
\* of the history it was judged by, says DECAYING, whatever torn lines, failed
\* readings and decaying readings lie between.
DecayIsSeen ==
    \A k \in DOMAIN ledger : ledger[k].verdict \in {"ATTENTION", "CURRENT"} =>
        \A j \in 1..ledger[k].seen :
            ledger[j].corrupt \/ ledger[j].verdict = "DEGRADED"
            \/ ledger[k].open <= ledger[j].open + DECAY_TOLERANCE

\* CURRENT is earned: when a reading says it, every ruling the node acts by was
\* dated when it was made and rests on no file that vanished, and no two of
\* them are in conflict where a bound source asks for conflicts.
CurrentIsEarned ==
    [][\A r \in inflight' \ inflight : r.verdict = "CURRENT" =>
            /\ (\E s \in r.over : s.kind = "ruling") => \A i \in Rulings : \A x \in records[i] :
                  \E n \in DOMAIN journal : journal[n].id = i /\ journal[n].date # 0
                     /\ \A f \in journal[n].evidence :
                           files[f].present \/ f \in NodeLocal \/ f \in DOMAIN Elsewhere
            /\ (\E s \in r.over : "CONFLICT" \in s.falsifiers)
               => Conflicts(records) = {}]_beliefVars

\* Two witnesses answer one heal-claim: the first answer stands for good.
AnswerStands ==
    [][\A w \in Witnesses : Standing(w) \notin {"none", "OPEN-UNVERIFIED"}
                            => Standing(w)' = Standing(w)]_beliefVars

\* Neither way of growing used to open questions goes unseen: to leave them
\* unanswered, or to have more of them.
DriftIsSeen == SilenceIsSeen /\ DecayIsSeen
=============================================================================
