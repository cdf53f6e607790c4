----------------------------- MODULE MCBeliefs -----------------------------
(* The rulings by themselves, with all they may say; and the instruments    *)
(* over a journal of fewer rows, in which what a ruling does when it        *)
(* matches, which no instrument reads, is left at escalate.                 *)
EXTENDS Beliefs

CONSTANTS fact, code, note

VARIABLE part

MCConfigs == {[schema |-> TRUE, carriers |-> <<>>], [schema |-> FALSE, carriers |-> <<>>]}

Symmetry == Permutations(Rulings)

MCPredicates == {{}, {fact}}
MCElsewhere  == <<>>
Src(i, k, vc, fs) == [id |-> i, kind |-> k, base |-> IF k = "ruling" THEN "node" ELSE "identity-repo",
                      vc |-> vc, falsifiers |-> fs]
Template(s)  == [schema |-> TRUE, extractors |-> TRUE, kinds |-> {"ruling", "anchor", "briefing"},
                 sources |-> s]
MCTemplates  == {Template(<<Src("node", "ruling", "git", QUESTION_KINDS),
                            Src("anchors", "anchor", "none", {"UNDATED"})>>),
                 Template(<<Src("node", "ruling", "none", {"EVIDENCE-MOVED"})>>)}

\* What the readers may find: a day, a file, a document, a root or a source
\* that is not there, a git that fails.  One reading at a time.
Currency ==
    \/ /\ events < 2
       /\ \E i \in Rulings, pred \in Predicates, dated \in BOOLEAN :
             RuleOn(i, pred, "escalate", NoRuling, dated, {code})
    \/ DayPasses
    \/ \E f \in Subjects : FileMoves(f)
    \/ Len(ledger) = 0 /\ \E stamp \in {0, day} : EditDocument("anchors", stamp, {note})
    \/ \E t \in Templates : BindTemplate(t)
    \/ /\ inflight = {} /\ Len(ledger) < 2
       /\ \E roots \in {BASES, {"node"}}, broken \in {{}, {"node"}}, git \in BOOLEAN :
             ReadBeliefs(roots, broken, git)
    \/ \E r \in inflight, torn \in BOOLEAN : AppendReading(r, torn)

\* Whether what was asked was answered: readings in which every source is
\* read, of rulings that rest on one file and may be in conflict; it ends with
\* the reading of the answers, of which nothing later changes what it read.
Answering ==
    \/ binding = <<>> /\ \E t \in Templates : BindTemplate(t)
    \/ /\ binding # <<>> /\ answers = <<>>
       /\ \/ /\ events < 3
             /\ \E i \in Rulings : ReopenOn(i) \/ ReaffirmOn(i) \/ \E old \in Rulings \cup {NoRuling} :
                   RuleOn(i, {fact}, "escalate", old, TRUE, {code})
          \/ DayPasses
          \/ FileMoves(code)
          \/ inflight = {} /\ Len(ledger) < 2 /\ ReadBeliefs(BASES, {}, TRUE)
          \/ \E r \in inflight : AppendReading(r, FALSE)
          \/ ReadAnswers

\* A growing number of questions, and readings that overlap, fail and tear.
Decaying ==
    \/ \E t \in Templates : BindTemplate(t)
    \/ events < 2 /\ \E i \in Rulings : RuleOn(i, {}, "escalate", NoRuling, FALSE, {})
    \/ \E broken \in {{}, {"node"}} : ReadBeliefs(BASES, broken, TRUE)
    \/ \E c \in Configs : ReadConfigured(c, {}, TRUE)
    \/ \E r \in inflight, torn \in BOOLEAN : AppendReading(r, torn)

Witnessing ==
    \E w \in Witnesses : RegisterClaim(w) \/ \E held \in BOOLEAN : AnswerClaim(w, held)

MCInit == part \in {"rulings", "currency", "answers", "decay", "witness"} /\ BeliefsInit
MCNext == /\ UNCHANGED part
          /\ \/ part = "rulings" /\ OrderingNext /\ UNCHANGED <<worldVars, journal, readerVars>>
             \/ part = "currency" /\ Currency
             \/ part = "answers" /\ Answering
             \/ part = "decay" /\ Decaying
             \/ part = "witness" /\ Witnessing
MCSpec == MCInit /\ [][MCNext]_<<part, beliefVars>>
=============================================================================
