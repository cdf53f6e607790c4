------------------------------ MODULE Ordering ------------------------------
(***************************************************************************)
(* intentops_core/wisdom/ordering.py: the operator's rulings, which good   *)
(* goes above which and when.  The store is an append-only journal; every  *)
(* reader folds it.  Each append is one locked write, so the fold is kept  *)
(* here and every append applies its rows to it.  reaffirm alone reads the *)
(* fold before it appends, outside the lock: its two halves are two steps, *)
(* and another writer may come between them.                               *)
(***************************************************************************)
EXTENDS Naturals

CONSTANTS Rulings,      \* ruling ids (a digest of the statement)
          NoRuling,     \* no ruling
          Predicates,   \* the predicates a ruling may carry: sets of facts
          MaxEvents     \* bound: rows appended to the journal

ASSUME NoRulingAssumption  == NoRuling \notin Rulings
ASSUME EventsAssumption    == MaxEvents \in Nat

ON_MATCH       == {"escalate", "permit", "reject"}
RulingStatuses == {"active", "superseded", "reopened"}

\* The Ordering record's fields that the fold or a reader looks at.
RulingRecord == [status: RulingStatuses, predicate: Predicates,
                 on_match: ON_MATCH, superseded_by: Rulings \cup {NoRuling}]

VARIABLES records,   \* the fold: records[i] holds at most one record
          asking,    \* rulings whose reaffirm has loaded and not yet appended
          events     \* appends so far

orderingVars == <<records, asking, events>>

OrderingTypeOK ==
    /\ records \in [Rulings -> SUBSET RulingRecord]
    /\ asking \subseteq Rulings
    /\ events \in 0..MaxEvents

OrderingInit ==
    /\ records = [i \in Rulings |-> {}]
    /\ asking = {}
    /\ events = 0

\* Mutant: the fold trusts the check that reaffirm made before it appended.
ApplyTrusting(r, row) ==
    CASE row.event = "supersede" -> [r EXCEPT !.status = "superseded",
                                              !.superseded_by = row.superseded_by]
      [] row.event = "compile"   -> [r EXCEPT !.predicate = row.predicate,
                                              !.on_match = row.on_match]
      [] row.event = "reopen"    -> [r EXCEPT !.status = "reopened"]
      [] row.event = "reaffirm"  -> [r EXCEPT !.status = "active"]

\* What load makes of a row about a record that is there.
Apply(r, row) ==
    CASE row.event = "supersede" -> [r EXCEPT !.status = "superseded",
                                              !.superseded_by = row.superseded_by]
      [] row.event = "compile"   -> [r EXCEPT !.predicate = row.predicate,
                                              !.on_match = row.on_match]
      [] row.event = "reopen"    -> [r EXCEPT !.status = "reopened"]
      [] row.event = "reaffirm"  -> IF r.status = "superseded" THEN r
                                    ELSE [r EXCEPT !.status = "active"]

\* A row folded into rs; one about an unknown id is ignored.
Amend(rs, i, row) == [rs EXCEPT ![i] = {Apply(r, row) : r \in rs[i]}]

AppendRow == events < MaxEvents /\ events' = events + 1

\* Mutant: a ruling that replaces another writes the lineage row alone.
ruleLineageOnly(i, pred, match, old) ==
    LET new == [status |-> "active", predicate |-> pred,
                on_match |-> match, superseded_by |-> NoRuling]
    IN  /\ AppendRow
        /\ records' = IF old = NoRuling THEN [records EXCEPT ![i] = {new}]
                      ELSE Amend(records, old, [event |-> "supersede", superseded_by |-> i])
        /\ UNCHANGED asking

\* Ordering.create and rule: the ruling, and a supersede row when it replaces
\* another, in one write.  Ruling the same statement again replaces it.
rule(i, pred, match, old) ==
    LET new  == [status |-> "active", predicate |-> pred,
                 on_match |-> match, superseded_by |-> NoRuling]
        with == [records EXCEPT ![i] = {new}]
    IN  /\ AppendRow
        /\ records' = IF old = NoRuling THEN with
                      ELSE Amend(with, old, [event |-> "supersede", superseded_by |-> i])
        /\ UNCHANGED asking

\* A predicate compiled onto a ruling, its standing aside; never empty.
compile_predicate(i, pred, match) ==
    /\ pred # {}
    /\ AppendRow
    /\ records' = Amend(records, i, [event |-> "compile", predicate |-> pred,
                                     on_match |-> match])
    /\ UNCHANGED asking

\* The ruling's way back fired.  Nothing is read first.
reopen(i) ==
    /\ AppendRow
    /\ records' = Amend(records, i, [event |-> "reopen"])
    /\ UNCHANGED asking

\* reaffirm, first half: load, refuse an unknown or a superseded ruling.
ReaffirmLoad(i) ==
    /\ \E r \in records[i] : r.status # "superseded"
    /\ events < MaxEvents
    /\ asking' = asking \cup {i}
    /\ UNCHANGED <<records, events>>

\* reaffirm, second half: the append.
ReaffirmAppend(i) ==
    /\ i \in asking
    /\ AppendRow
    /\ asking' = asking \ {i}
    /\ records' = Amend(records, i, [event |-> "reaffirm"])

OrderingNext ==
    \/ \E i \in Rulings, pred \in Predicates, match \in ON_MATCH,
          old \in Rulings \cup {NoRuling} : rule(i, pred, match, old)
    \/ \E i \in Rulings, pred \in Predicates, match \in ON_MATCH :
          compile_predicate(i, pred, match)
    \/ \E i \in Rulings : reopen(i) \/ ReaffirmLoad(i) \/ ReaffirmAppend(i)
----------------------------------------------------------------------------
(* Reading the fold                                                        *)

\* Every fact of a non-empty predicate is among the case's.
matches(r, facts) == r.predicate # {} /\ r.predicate \subseteq facts

\* OrderingState.governing over a fold rs: the active rulings that match.
governing(rs, facts) ==
    {i \in Rulings : \E r \in rs[i] : r.status = "active" /\ matches(r, facts)}

OrderingSpec == OrderingInit /\ [][OrderingNext]_orderingVars
----------------------------------------------------------------------------
(* Properties                                                              *)

\* The lineage is whole: a superseded ruling names a successor, and that
\* successor is in the store, whatever was superseded, reopened, reaffirmed
\* or ruled again since.  No reader is pointed at a ruling that is not there.
LineageWhole ==
    \A i \in Rulings : \A r \in records[i] :
        /\ r.status = "superseded" => r.superseded_by # NoRuling
        /\ r.superseded_by # NoRuling => records[r.superseded_by] # {}

\* A reaffirm that found its ruling standing, and whose row lands after the
\* ruling was superseded, changes nothing: the successor keeps its place.
ReaffirmRevivesNothing ==
    [][\A i \in asking \ asking' : \A r \in records[i] :
          r.status = "superseded" => records'[i] = {r}]_orderingVars
=============================================================================
