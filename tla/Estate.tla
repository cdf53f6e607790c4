------------------------------- MODULE Estate -------------------------------
(***************************************************************************)
(* estate/manifests.py: the loader of the six manifests, which returns an  *)
(* Estate or refuses with every problem it met; estate_classifier.py: the  *)
(* estate map it loads, and which estate an item relates to;               *)
(* scripts/estate/estate_manifest_check.py: the verdict over both.         *)
(*                                                                         *)
(* The loader reads file after file; the operator may edit between two     *)
(* reads.  A row keeps what the checks look at: its id (0: none), whether  *)
(* a required field is missing or null, whether its words are declared,    *)
(* the estate it names, who granted it, its health probe, its keywords.    *)
(***************************************************************************)
EXTENDS Naturals, Sequences, FiniteSets, SequencesExt

CONSTANTS
  Contents,      \* what the operator may put in a manifest, by file name
  Shipped,       \* the manifests to begin with
  Roots,         \* the key ids an operator root may have
  NoRoot,        \* none is bound, as when genesis loads the estate
  Words,         \* the words an item's text may consist of
  MaxEdits       \* bound on the edits

VARIABLES
  root,        \* operator_root_key_id, as the caller passes it
  disk,        \* file name -> a manifest (a member of Contents[file])
  loader,      \* [pc, loaded, problems, warnings, applied, ignored]
  estate,      \* what load_estate returned: None, or the Estate
  estateMap,   \* the classifier's map: None, or [error, entries]
  verdict,     \* the last classification
  edits

estateVars == <<root, disk, loader, estate, estateMap, verdict, edits>>

PRECEDENCE == <<"served", "venture", "household", "internal">>

FILES == <<"ESTATE-MAP", "ASSETS", "RESOURCES", "CAPABILITIES", "GRANTS", "DEPENDENCIES">>

\* A row and a manifest.  Every spec requires an id and those of assets and
\* grants an estate, so a row without one has a shape the entry check names; a
\* kind no vocabulary declares is such a shape too.
Row == [id: Nat, ref: Nat, by: STRING, revoked: BOOLEAN, keywords: SUBSET Words,
        kind: ToSet(PRECEDENCE),
        shape: {"ok", "not-a-mapping", "field-missing", "field-null", "undeclared-word"},
        probe: {"given", "absent", "null", "null-with-reason", "unprobeable"}]
Manifest == [header: STRING, kinds: STRING, rows: Seq(Row)]

EstateAssumption ==
  /\ DOMAIN Contents = ToSet(FILES) /\ DOMAIN Shipped = ToSet(FILES)
  /\ \A f \in ToSet(FILES) : \A m \in Contents[f] \cup {Shipped[f]} :
       /\ m \in Manifest
       /\ \A i \in DOMAIN m.rows :
            m.rows[i].shape = "ok" =>
              /\ m.rows[i].id # 0 /\ m.rows[i].probe # "unprobeable"
              /\ f \in {"ASSETS", "GRANTS"} => m.rows[i].ref # 0

None == <<>>
IdleLoader == [pc |-> 0, loaded |-> <<>>, problems |-> {}, warnings |-> {},
               applied |-> {}, ignored |-> {}]

EstateInit ==
  /\ disk = Shipped /\ root \in Roots \cup {NoRoot}
  /\ loader = IdleLoader
  /\ estate = None /\ estateMap = None /\ verdict = None /\ edits = 0
----------------------------------------------------------------------------
(* One manifest.                                                           *)

\* _read_yaml and _check_header: the file is there, parses, is a mapping, and
\* has its schema, its date and its list (an empty one is fine, null is not).
Readable(m) == m.header = "ok"

\* _check_entry against the spec of its file: not a mapping, a required field
\* missing, a null where null is no answer, a word no vocabulary declares.
\* Whether a missing health_probe is looked at is part of the spec.
EntryProblems(file, row) ==
  LET says(bad, code) == IF bad THEN {<<file, code, row.id>>} ELSE {}
  IN  says(row.shape = "not-a-mapping", "shape")
        \cup says(row.shape = "field-missing" \/ row.probe = "absent", "missing")
        \cup says(row.shape = "field-null", "null")
        \cup says(row.shape = "undeclared-word", "vocabulary")

\* _check_duplicate_ids.
DuplicateIds(file, rows) ==
  IF \E i, j \in DOMAIN rows : /\ i # j /\ rows[i].id = rows[j].id /\ rows[i].id # 0
  THEN {<<file, "duplicate", 0>>} ELSE {}

\* _check_capability_kinds: the nine kinds, each with what it is and its three
\* accountings, each with a status and a reason; any gap is a problem.
KindProblems(m) == IF m.kinds = "whole" THEN {} ELSE {<<"CAPABILITIES", m.kinds, 0>>}

\* _check_dependencies: a row with no probe field is left out (the entry check
\* has named it); a null probe is refused, or kept as unprobeable with its
\* reason and a warning.
Unreasoned(rows) == {<<"DEPENDENCIES", "unreasoned", rows[i].id>> :
                       i \in {k \in DOMAIN rows : rows[k].probe = "null"}}
Kept(row) == row.shape # "not-a-mapping" /\ row.probe # "absent"
Materialised(rows) ==
  [i \in {k \in DOMAIN rows : Kept(rows[k])} |->
     IF rows[i].probe = "null-with-reason"
     THEN [rows[i] EXCEPT !.probe = "unprobeable"] ELSE rows[i]]
UnprobeableWarnings(rows) ==
  {<<"DEPENDENCY-UNPROBEABLE", rows[i].id>> :
     i \in {k \in DOMAIN rows : rows[k].probe = "null-with-reason"}}

\* _partition_grants: only what this node's operator root granted is applied;
\* the rest is kept, named, and raises nothing.  Neither expires_at nor
\* revoked_at is looked at.
Applied(rows) ==
  {i \in DOMAIN rows : root # NoRoot /\ rows[i].by = root}
----------------------------------------------------------------------------
(* collect_problems.                                                       *)

StartLoad ==
  /\ loader.pc = 0
  /\ loader' = [IdleLoader EXCEPT !.pc = 1]
  /\ UNCHANGED <<root, disk, estate, estateMap, verdict, edits>>

\* One manifest after another; one that cannot be read is a problem and its
\* rows stay unread.
ReadManifest ==
  /\ loader.pc \in DOMAIN FILES
  /\ LET f    == FILES[loader.pc]
         m    == disk[f]
         rows == m.rows
         kept == IF f = "DEPENDENCIES" THEN Materialised(rows) ELSE rows
     IN  loader' =
           IF ~Readable(m)
           THEN [loader EXCEPT !.pc = @ + 1, !.problems = @ \cup {<<f, m.header, 0>>}]
           ELSE [loader EXCEPT
                   !.pc = @ + 1,
                   !.loaded = [g \in DOMAIN @ \cup {f} |->
                                 IF g = f THEN [read |-> Len(rows), rows |-> kept] ELSE @[g]],
                   !.problems = @ \cup (UNION {EntryProblems(f, rows[i]) : i \in DOMAIN rows})
                                  \cup DuplicateIds(f, rows)
                                  \cup (IF f = "CAPABILITIES" THEN KindProblems(m) ELSE {})
                                  \cup (IF f = "DEPENDENCIES" THEN Unreasoned(rows) ELSE {}),
                   !.warnings = @ \cup (IF f = "DEPENDENCIES" THEN UnprobeableWarnings(rows) ELSE {})
                                  \cup (IF f = "GRANTS"
                                        THEN {<<"GRANT", rows[i].id>> : i \in DOMAIN rows \ Applied(rows)}
                                        ELSE {}),
                   !.applied = IF f = "GRANTS" THEN Applied(rows) ELSE @,
                   !.ignored = IF f = "GRANTS" THEN DOMAIN rows \ Applied(rows) ELSE @]
  /\ UNCHANGED <<root, disk, estate, estateMap, verdict, edits>>

\* _check_estate_references: only against an estate map that was read.
DanglingReferences ==
  IF "ESTATE-MAP" \notin DOMAIN loader.loaded THEN {}
  ELSE LET known == {r.id : r \in ToSet(loader.loaded["ESTATE-MAP"].rows)} \ {0}
       IN  {<<f, "reference", 0>> :
              f \in {g \in {"ASSETS", "GRANTS"} \cap DOMAIN loader.loaded :
                       \E r \in ToSet(loader.loaded[g].rows) :
                         r.ref # 0 /\ r.ref \notin known}}

\* load_estate: any problem at all, and there is no Estate.
FinishLoad ==
  /\ loader.pc = Len(FILES) + 1
  /\ estate' = IF loader.problems \cup DanglingReferences # {} THEN None
               ELSE [loaded |-> loader.loaded, applied |-> loader.applied,
                     ignored |-> loader.ignored, warnings |-> loader.warnings]
  /\ loader' = [IdleLoader EXCEPT !.problems = loader.problems \cup DanglingReferences]
  /\ UNCHANGED <<root, disk, estateMap, verdict, edits>>

EditManifest(f, m) ==
  /\ edits < MaxEdits /\ m # disk[f]
  /\ disk' = [disk EXCEPT ![f] = m]
  /\ edits' = edits + 1
  /\ UNCHANGED <<root, loader, estate, estateMap, verdict>>
----------------------------------------------------------------------------
(* The classifier.                                                         *)

\* EstateMap.from_mapping, stricter than the loader: an entry also needs
\* keywords that are a list with a word in it.
MapOf(rows) ==
  IF \/ \E i \in DOMAIN rows : rows[i].keywords = {} \/ rows[i].shape # "ok"
     \/ DuplicateIds("ESTATE-MAP", rows) # {}
  THEN [error |-> TRUE, entries |-> <<>>] ELSE [error |-> FALSE, entries |-> rows]

\* from_estate.
ClassifierLoads ==
  /\ estate # None /\ estateMap = None
  /\ estateMap' = MapOf(estate.loaded["ESTATE-MAP"].rows)
  /\ UNCHANGED <<root, disk, loader, estate, verdict, edits>>

\* load_estate_map: the same from the file itself, without the loader.
ClassifierReadsFile ==
  /\ estateMap = None
  /\ estateMap' = IF disk["ESTATE-MAP"].header \in {"missing", "not-yaml"}
                  THEN [error |-> TRUE, entries |-> <<>>]
                  ELSE MapOf(disk["ESTATE-MAP"].rows)
  /\ UNCHANGED <<root, disk, loader, estate, verdict, edits>>

\* classify_text: kinds in their precedence, entries in the file's order; the
\* first keyword found decides.
HitRanks(entries, text) ==
  {p \in (1 .. Len(PRECEDENCE)) \X (1 .. Len(entries)) :
     /\ entries[p[2]].kind = PRECEDENCE[p[1]]
     /\ entries[p[2]].keywords \cap text # {}}

\* Mutant of classify_text: the first entry of the file with a hit decides.
classify_text_in_file_order(entries, text) ==
  IF HitRanks(entries, text) = {} THEN [kind |-> "unknown", id |-> 0]
  ELSE LET hit == CHOOSE p \in HitRanks(entries, text) :
                    \A q \in HitRanks(entries, text) : p[2] <= q[2]
       IN  [kind |-> PRECEDENCE[hit[1]], id |-> entries[hit[2]].id]

classify_text(entries, text) ==
  IF HitRanks(entries, text) = {} THEN [kind |-> "unknown", id |-> 0]
  ELSE LET hit == CHOOSE p \in HitRanks(entries, text) :
                    \A q \in HitRanks(entries, text) :
                      p[1] < q[1] \/ (p[1] = q[1] /\ p[2] <= q[2])
       IN  [kind |-> PRECEDENCE[hit[1]], id |-> entries[hit[2]].id]

\* classify_item: an estate the item names explicitly wins, by id and then by
\* kind; a name nobody declared is an error, never a guess from the text.
classify_item(entries, explicit, text) ==
  LET named == {i \in DOMAIN entries : entries[i].id = explicit.id}
  IN  CASE explicit.by = "none" -> classify_text(entries, text)
        [] explicit.by = "id" /\ named # {} ->
             [kind |-> entries[CHOOSE i \in named : TRUE].kind, id |-> explicit.id]
        [] explicit.by = "id" /\ named = {} -> [kind |-> "error", id |-> 0]
        [] explicit.by = "kind" -> [kind |-> explicit.kind, id |-> 0]

Explicit ==
  {[by |-> "none", id |-> 0, kind |-> "none"]}
    \cup [by: {"id"}, id: 1 .. 3, kind: {"none"}]
    \cup [by: {"kind"}, id: {0}, kind: ToSet(PRECEDENCE)]

ClassifyItem(explicit, text) ==
  /\ estateMap # None /\ ~estateMap.error /\ verdict = None
  /\ verdict' = [explicit |-> explicit, text |-> text,
                 says |-> classify_item(estateMap.entries, explicit, text)]
  /\ UNCHANGED <<root, disk, loader, estate, estateMap, edits>>

EstateNext ==
  \/ StartLoad \/ ReadManifest \/ FinishLoad
  \/ \E f \in ToSet(FILES) : \E m \in Contents[f] : EditManifest(f, m)
  \/ ClassifierLoads \/ ClassifierReadsFile
  \/ \E explicit \in Explicit, text \in SUBSET Words : ClassifyItem(explicit, text)
----------------------------------------------------------------------------
(* Properties.                                                             *)

\* An Estate is whole: whatever was edited while it was being read, each
\* manifest in it has every row its file had at the moment it was read, no
\* dependency has dropped out of the denominator, every probe is stated or
\* carries its reason in a warning, ids name one row, and every estate an
\* asset or a grant names is one of its own (collect_problems).
EstateIsWhole ==
  estate # None =>
    LET rows(f) == estate.loaded[f].rows IN
    /\ DOMAIN estate.loaded = ToSet(FILES)
    /\ \A f \in ToSet(FILES) :
         /\ DOMAIN rows(f) = 1 .. estate.loaded[f].read
         /\ \A i, j \in DOMAIN rows(f) : rows(f)[i].id = rows(f)[j].id => i = j
    /\ \A i \in DOMAIN rows("DEPENDENCIES") :
         \/ rows("DEPENDENCIES")[i].probe = "given"
         \/ <<"DEPENDENCY-UNPROBEABLE", rows("DEPENDENCIES")[i].id>> \in estate.warnings
    /\ \A f \in {"ASSETS", "GRANTS"} : \A r \in ToSet(rows(f)) :
         \E e \in ToSet(rows("ESTATE-MAP")) : e.id = r.ref

\* Authority comes from this node's operator and from nobody else, and what
\* is not applied is named: every grant of the Estate is either the bound
\* operator root's or warned about, so a node with no root applies none
\* (_partition_grants).
GrantsAreTheOperators ==
  estate # None =>
    \A i \in DOMAIN estate.loaded["GRANTS"].rows :
      LET g == estate.loaded["GRANTS"].rows[i] IN
        IF i \in estate.applied THEN g.by = root /\ g.by # NoRoot
        ELSE <<"GRANT", g.id>> \in estate.warnings

\* The strictest reading wins: when nothing is named explicitly, the estate
\* an item is given is of the kind that comes first in the precedence among
\* all entries whose keywords its text contains, wherever they stand in the
\* file, and it is unknown only when there is none (classify_text).
StrictestEstateWins ==
  (verdict # None /\ verdict.explicit.by = "none") =>
    LET hits == {e \in ToSet(estateMap.entries) : e.keywords \cap verdict.text # {}}
        rank(kind) == CHOOSE k \in DOMAIN PRECEDENCE : PRECEDENCE[k] = kind
    IN  IF hits = {} THEN verdict.says.kind = "unknown"
        ELSE /\ \E e \in hits : e.kind = verdict.says.kind /\ e.id = verdict.says.id
             /\ \A e \in hits : rank(verdict.says.kind) <= rank(e.kind)
=============================================================================
