------------------------------ MODULE Knowledge ------------------------------
(****************************************************************************)
(* The knowledge store and its instruments: the ring taxonomy               *)
(* (knowledge/rings.py), the declared collections and the gate every write  *)
(* passes (knowledge/collections.py), the ring-coverage ledger with its     *)
(* posture (knowledge/coverage.py), and the watermark that the absorbers of *)
(* one platform move (knowledge/absorber.py).                               *)
(*                                                                          *)
(* A ring is a number: Quarantine = 0 is the strictest.  A row's content,   *)
(* its embedding and every message are left out; what it claims (a ring, a  *)
(* sigma tier, a confidence, a source) is kept.                             *)
(****************************************************************************)
EXTENDS Integers, Sequences, FiniteSets, FiniteSetsExt

CONSTANTS
    Collections,   \* the collection names a node declares
    RowIds,        \* row ids within a collection
    SourceTypes,   \* source types the operator may rule on
    Absorbers,     \* absorbers that share one platform's watermark
    MaxRing,       \* the most open ring
    GrowRows,      \* GROW_ROWS: unclassified rows above the low-water mark that mean DECAYING
    Claims,        \* what a writer claims of a row: [ring, sigma, conf, st]
    Shapes,        \* the declaration of each collection: [dims, sens, st, floor]
    Taxonomies,    \* the ring taxonomies the operator may put on disk
    MaxWrites,     \* bound: writes offered to the store
    MaxEdits,      \* bound: edits of the environment, the taxonomy, the faults
    MaxReadings,   \* bound: records of the coverage ledger
    MaxMark        \* bound: the highest position an absorber reaches

VARIABLES
    env,       \* the two gate variables: [sigma, ring]; "" is unset, "typo" is undeclared
    taxfile,   \* the ring taxonomy on disk: "missing", "bad" or a map of rulings
    taxonomy,  \* the taxonomy the open store holds, <<>> for none
    specs,     \* the registry: collection -> declaration, of the declared ones
    store,     \* the rows: <<collection, id>> -> row
    broken,    \* collections whose rows() raises
    led,       \* the coverage ledger, lines in order
    ins,       \* the reading being graded, <<>> for none
    mark,      \* the watermark file: <<>> before the first sweep, then [comparable, runs]
    abs,       \* each absorber's position in its sweep
    writes,    \* bound counter
    edits      \* bound counter

kvars == <<env, taxfile, taxonomy, specs, store, broken, led, ins,
           mark, abs, writes, edits>>

Quarantine == 0
Rings == 0..MaxRing
Absent == 9        \* the metadata has no such key
Unreadable == 8    \* the key is there and its value is not in the vocabulary
Modes == {"observe", "enforce", "off"}
Rulings == [SourceTypes -> Rings \cup {Absent}]

\* Rings are fewer than the two values no ring has; a declaration is checked
\* when it is made, and a document is a map of rulings or does not load.
KnowledgeAssumption ==
    /\ MaxRing \in Nat /\ MaxRing < Unreadable
    /\ Claims \subseteq [ring: Rings \cup {Absent, Unreadable}, sigma: Nat, conf: Nat,
                         st: STRING]
    /\ Shapes \in [Collections -> [dims: Nat, sens: Rings, st: STRING, floor: Nat]]
    /\ Taxonomies \subseteq Rulings \cup {<<"missing">>, <<"bad">>}
    /\ MaxMark \in Nat

----------------------------------------------------------------------------
(* Rings. *)

stricter(l, r) == IF l <= r THEN l ELSE r

\* ring_from_metadata: a missing or an unreadable ring is quarantine.
ring_from_metadata(claim) == IF claim \in Rings THEN claim ELSE Quarantine

\* gate_mode: unset means observe, an undeclared value is a halt.
gate_mode(value) ==
    CASE value = "" -> "observe"
      [] value \in Modes -> value
      [] OTHER -> "halt"

\* load_taxonomy: a missing or half-understood document halts.
LoadHalts(file) == file \in {<<"missing">>, <<"bad">>}

\* declared_ring_for: silence is not a ruling.
declared_ring_for(tax, st) ==
    IF tax = <<>> \/ st \notin SourceTypes THEN Absent ELSE tax[st]

----------------------------------------------------------------------------
(* The write gate. *)

\* The confidence, per 100 000, at which each sigma tier is earned.
Tier == <<68269, 95450, 99730, 99994, 100000>>
confidence_to_sigma(conf) == Max({0} \cup {t \in 1..5 : conf >= Tier[t]})

\* The ring half of gate_write: ruling, declaration and claim, strictest wins.
\* Mutant of ResolvedRing: the ruling is consulted only for rows that carry no ring.
ResolvedRingSilent(claim, sens, ruled) ==
    IF claim # Absent THEN stricter(ring_from_metadata(claim), sens)
    ELSE IF ruled = Absent THEN sens ELSE stricter(ruled, sens)
ResolvedRing(claim, sens, ruled) ==
    LET own == IF claim = Absent THEN sens
               ELSE stricter(ring_from_metadata(claim), sens)
    IN  IF ruled = Absent THEN own ELSE stricter(own, ruled)

\* The sigma half of gate_write.
SigmaStatus(claim, conf, floor) ==
    LET earned == confidence_to_sigma(conf)
        effective == IF claim = Absent THEN earned ELSE claim
    IN  IF Unreadable \in {claim, conf} THEN "malformed"
        ELSE IF conf = Absent THEN IF claim = Absent THEN "unscored" ELSE "no_posterior"
        ELSE IF claim # Absent /\ claim > earned THEN "over_claimed"
        ELSE IF effective < floor THEN "below_floor" ELSE "computed"

SigmaViolates(status, floor) ==
    \/ status \in {"malformed", "no_posterior", "over_claimed", "below_floor"}
    \/ status = "unscored" /\ floor > 0

\* gate_write: the row as it is stored, and whether the write is refused.  In
\* "off" the metadata passes untouched.
gate_write(meta, spec, tax, mode) ==
    LET st == IF meta.st = "" THEN spec.st ELSE meta.st
        ruled == declared_ring_for(tax, st)
        ring == ResolvedRing(meta.ring, spec.sens, ruled)
        sigma == SigmaStatus(meta.sigma, meta.conf, spec.floor)
        bad == ring = Quarantine \/ SigmaViolates(sigma, spec.floor)
    IN  [refused |-> mode = "halt" \/ (mode = "enforce" /\ bad),
         row |-> [ring |-> IF mode = "off" THEN meta.ring ELSE ring,
                  sigma |-> IF mode = "off" THEN "untouched" ELSE sigma,
                  mode |-> mode, claim |-> meta.ring, ruled |-> ruled,
                  sens |-> spec.sens, floor |-> spec.floor]]

----------------------------------------------------------------------------
(* The store. *)

\* CollectionRegistry.declare: the same shape again is idempotent, another
\* shape under a declared name halts, and so does a malformed declaration.
Declare(c, spec) ==
    /\ edits < MaxEdits
    /\ c \notin DOMAIN specs
    /\ spec.dims > 0
    /\ specs' = [d \in DOMAIN specs \cup {c} |-> IF d = c THEN spec ELSE specs[d]]
    /\ edits' = edits + 1
    /\ UNCHANGED <<env, taxfile, taxonomy, store, broken, led, ins, mark, abs, writes>>

\* NullVectorStore.upsert: declared, of the declared shape, and past the gate.
upsert(c, id, dims, meta) ==
    LET g == gate_write(meta, specs[c], taxonomy, gate_mode(env.sigma))
    IN  /\ writes < MaxWrites
        /\ writes' = writes + 1
        /\ store' = IF dims # specs[c].dims \/ g.refused THEN store
                    ELSE [k \in DOMAIN store \cup {<<c, id>>} |->
                            IF k = <<c, id>> THEN g.row ELSE store[k]]
        /\ UNCHANGED <<env, taxfile, taxonomy, specs, broken, led, ins, mark, abs, edits>>

\* PostgresVectorStore.upsert: the same gate in front of a database: without a
\* driver it halts, with one the write itself is not there: no row is stored.
PostgresUpsert(c) ==
    /\ writes < MaxWrites
    /\ c \in DOMAIN specs
    /\ writes' = writes + 1
    /\ UNCHANGED <<env, taxfile, taxonomy, specs, store, broken, led, ins, mark, abs, edits>>

\* A process starts: the in-memory store and its registry begin empty, and the
\* taxonomy is read once, or the store does not open.
Restart ==
    /\ edits < MaxEdits
    /\ ~LoadHalts(taxfile)
    /\ taxonomy' = taxfile
    /\ specs' = <<>> /\ store' = <<>> /\ ins' = <<>>
    /\ edits' = edits + 1
    /\ UNCHANGED <<env, taxfile, broken, led, mark, abs, writes>>

----------------------------------------------------------------------------
(* Ring coverage. *)

\* ring_coverage: collections whose read raises leave the totals and stay as an
\* error; so does an undeclared gate mode.
ring_coverage ==
    LET measured == DOMAIN specs \ broken
        keys == {k \in DOMAIN store : k[1] \in measured}
        raw == [k \in keys |-> store[k].ring]
        mode == gate_mode(env.ring)
    IN  [rows |-> Cardinality(keys),
         classified |-> Cardinality({k \in keys : ring_from_metadata(raw[k]) # Quarantine}),
         invalid |-> Cardinality({k \in keys : raw[k] = Unreadable}),
         mode |-> mode, measured |-> measured,
         errors |-> mode = "halt" \/ broken \cap DOMAIN specs # {}]

unclassified(r) == r.rows - r.classified

\* The share of r lies two points or more below h's (DROP_PP), in whole numbers.
FellBelow(r, h) ==
    /\ h.rows > 0
    /\ 100 * r.classified * h.rows <= 100 * h.classified * r.rows - 2 * r.rows * h.rows

\* Where the history has no DEGRADED record (a LOST record has degraded first),
\* and the last such place.
Clean(hist) == {i \in 1..Len(hist) : hist[i].verdict # "DEGRADED"}
LastClean(hist) == {i \in Clean(hist) : \A j \in Clean(hist) : j <= i}

Notes(r) == r.invalid > 0 \/ unclassified(r) > 0 \/ r.mode # "enforce"

\* Mutant of Marks: the last record stands for the high-water mark.
MarksLast(hist) == {hist[i] : i \in LastClean(hist)}
Marks(hist) == {hist[i] : i \in Clean(hist)}

\* posture: DEGRADED is decided first, since a trend over a smaller set of
\* collections cannot be read; then the water marks; then the notes.
posture(r, hist) ==
    IF \/ r.errors
       \/ \E i \in 1..Len(hist) : hist[i].verdict = "LOST"
       \/ \E i \in LastClean(hist) : hist[i].measured \ r.measured # {}
    THEN "DEGRADED"
    ELSE IF r.rows = 0 THEN "NOT-YET-ARMED"
    ELSE IF \E h \in Marks(hist) : \/ FellBelow(r, h)
                                  \/ unclassified(r) >= unclassified(h) + GrowRows
    THEN "DECAYING"
    ELSE IF Notes(r) THEN "ATTENTION" ELSE "COVERED"

\* The instrument measures the store the process holds ...
Measure ==
    /\ ins = <<>> /\ Len(led) < MaxReadings
    /\ ins' = ring_coverage
    /\ UNCHANGED <<env, taxfile, taxonomy, specs, store, broken, led, mark, abs, writes, edits>>

Graded(r, verdict) ==
    [rows |-> r.rows, classified |-> r.classified, measured |-> r.measured, verdict |-> verdict]

\* ... grades it against the ledger and appends the record under the lock.
append_reading ==
    /\ ins # <<>>
    /\ led' = Append(led, Graded(ins, posture(ins, led)))
    /\ ins' = <<>>
    /\ UNCHANGED <<env, taxfile, taxonomy, specs, store, broken, mark, abs, writes, edits>>

\* The process dies in the append: load_history reads the torn line as LOST.
TornAppend ==
    /\ ins # <<>>
    /\ led' = Append(led, Graded(ins, "LOST"))
    /\ ins' = <<>> /\ specs' = <<>> /\ store' = <<>> /\ taxonomy' = <<>>
    /\ UNCHANGED <<env, taxfile, broken, mark, abs, writes, edits>>

----------------------------------------------------------------------------
(* The watermark. *)

Set(a, pc, at, seen) == abs' = [abs EXCEPT ![a] = [pc |-> pc, at |-> at, seen |-> seen]]

\* read_watermark: nothing for a platform never absorbed (atomic_replace never
\* leaves a torn mark to halt on); the sweep then works out how far it can go.
read_watermark(a) ==
    /\ abs[a].pc = "idle"
    /\ \E at \in 1..MaxMark : Set(a, "swept", at, mark)
    /\ UNCHANGED <<env, taxfile, taxonomy, specs, store, broken, led, ins, mark, writes, edits>>

\* The lock is taken when no other absorber holds it.
TakeLock(a) ==
    /\ abs[a].pc = "swept"
    /\ \A b \in Absorbers : abs[b].pc # "locked"
    /\ Set(a, "locked", abs[a].at, abs[a].seen)
    /\ UNCHANGED <<env, taxfile, taxonomy, specs, store, broken, led, ins, mark, writes, edits>>

\* The mark the advance is compared with is read inside the lock.
\* Mutant of Current: the mark the sweep began from.
CurrentOfSweep(a) == abs[a].seen
Current(a) == mark

\* advance_watermark without force: backwards is refused; either way the lock
\* is released.
advance_watermark(a) ==
    LET cur == Current(a)
        raises == IF cur = <<>> THEN FALSE ELSE abs[a].at < cur.comparable
    IN  /\ abs[a].pc = "locked"
        /\ mark' = IF raises THEN mark
                   ELSE [comparable |-> abs[a].at,
                         runs |-> IF cur = <<>> THEN 1 ELSE cur.runs + 1]
        /\ Set(a, IF raises THEN "refused" ELSE "done", 0, <<>>)
        /\ UNCHANGED <<env, taxfile, taxonomy, specs, store, broken, led, ins, writes, edits>>

----------------------------------------------------------------------------
(* The operator and the world. *)

SetEnv(sigma, ring) ==
    /\ edits < MaxEdits
    /\ env' = [sigma |-> sigma, ring |-> ring]
    /\ env' # env
    /\ edits' = edits + 1
    /\ UNCHANGED <<taxfile, taxonomy, specs, store, broken, led, ins, mark, abs, writes>>

EditTaxonomy(doc) ==
    /\ edits < MaxEdits
    /\ taxfile' = doc
    /\ taxfile' # taxfile
    /\ edits' = edits + 1
    /\ UNCHANGED <<env, taxonomy, specs, store, broken, led, ins, mark, abs, writes>>

\* A backing store's rows() begins to raise, or stops raising.
Fault(c) ==
    /\ edits < MaxEdits
    /\ broken' = IF c \in broken THEN broken \ {c} ELSE broken \cup {c}
    /\ edits' = edits + 1
    /\ UNCHANGED <<env, taxfile, taxonomy, specs, store, led, ins, mark, abs, writes>>

----------------------------------------------------------------------------
(* The store and the watermark share no state.                              *)

KnowledgeInit ==
    /\ env = [sigma |-> "", ring |-> ""]
    /\ taxfile \in Taxonomies
    /\ taxonomy = IF LoadHalts(taxfile) THEN <<>> ELSE taxfile
    /\ \E D \in SUBSET Collections : specs = [c \in D |-> Shapes[c]]
    /\ store = <<>> /\ broken = {} /\ led = <<>> /\ ins = <<>> /\ mark = <<>>
    /\ abs = [a \in Absorbers |-> [pc |-> "idle", at |-> 0, seen |-> <<>>]]
    /\ writes = 0 /\ edits = 0

StoreNext ==
    \/ \E c \in Collections : Declare(c, Shapes[c]) \/ PostgresUpsert(c) \/ Fault(c)
    \/ \E c \in DOMAIN specs, id \in RowIds, dims \in {1, 2}, m \in Claims :
         upsert(c, id, dims, m)
    \/ Restart \/ Measure \/ append_reading \/ TornAppend
    \/ \E s \in {"", "enforce", "off", "typo"}, r \in {"", "enforce", "typo"} : SetEnv(s, r)
    \/ \E doc \in Taxonomies : EditTaxonomy(doc)

MarkNext ==
    \E a \in Absorbers : read_watermark(a) \/ TakeLock(a) \/ advance_watermark(a)

----------------------------------------------------------------------------
(* Properties. *)

\* No write is ever opened up: a row that passed the gate is at most as open as
\* its own claim, the collection's declaration and the operator's ruling, and a
\* row written under enforce is classified and has the sigma it claims
\* (gate_write, upsert).
NeverLoosened ==
    \A k \in DOMAIN store :
        LET r == store[k] IN
        r.mode # "off" =>
            /\ \A bound \in {r.sens, r.ruled, r.claim} \cap Rings : r.ring <= bound
            /\ r.claim = Unreadable => r.ring = Quarantine
            /\ r.mode = "enforce" => r.ring # Quarantine /\ ~SigmaViolates(r.sigma, r.floor)

\* A clean bill is never had by measuring less: when the ledger reads COVERED or
\* ATTENTION, every collection an earlier sound record measured is still measured,
\* and the share classified has not fallen two points below any of them, however
\* many DECAYING, DEGRADED or empty readings lie between (posture).
CoverageRatchet ==
    \A i \in 1..Len(led) : led[i].verdict \in {"COVERED", "ATTENTION"} =>
        \A j \in 1..(i - 1) :
            LET h == led[j] IN
            /\ h.verdict # "LOST"
            /\ h.verdict # "DEGRADED" => /\ h.measured \subseteq led[i].measured
                                         /\ ~FellBelow(led[i], h)

\* The watermark never walks back, whichever absorber moves it and however old
\* the mark its sweep began from (advance_watermark without force): what every
\* step that changes the mark does.
NeverBack ==
    mark # <<>> => /\ mark' # <<>>
                   /\ mark'.comparable >= mark.comparable /\ mark'.runs >= mark.runs
=============================================================================
