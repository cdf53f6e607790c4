------------------------ MODULE GuardBeliefsProofs -------------------------
(***************************************************************************)
(* The guard of a shared store, and the journals and instruments that are  *)
(* kept under it.                                                          *)
(*                                                                         *)
(* StoreGuard, for every set of writers, every number of updates and every *)
(* number of process deaths.                                               *)
(*                                                                         *)
(* Beliefs: the fold of the rulings journal, for any set of rulings and    *)
(* predicates and any number of rows, and the instruments that read it, for *)
(* any files, documents, bindings, configurations and number of readings.  *)
(*                                                                         *)
(* The lineage is inductive on top of the type because no row removes a    *)
(* record and only a supersede row, written with its successor, points at  *)
(* another one.  A ruling has at most one record, which the late reaffirm  *)
(* needs.                                                                  *)
(*                                                                         *)
(* A reading is judged before it is appended and never afterwards.  What it *)
(* says of the history it saw stays true because every one of the journals *)
(* only grows: BeliefsInv says it of the readings under way and of those on *)
(* record, each of the prefix it was judged by.                            *)
(***************************************************************************)
EXTENDS StoreGuard, Beliefs, FiniteSetTheorems, WellFoundedInduction,
        SequenceTheorems, TLAPS

----------------------------------------------------------------------------
(* The store guard.                                                        *)

\* An update is numbered once its process has asked for it, and the file that
\* is about to be renamed is complete.
CallInv ==
    /\ \A w \in Writers : pc[w] # "idle" => op[w] \in 1..MaxOps
    /\ \A w \in Writers : pc[w] = "written" => tmp[w] = "whole"
    /\ shape = "whole"

\* The kernel's holders are the processes inside the lock, at most one.
LockInv ==
    /\ \A w \in Writers : pc[w] \in InLock <=> w \in holders
    /\ \A v, w \in holders : v = w

\* What a writer read is still the store until it writes, its update is there
\* once it has, and nothing acknowledged is missing.
DataInv ==
    /\ \A w \in Writers :
          pc[w] \in {"loaded", "opened", "written"} => seen[w] = store
    /\ \A w \in Writers : pc[w] = "replaced" => Entry(w) \in store
    /\ acked \subseteq store

\* A step keeps every variable in its type and never renames a torn file over
\* the store (atomic_replace closes the file before os.replace).
LEMMA TypeStep == TypeOK /\ CallInv /\ [Next]_vars => TypeOK' /\ CallInv'
<1> SUFFICES ASSUME TypeOK, CallInv, [Next]_vars
             PROVE  TypeOK' /\ CallInv'
    OBVIOUS
<1> USE BoundsAssumption, WritersAssumption DEF TypeOK, CallInv, Goto, Entries
<1>1. CASE UNCHANGED vars
    BY <1>1 DEF vars
<1>2. CASE Next
    <2> PICK w \in Writers :
            \/ Call(w) \/ TryAcquire(w) \/ GiveUp(w) \/ Load(w) \/ MakeTemp(w)
            \/ WriteTemp(w) \/ Replace(w) \/ Exit(w) \/ Raise(w) \/ Crash(w)
        BY <1>2 DEF Next
    <2>1. CASE Call(w)
        BY <2>1 DEF Call, PCs, InLock
    <2>2. CASE TryAcquire(w)
        BY <2>2 DEF TryAcquire, PCs, InLock
    <2>3. CASE GiveUp(w)
        BY <2>3 DEF GiveUp, PCs, InLock
    <2>4. CASE Load(w)
        BY <2>4 DEF Load, PCs, InLock
    <2>5. CASE MakeTemp(w)
        BY <2>5 DEF MakeTemp, PCs, InLock
    <2>6. CASE WriteTemp(w)
        BY <2>6 DEF WriteTemp, PCs, InLock
    <2>7. CASE Replace(w)
        <3>1. Entry(w) \in Entries
            BY <2>7 DEF Replace, Entry
        <3>2. store' \in SUBSET Entries /\ shape' = "whole"
            BY <3>1, <2>7 DEF Replace, Transform
        <3> QED BY <3>2, <2>7 DEF Replace, PCs, InLock
    <2>8. CASE Exit(w)
        <3>1. Entry(w) \in Entries
            BY <2>8 DEF Exit, Entry
        <3> QED BY <3>1, <2>8 DEF Exit, PCs, InLock
    <2>9. CASE Raise(w)
        BY <2>9 DEF Raise, PCs, InLock
    <2>10. CASE Crash(w)
        BY <2>10 DEF Crash, PCs, InLock
    <2> QED BY <2>1, <2>2, <2>3, <2>4, <2>5, <2>6, <2>7, <2>8, <2>9, <2>10
<1> QED BY <1>1, <1>2

\* The first state has the types and the numbering the steps preserve.
LEMMA TypeInit == Init => TypeOK /\ CallInv
BY BoundsAssumption DEF Init, TypeOK, CallInv, PCs, Entries

\* Every reachable state is well typed, whatever the backend and whoever reads
\* early (store_guard.py).
THEOREM TypeCorrect == Spec => []TypeOK
<1>1. Spec => [](TypeOK /\ CallInv)
    BY TypeInit, TypeStep, PTL DEF Spec
<1> QED BY <1>1, PTL

\* A reader that takes no lock finds a whole document at every instant, even
\* where the lock serialises nothing (atomic_replace).
THEOREM ReadersNeverTorn == Spec => []ReaderSeesWholeFile
<1>1. Spec => [](TypeOK /\ CallInv)
    BY TypeInit, TypeStep, PTL DEF Spec
<1>2. CallInv => ReaderSeesWholeFile
    BY DEF CallInv, ReaderSeesWholeFile
<1> QED BY <1>1, <1>2, PTL

\* With a lock backend the processes inside the lock are exactly its holders,
\* and there is never a second one (StoreLock).
LEMMA LockStep ==
    ASSUME Backend # "none", TypeOK, LockInv, [Next]_vars
    PROVE  LockInv'
<1> USE DEF TypeOK, LockInv, Goto, InLock
<1>1. CASE UNCHANGED vars
    BY <1>1 DEF vars
<1>2. CASE Next
    <2> PICK w \in Writers :
            \/ Call(w) \/ TryAcquire(w) \/ GiveUp(w) \/ Load(w) \/ MakeTemp(w)
            \/ WriteTemp(w) \/ Replace(w) \/ Exit(w) \/ Raise(w) \/ Crash(w)
        BY <1>2 DEF Next
    <2>1. CASE Call(w)
        BY <2>1 DEF Call, PCs
    <2>2. CASE TryAcquire(w)
        BY <2>2 DEF TryAcquire, Free, PCs
    <2>3. CASE GiveUp(w)
        BY <2>3 DEF GiveUp, PCs
    <2>4. CASE Load(w)
        BY <2>4 DEF Load, PCs
    <2>5. CASE MakeTemp(w)
        BY <2>5 DEF MakeTemp, PCs
    <2>6. CASE WriteTemp(w)
        BY <2>6 DEF WriteTemp, PCs
    <2>7. CASE Replace(w)
        BY <2>7 DEF Replace, PCs
    <2>8. CASE Exit(w)
        BY <2>8 DEF Exit, PCs
    <2>9. CASE Raise(w)
        BY <2>9 DEF Raise, PCs
    <2>10. CASE Crash(w)
        BY <2>10 DEF Crash, PCs
    <2> QED BY <2>1, <2>2, <2>3, <2>4, <2>5, <2>6, <2>7, <2>8, <2>9, <2>10
<1> QED BY <1>1, <1>2

\* Mutual exclusion over one store, through timeouts, exceptions and process
\* deaths, wherever the platform has a lock backend (StoreLock).
THEOREM LockExcludes ==
    ASSUME Backend # "none"
    PROVE  Spec => []MutualExclusion
<1>1. Init => LockInv
    BY DEF Init, LockInv, InLock
<1>2. TypeOK /\ LockInv /\ [Next]_vars => LockInv'
    BY LockStep
<1>3. TypeOK /\ LockInv => MutualExclusion
    BY DEF TypeOK, LockInv, MutualExclusion
<1> QED BY <1>1, <1>2, <1>3, TypeCorrect, PTL DEF Spec

\* When every writer reads inside the lock, what it read is the store it
\* replaces, so a step never drops an entry (locked_rmw).
LEMMA DataStep ==
    ASSUME Backend # "none", EarlyReaders = {},
           TypeOK, LockInv, DataInv, [Next]_vars
    PROVE  DataInv'
<1> USE DEF TypeOK, LockInv, DataInv, Goto, InLock, Entry
<1>1. CASE UNCHANGED vars
    BY <1>1 DEF vars
<1>2. CASE Next
    <2> PICK w \in Writers :
            \/ Call(w) \/ TryAcquire(w) \/ GiveUp(w) \/ Load(w) \/ MakeTemp(w)
            \/ WriteTemp(w) \/ Replace(w) \/ Exit(w) \/ Raise(w) \/ Crash(w)
        BY <1>2 DEF Next
    <2>1. CASE Call(w)
        BY <2>1 DEF Call, PCs
    <2>2. CASE TryAcquire(w)
        BY <2>2 DEF TryAcquire, PCs
    <2>3. CASE GiveUp(w)
        BY <2>3 DEF GiveUp, PCs
    <2>4. CASE Load(w)
        BY <2>4 DEF Load, PCs
    <2>5. CASE MakeTemp(w)
        BY <2>5 DEF MakeTemp, PCs
    <2>6. CASE WriteTemp(w)
        BY <2>6 DEF WriteTemp, PCs
    <2>7. CASE Replace(w)
        <3>1. \A v \in Writers : v # w => pc[v] \notin InLock
            BY <2>7, LockInv DEF Replace
        <3>2. store' = store \cup {Entry(w)}
            BY <2>7 DEF Replace, Transform
        <3> QED BY <3>1, <3>2, <2>7 DEF Replace, PCs
    <2>8. CASE Exit(w)
        BY <2>8 DEF Exit, PCs
    <2>9. CASE Raise(w)
        BY <2>9 DEF Raise, PCs
    <2>10. CASE Crash(w)
        BY <2>10 DEF Crash, PCs
    <2> QED BY <2>1, <2>2, <2>3, <2>4, <2>5, <2>6, <2>7, <2>8, <2>9, <2>10
<1> QED BY <1>1, <1>2

\* The three invariants together, for the writers that follow locked_rmw.
LEMMA Disciplined ==
    ASSUME Backend # "none", EarlyReaders = {}
    PROVE  Spec => [](TypeOK /\ LockInv /\ DataInv)
<1>1. Init => LockInv /\ DataInv
    BY DEF Init, LockInv, DataInv, InLock
<1>2. TypeOK /\ LockInv /\ DataInv /\ [Next]_vars => LockInv' /\ DataInv'
    BY LockStep, DataStep
<1> QED BY <1>1, <1>2, TypeCorrect, PTL DEF Spec

\* No acknowledged update ever leaves the store, for any number of writers,
\* updates and process deaths: the loss locked_rmw was written to retire.
THEOREM UpdatesSurvive ==
    ASSUME Backend # "none", EarlyReaders = {}
    PROVE  Spec => []NoLostUpdate
<1>1. DataInv => NoLostUpdate
    BY DEF DataInv, NoLostUpdate
<1> QED BY <1>1, Disciplined, PTL

\* The value handed to transform is never stale when it is written back
\* (locked_rmw's fresh read inside the lock).
THEOREM ReadsStayFresh ==
    ASSUME Backend # "none", EarlyReaders = {}
    PROVE  Spec => []FreshWhenWritten
<1>1. DataInv => FreshWhenWritten
    BY DEF DataInv, FreshWhenWritten
<1> QED BY <1>1, Disciplined, PTL

\* The three together: behind a real lock, with every value read inside it, the
\* store is guarded at every instant (store_guard.py).
THEOREM GuardHolds ==
    ASSUME Backend # "none", EarlyReaders = {}
    PROVE  Spec => []StoreIsGuarded
<1>1. MutualExclusion /\ NoLostUpdate /\ ReaderSeesWholeFile => StoreIsGuarded
    BY DEF StoreIsGuarded
<1> QED BY <1>1, LockExcludes, UpdatesSurvive, ReadersNeverTorn, PTL

\* locked_rmw implements a store with atomic updates: each of its steps is one
\* whole update, one acknowledgement, or invisible.
THEOREM Refinement ==
    ASSUME Backend # "none", EarlyReaders = {}
    PROVE  Spec => ImplementsAtomicStore
<1>1. Init => Atomic!Init
    BY DEF Init, Atomic!Init
<1>2. ASSUME TypeOK, CallInv, DataInv, [Next]_vars
      PROVE  [Atomic!Next]_<<store, acked>>
    <2> USE <1>2 DEF TypeOK, CallInv
    <2>1. CASE UNCHANGED vars
        BY <2>1 DEF vars
    <2>2. ASSUME NEW w \in Writers, Replace(w)
          PROVE  Atomic!Apply(Entry(w)) /\ Entry(w) \in Entries
        <3>1. Entry(w) \in Entries
            BY <2>2 DEF Replace, Entry, Entries
        <3>2. store' = store \cup {Entry(w)} /\ acked' = acked
            BY <2>2 DEF Replace, Transform, DataInv
        <3> QED BY <3>1, <3>2 DEF Atomic!Apply
    <2>3. ASSUME NEW w \in Writers, Exit(w)
          PROVE  Atomic!Acknowledge(Entry(w)) /\ Entry(w) \in Entries
        <3>1. Entry(w) \in Entries
            BY <2>3 DEF Exit, Entry, Entries
        <3>2. Entry(w) \in store
            BY <2>3 DEF Exit, DataInv
        <3> QED BY <3>1, <3>2, <2>3 DEF Exit, Atomic!Acknowledge
    <2>4. ASSUME NEW w \in Writers,
                 \/ Call(w) \/ TryAcquire(w) \/ GiveUp(w) \/ Load(w)
                 \/ MakeTemp(w) \/ WriteTemp(w) \/ Raise(w) \/ Crash(w)
          PROVE  UNCHANGED <<store, acked>>
        BY <2>4 DEF Call, TryAcquire, GiveUp, Load, MakeTemp, WriteTemp,
                    Raise, Crash
    <2> QED BY <1>2, <2>1, <2>2, <2>3, <2>4 DEF Next, Atomic!Next
<1>3. Spec => [](TypeOK /\ CallInv)
    BY TypeInit, TypeStep, PTL DEF Spec
<1>4. Spec => []DataInv
    BY Disciplined, PTL
<1> QED
    BY <1>1, <1>2, <1>3, <1>4, PTL DEF Spec, ImplementsAtomicStore, Atomic!Spec
----------------------------------------------------------------------------
(* The rulings journal.                                                    *)

\* A ruling has at most one record.
Single(rs) == \A i \in Rulings : \A q, r \in rs[i] : q = r

OrderingInv == OrderingTypeOK /\ LineageWhole /\ Single(records)

\* The rows that amend a record.
AmendRow == [event: {"supersede"}, superseded_by: Rulings]
         \cup [event: {"compile"}, predicate: Predicates, on_match: ON_MATCH]
         \cup [event: {"reopen", "reaffirm"}]

\* A row makes a record of a record.
LEMMA ApplyType ==
    ASSUME NEW r \in RulingRecord, NEW row \in AmendRow
    PROVE  Apply(r, row) \in RulingRecord
<1>1. CASE row.event = "supersede"
  BY <1>1 DEF Apply, AmendRow, RulingRecord, RulingStatuses
<1>2. CASE row.event = "compile"
  BY <1>2 DEF Apply, AmendRow, RulingRecord, RulingStatuses
<1>3. CASE row.event = "reopen"
  BY <1>3 DEF Apply, AmendRow, RulingRecord, RulingStatuses
<1>4. CASE row.event = "reaffirm"
  BY <1>4 DEF Apply, AmendRow, RulingRecord, RulingStatuses
<1> QED BY <1>1, <1>2, <1>3, <1>4 DEF AmendRow

\* Only a supersede row touches the lineage: any other keeps the successor a
\* record names and marks nothing superseded that was not.
LEMMA ApplyLineage ==
    ASSUME NEW r \in RulingRecord, NEW row \in AmendRow
    PROVE  IF row.event = "supersede"
           THEN Apply(r, row).superseded_by = row.superseded_by
           ELSE /\ Apply(r, row).superseded_by = r.superseded_by
                /\ Apply(r, row).status = "superseded" => r.status = "superseded"
<1>1. CASE row.event = "supersede"
  BY <1>1 DEF Apply, AmendRow, RulingRecord
<1>2. CASE row.event = "compile"
  BY <1>2 DEF Apply, AmendRow, RulingRecord
<1>3. CASE row.event = "reopen"
  BY <1>3 DEF Apply, AmendRow, RulingRecord
<1>4. CASE row.event = "reaffirm"
  BY <1>4 DEF Apply, AmendRow, RulingRecord
<1> QED BY <1>1, <1>2, <1>3, <1>4 DEF AmendRow

\* Amend keeps the type, empties no record, and leaves the others alone.
LEMMA AmendKeeps ==
    ASSUME NEW rs \in [Rulings -> SUBSET RulingRecord], NEW i \in Rulings,
           NEW row \in AmendRow
    PROVE  /\ Amend(rs, i, row) \in [Rulings -> SUBSET RulingRecord]
           /\ \A j \in Rulings : Amend(rs, i, row)[j] = {} <=> rs[j] = {}
           /\ \A j \in Rulings \ {i} : Amend(rs, i, row)[j] = rs[j]
           /\ Amend(rs, i, row)[i] = {Apply(r, row) : r \in rs[i]}
           /\ Single(rs) => Single(Amend(rs, i, row))
  BY ApplyType DEF Amend, Single

\* LineageWhole of any fold, of which Amend is then a function.
Whole(rs) ==
    \A i \in Rulings : \A r \in rs[i] :
        /\ r.status = "superseded" => r.superseded_by # NoRuling
        /\ r.superseded_by # NoRuling => rs[r.superseded_by] # {}

\* A row keeps the lineage whole, given that a supersede row names a ruling
\* that is in the store.
LEMMA AmendWhole ==
    ASSUME NEW rs \in [Rulings -> SUBSET RulingRecord], NEW i \in Rulings,
           NEW row \in AmendRow, Whole(rs),
           row.event = "supersede" => rs[row.superseded_by] # {}
    PROVE  Whole(Amend(rs, i, row))
<1> DEFINE new == Amend(rs, i, row)
<1>1. /\ \A j \in Rulings : new[j] = {} <=> rs[j] = {}
      /\ \A j \in Rulings \ {i} : new[j] = rs[j]
      /\ new[i] = {Apply(r, row) : r \in rs[i]}
  BY AmendKeeps
<1> HIDE DEF new
<1> SUFFICES ASSUME NEW j \in Rulings, NEW r \in new[j]
             PROVE  /\ r.status = "superseded" => r.superseded_by # NoRuling
                    /\ r.superseded_by # NoRuling => new[r.superseded_by] # {}
  BY DEF Whole, new
<1>2. CASE j # i
  <2>1. r \in rs[j] /\ r.superseded_by \in Rulings \cup {NoRuling}
    BY <1>1, <1>2 DEF RulingRecord
  <2>2. /\ r.status = "superseded" => r.superseded_by # NoRuling
        /\ r.superseded_by # NoRuling => rs[r.superseded_by] # {}
    BY <2>1, Zenon DEF Whole
  <2> QED BY <1>1, <2>1, <2>2
<1>3. CASE j = i
  <2>1. PICK q \in rs[i] : r = Apply(q, row)
    BY <1>1, <1>3
  <2>2. q \in RulingRecord /\ q.superseded_by \in Rulings \cup {NoRuling}
    BY DEF RulingRecord
  <2>3. CASE row.event = "supersede"
    <3>1. r.superseded_by = row.superseded_by
      BY <2>1, <2>2, <2>3, ApplyLineage
    <3>2. row.superseded_by \in Rulings
      BY <2>3 DEF AmendRow
    <3> QED BY <1>1, <2>3, <3>1, <3>2, NoRulingAssumption
  <2>4. CASE row.event # "supersede"
    <3>1. /\ r.superseded_by = q.superseded_by
          /\ r.status = "superseded" => q.status = "superseded"
      BY <2>1, <2>2, <2>4, ApplyLineage
    <3> QED BY <1>1, <2>2, <3>1 DEF Whole
  <2> QED BY <2>3, <2>4
<1> QED BY <1>2, <1>3
----------------------------------------------------------------------------
LEMMA OrderingInvInit == OrderingInit => OrderingInv
  BY EventsAssumption DEF OrderingInit, OrderingInv, OrderingTypeOK, LineageWhole, Single

\* A ruling keeps the invariant.  Its own row comes first: the supersede row
\* that follows finds the successor in the store.
LEMMA RuleKeeps ==
    ASSUME OrderingInv, NEW i \in Rulings, NEW pred \in Predicates,
           NEW match \in ON_MATCH, NEW old \in Rulings \cup {NoRuling},
           rule(i, pred, match, old)
    PROVE  OrderingInv'
<1> DEFINE new  == [status |-> "active", predicate |-> pred,
                    on_match |-> match, superseded_by |-> NoRuling]
           with == [records EXCEPT ![i] = {new}]
           row  == [event |-> "supersede", superseded_by |-> i]
<1>1. new \in RulingRecord
  BY DEF RulingRecord, RulingStatuses
<1>2. with \in [Rulings -> SUBSET RulingRecord] /\ with[i] = {new} /\ Single(with)
  BY <1>1 DEF OrderingInv, OrderingTypeOK, Single
<1>3. Whole(with)
  <2> SUFFICES ASSUME NEW j \in Rulings, NEW r \in with[j]
               PROVE  /\ r.status = "superseded" => r.superseded_by # NoRuling
                      /\ r.superseded_by # NoRuling => with[r.superseded_by] # {}
    BY DEF Whole
  <2>1. r \in RulingRecord
    BY <1>2
  <2>2. r.superseded_by \in Rulings \cup {NoRuling}
    BY <2>1 DEF RulingRecord
  <2>3. CASE j = i
    BY <1>2, <2>3
  <2>4. CASE j # i
    <3>1. r \in records[j]
      BY <2>4 DEF OrderingInv, OrderingTypeOK
    <3>2. \A k \in Rulings : records[k] # {} => with[k] # {}
      BY DEF OrderingInv, OrderingTypeOK
    <3> QED BY <2>2, <3>1, <3>2 DEF OrderingInv, LineageWhole
  <2> QED BY <2>3, <2>4
<1>4. row \in AmendRow /\ row.event = "supersede" /\ row.superseded_by = i
  BY DEF AmendRow
<1>5. /\ records' = IF old = NoRuling THEN with ELSE Amend(with, old, row)
      /\ asking' = asking
      /\ events' \in 0..MaxEvents
  BY EventsAssumption DEF rule, AppendRow, OrderingInv, OrderingTypeOK
<1> HIDE DEF new, with, row
<1>6. CASE old = NoRuling
  BY <1>2, <1>3, <1>5, <1>6
     DEF OrderingInv, OrderingTypeOK, LineageWhole, Whole, Single
<1>7. CASE old # NoRuling
  <2>1. old \in Rulings /\ records' = Amend(with, old, row)
    BY <1>5, <1>7
  <2>2. records' \in [Rulings -> SUBSET RulingRecord] /\ Single(records')
    BY <1>2, <1>4, <2>1, AmendKeeps
  <2>3. Whole(records')
    BY <1>2, <1>3, <1>4, <2>1, AmendWhole
  <2> QED BY <1>5, <2>2, <2>3
          DEF OrderingInv, OrderingTypeOK, LineageWhole, Whole
<1> QED BY <1>6, <1>7

\* Any other row keeps it.
LEMMA AmendingKeeps ==
    ASSUME OrderingInv, NEW i \in Rulings, NEW row \in AmendRow,
           row.event # "supersede", AppendRow,
           records' = Amend(records, i, row), asking' \subseteq asking
    PROVE  OrderingInv'
<1>1. records \in [Rulings -> SUBSET RulingRecord] /\ Whole(records) /\ Single(records)
  BY DEF OrderingInv, OrderingTypeOK, LineageWhole, Whole
<1>2. records' \in [Rulings -> SUBSET RulingRecord] /\ Single(records')
  BY <1>1, AmendKeeps
<1>3. Whole(records')
  BY <1>1, AmendWhole
<1>4. asking' \subseteq Rulings /\ events' \in 0..MaxEvents
  BY EventsAssumption DEF AppendRow, OrderingInv, OrderingTypeOK
<1> QED BY <1>2, <1>3, <1>4 DEF OrderingInv, OrderingTypeOK, LineageWhole, Whole

LEMMA OrderingInvNext == OrderingInv /\ [OrderingNext]_orderingVars => OrderingInv'
<1> SUFFICES ASSUME OrderingInv, [OrderingNext]_orderingVars PROVE OrderingInv'
  OBVIOUS
<1>1. ASSUME NEW i \in Rulings, NEW pred \in Predicates, NEW match \in ON_MATCH,
             NEW old \in Rulings \cup {NoRuling}, rule(i, pred, match, old)
      PROVE  OrderingInv'
  BY <1>1, RuleKeeps
<1>2. ASSUME NEW i \in Rulings, NEW pred \in Predicates, NEW match \in ON_MATCH,
             compile_predicate(i, pred, match)
      PROVE  OrderingInv'
  <2> DEFINE row == [event |-> "compile", predicate |-> pred, on_match |-> match]
  <2>1. row \in AmendRow /\ row.event # "supersede"
    BY DEF AmendRow
  <2>2. AppendRow /\ records' = Amend(records, i, row) /\ asking' \subseteq asking
    BY <1>2 DEF compile_predicate
  <2> QED BY <2>1, <2>2, AmendingKeeps
<1>3. ASSUME NEW i \in Rulings, reopen(i) PROVE OrderingInv'
  <2> DEFINE row == [event |-> "reopen"]
  <2>1. row \in AmendRow /\ row.event # "supersede"
    BY DEF AmendRow
  <2>2. AppendRow /\ records' = Amend(records, i, row) /\ asking' \subseteq asking
    BY <1>3 DEF reopen
  <2> QED BY <2>1, <2>2, AmendingKeeps
<1>4. ASSUME NEW i \in Rulings, ReaffirmLoad(i) PROVE OrderingInv'
  BY <1>4 DEF ReaffirmLoad, OrderingInv, OrderingTypeOK, LineageWhole, Single
<1>5. ASSUME NEW i \in Rulings, ReaffirmAppend(i) PROVE OrderingInv'
  <2> DEFINE row == [event |-> "reaffirm"]
  <2>1. row \in AmendRow /\ row.event # "supersede"
    BY DEF AmendRow
  <2>2. AppendRow /\ records' = Amend(records, i, row) /\ asking' \subseteq asking
    BY <1>5 DEF ReaffirmAppend
  <2> QED BY <2>1, <2>2, AmendingKeeps
<1>6. CASE UNCHANGED orderingVars
  BY <1>6 DEF orderingVars, OrderingInv, OrderingTypeOK, LineageWhole, Single
<1> QED BY <1>1, <1>2, <1>3, <1>4, <1>5, <1>6 DEF OrderingNext

\* The invariant holds of every state of the rulings store.
THEOREM OrderingInvariant == OrderingSpec => []OrderingInv
  BY OrderingInvInit, OrderingInvNext, PTL DEF OrderingSpec

\* However rulings are made, superseded, reopened and reaffirmed, every
\* superseded ruling names a successor that is in the store.
THEOREM LineageStaysWhole == OrderingSpec => []LineageWhole
<1>1. OrderingInv => LineageWhole
  BY DEF OrderingInv
<1> QED BY <1>1, OrderingInvariant, PTL

\* The late half of a reaffirm never revives a ruling superseded meanwhile.
THEOREM LateReaffirmIsInert == OrderingSpec => ReaffirmRevivesNothing
<1> DEFINE Inert == \A i \in asking \ asking' : \A r \in records[i] :
                        r.status = "superseded" => records'[i] = {r}
<1>1. OrderingInv /\ [OrderingNext]_orderingVars => [Inert]_orderingVars
  <2> SUFFICES ASSUME OrderingInv, OrderingNext,
                      NEW i \in asking \ asking', NEW r \in records[i],
                      r.status = "superseded"
               PROVE  records'[i] = {r}
    OBVIOUS
  <2>1. ReaffirmAppend(i)
    BY DEF OrderingNext, rule, compile_predicate, reopen, ReaffirmLoad, ReaffirmAppend
  <2>2. i \in Rulings /\ records \in [Rulings -> SUBSET RulingRecord] /\ records[i] = {r}
    BY DEF OrderingInv, OrderingTypeOK, Single
  <2>3. records'[i] = {Apply(q, [event |-> "reaffirm"]) : q \in records[i]}
    BY <2>1, <2>2 DEF ReaffirmAppend, Amend
  <2>4. Apply(r, [event |-> "reaffirm"]) = r
    BY DEF Apply
  <2> QED BY <2>2, <2>3, <2>4
<1> QED BY <1>1, OrderingInvariant, PTL DEF OrderingSpec, ReaffirmRevivesNothing
----------------------------------------------------------------------------
(* Lists: sequences of whatever they hold                                  *)

LEMMA ListDomain ==
    ASSUME NEW s, IsList(s)
    PROVE  Len(s) \in Nat /\ DOMAIN s = 1..Len(s)
BY DEF IsList

\* A function on the first n numbers is a list.
LEMMA ListOf ==
    ASSUME NEW n \in Nat, NEW f, f = [k \in 1..n |-> f[k]]
    PROVE  IsList(f) /\ Len(f) = n
<1>1. f \in [1..n -> Range(f)]
  BY DEF Range
<1>2. QED
  BY <1>1 DEF IsList

LEMMA SeqIsList ==
    ASSUME NEW U, NEW s \in Seq(U)
    PROVE  IsList(s)
<1>1. Len(s) \in Nat /\ s = [k \in 1..Len(s) |-> s[k]]
  OBVIOUS
<1>2. QED
  BY <1>1, ListOf

LEMMA EmptyList == IsList(<<>>) /\ Len(<<>>) = 0
BY DEF IsList

LEMMA OneList ==
    ASSUME NEW x
    PROVE  IsList(<<x>>) /\ Len(<<x>>) = 1 /\ <<x>>[1] = x
<1>1. <<x>> \in Seq({x}) /\ Range(<<x>>) = {x}
  BY DEF Range
<1>2. QED
  BY <1>1 DEF IsList

\* A list followed by another.
LEMMA ListConcat ==
    ASSUME NEW s, NEW t, IsList(s), IsList(t)
    PROVE  /\ IsList(s \o t) /\ Len(s \o t) = Len(s) + Len(t)
           /\ \A k \in DOMAIN s : k \in DOMAIN (s \o t) /\ (s \o t)[k] = s[k]
           /\ \A k \in DOMAIN t : /\ Len(s) + k \in DOMAIN (s \o t)
                                  /\ (s \o t)[Len(s) + k] = t[k]
<1> DEFINE U == Range(s) \cup Range(t)
<1>1. s \in Seq(U) /\ t \in Seq(U)
  BY DEF IsList
<1> HIDE DEF U
<1>2. s \o t \in Seq(U) /\ Len(s \o t) = Len(s) + Len(t) /\ Len(s) \in Nat /\ Len(t) \in Nat
  BY <1>1
<1>3. DOMAIN (s \o t) = 1..(Len(s) + Len(t)) /\ DOMAIN s = 1..Len(s) /\ DOMAIN t = 1..Len(t)
  BY <1>1, <1>2
<1>4. \A k \in 1..(Len(s) + Len(t)) :
        (s \o t)[k] = IF k <= Len(s) THEN s[k] ELSE t[k - Len(s)]
  BY <1>1
<1>5. IsList(s \o t)
  BY <1>2, SeqIsList
<1>6. \A k \in DOMAIN s : k \in DOMAIN (s \o t) /\ (s \o t)[k] = s[k]
  BY <1>2, <1>3, <1>4
<1>7. \A k \in DOMAIN t : /\ Len(s) + k \in DOMAIN (s \o t) /\ (s \o t)[Len(s) + k] = t[k]
  BY <1>2, <1>3, <1>4
<1>8. QED
  BY <1>2, <1>5, <1>6, <1>7

\* A list with one item more.
LEMMA ListAppend ==
    ASSUME NEW s, NEW x, IsList(s)
    PROVE  /\ IsList(Append(s, x)) /\ Len(Append(s, x)) = Len(s) + 1
           /\ Append(s, x)[Len(s) + 1] = x
           /\ \A k \in DOMAIN s : k \in DOMAIN Append(s, x) /\ Append(s, x)[k] = s[k]
           /\ \A k \in DOMAIN Append(s, x) : k \in DOMAIN s \/ k = Len(s) + 1
<1> DEFINE U == Range(s) \cup {x}
<1>1. s \in Seq(U) /\ x \in U
  BY DEF IsList
<1> HIDE DEF U
<1>2. /\ Append(s, x) \in Seq(U) /\ Len(Append(s, x)) = Len(s) + 1 /\ Len(s) \in Nat
      /\ DOMAIN Append(s, x) = 1..(Len(s) + 1) /\ DOMAIN s = 1..Len(s)
      /\ Append(s, x)[Len(s) + 1] = x
      /\ \A k \in DOMAIN s : Append(s, x)[k] = s[k]
  BY <1>1
<1>3. IsList(Append(s, x))
  BY <1>2, SeqIsList
<1>4. QED
  BY <1>2, <1>3

\* A bounded set of numbers has a greatest one ...
LEMMA MaxIsGreatest ==
    ASSUME NEW S \in SUBSET Nat, NEW m \in Nat, \A x \in S : x <= m, S # {}
    PROVE  Max(S) \in S /\ \A y \in S : y <= Max(S)
<1> DEFINE Above(x) == {y \in S : y > x}
           T == {Above(x) : x \in S}
<1>1. IsFiniteSet(S)
  BY FS_BoundedSetOfNaturals
<1>2. \A x \in S : Above(x) \in SUBSET S /\ IsFiniteSet(Above(x))
  BY <1>1, FS_Subset
<1>3. T \subseteq FiniteSubsetsOf(S) /\ T # {}
  BY <1>2 DEF FiniteSubsetsOf
<1>4. PICK a \in T : \A b \in T : ~ (<<b, a>> \in StrictSubsetOrdering(S))
  BY <1>1, <1>3, FS_StrictSubsetOrderingWellFounded, WFMin
<1>5. PICK x \in S : a = Above(x)
  OBVIOUS
<1>6. ASSUME NEW y \in S, y > x PROVE FALSE
  <2>1. /\ Above(y) \in T /\ y \in Above(x) /\ y \notin Above(y)
        /\ \A z \in S : z > y => z > x
    BY <1>6
  <2>2. Above(y) \subseteq Above(x)
    BY <2>1
  <2>3. <<Above(y), Above(x)>> \in StrictSubsetOrdering(S)
    BY <2>1, <2>2 DEF StrictSubsetOrdering
  <2> QED
    BY <1>4, <1>5, <2>1, <2>3
<1>7. \A y \in S : y <= x
  BY <1>6
<1> HIDE DEF T, Above
<1>8. QED
  BY <1>7 DEF Max

\* ... and any set of numbers a smallest.
LEMMA MinIsSmallest ==
    ASSUME NEW S \in SUBSET Nat, S # {}
    PROVE  Min(S) \in S /\ \A y \in S : Min(S) <= y
<1>1. PICK m \in S : TRUE
  OBVIOUS
<1> DEFINE D == {m - x : x \in {y \in S : y <= m}}
<1>2. D \in SUBSET Nat /\ (\A d \in D : d <= m) /\ D # {} /\ m \in Nat
  <2>1. m \in Nat /\ m \in {y \in S : y <= m}
    BY <1>1
  <2>2. D # {}
    BY <2>1
  <2>3. \A x \in {y \in S : y <= m} : m - x \in Nat /\ m - x <= m
    BY <2>1
  <2>4. QED
    BY <2>1, <2>2, <2>3
<1>3. \A x \in S : x <= m => m - x \in D
  OBVIOUS
<1>4. \A d \in D : \E x \in S : d = m - x
  OBVIOUS
<1> HIDE DEF D
<1>5. Max(D) \in D /\ \A d \in D : d <= Max(D)
  BY <1>2, MaxIsGreatest
<1>6. PICK x \in S : Max(D) = m - x
  BY <1>4, <1>5
<1>7. ASSUME NEW y \in S PROVE x <= y
  <2>1. CASE y <= m
    <3>1. m - y <= m - x
      BY <1>3, <1>5, <1>6, <2>1
    <3>2. QED
      BY <1>2, <3>1
  <2>2. CASE y > m
    <3>1. m - x >= 0
      BY <1>2, <1>5, <1>6
    <3>2. QED
      BY <1>2, <2>2, <3>1
  <2>3. QED
    BY <1>2, <2>1, <2>2
<1>8. QED
  BY <1>7 DEF Min
----------------------------------------------------------------------------
(* FlattenSeq: its recursion has a solution, and what the solution holds   *)

\* One step of the recursion over a list of lists.
Joined(seqs, f, i) == IF i = 1 THEN seqs[i] ELSE f[i - 1] \o seqs[i]
Joins(seqs, f, n)  == f = [i \in 1..n |-> Joined(seqs, f, i)]

LEMMA FlattenIsJoined ==
    ASSUME NEW seqs, Len(seqs) # 0
    PROVE  FlattenSeq(seqs) = (CHOOSE f : Joins(seqs, f, Len(seqs)))[Len(seqs)]
BY DEF FlattenSeq, Joins, Joined

LEMMA JoinsExists ==
    ASSUME NEW seqs, NEW n \in Nat \ {0}
    PROVE  \E f : Joins(seqs, f, n)
<1> DEFINE Bad == {i \in 1..n : ~ \E f : Joins(seqs, f, i)}
<1> SUFFICES ASSUME Bad # {} PROVE FALSE
  OBVIOUS
<1> DEFINE i == Min(Bad)
<1>1. i \in Bad /\ (\A k \in Bad : i <= k) /\ i \in 1..n
  BY MinIsSmallest
<1> HIDE DEF i
<1>2. CASE i = 1
  <2> DEFINE f == [k \in 1..1 |-> seqs[1]]
  <2>1. Joins(seqs, f, 1)
    BY DEF Joins, Joined
  <2>2. QED
    BY <1>1, <1>2, <2>1
<1>3. CASE i # 1
  <2>1. i - 1 \in 1..n /\ ~(i <= i - 1)
    BY <1>1, <1>3
  <2>2. i - 1 \notin Bad
    BY <1>1, <2>1
  <2>3. PICK g : Joins(seqs, g, i - 1)
    BY <2>1, <2>2
  <2> DEFINE f == [k \in 1..i |-> IF k = i THEN g[i - 1] \o seqs[i] ELSE g[k]]
  <2>f. f = [k \in 1..i |-> f[k]] /\ i \in Nat
        /\ \A k \in 1..i : f[k] = IF k = i THEN g[i - 1] \o seqs[i] ELSE g[k]
    BY <1>1
  <2> HIDE DEF f
  <2>4. \A k \in 1..(i - 1) : f[k] = g[k] /\ g[k] = Joined(seqs, g, k)
    <3>1. \A k \in 1..(i - 1) : k \in 1..i /\ k # i
      BY <2>f
    <3>2. \A k \in 1..(i - 1) : g[k] = Joined(seqs, g, k)
      BY <2>3 DEF Joins
    <3>3. QED
      BY <2>f, <3>1, <3>2
  <2>5. \A k \in 1..i : f[k] = Joined(seqs, f, k)
    <3> SUFFICES ASSUME NEW k \in 1..i PROVE f[k] = Joined(seqs, f, k)
      OBVIOUS
    <3>1. CASE k = i
      <4>1. f[i - 1] = g[i - 1] /\ f[i] = g[i - 1] \o seqs[i]
        <5>1. i \in 1..i /\ i - 1 \in 1..(i - 1)
          BY <1>1, <1>3, <2>f
        <5>2. QED
          BY <2>4, <2>f, <5>1
      <4>2. QED
        BY <1>3, <3>1, <4>1 DEF Joined
    <3>2. CASE k # i
      <4>1. k \in 1..(i - 1) /\ (k # 1 => k - 1 \in 1..(i - 1))
        BY <1>1, <3>2
      <4>2. f[k] = g[k] /\ g[k] = Joined(seqs, g, k) /\ (k # 1 => f[k - 1] = g[k - 1])
        BY <2>4, <4>1
      <4>3. QED
        BY <4>2 DEF Joined
    <3>3. QED
      BY <3>1, <3>2
  <2>7. Joins(seqs, f, i)
    BY <2>5, <2>f DEF Joins
  <2>8. QED
    BY <1>1, <2>7
<1>4. QED
  BY <1>2, <1>3

\* Every item of every list is in the flattened one, which is a list.
LEMMA Flattened ==
    ASSUME NEW seqs, IsList(seqs), \A k \in DOMAIN seqs : IsList(seqs[k])
    PROVE  /\ IsList(FlattenSeq(seqs))
           /\ \A k \in DOMAIN seqs : \A n \in DOMAIN seqs[k] :
                 \E m \in DOMAIN FlattenSeq(seqs) : FlattenSeq(seqs)[m] = seqs[k][n]
<1> DEFINE N == Len(seqs)
<1>1. N \in Nat /\ DOMAIN seqs = 1..N
  BY ListDomain
<1>2. CASE N = 0
  <2>1. FlattenSeq(seqs) = seqs
    BY <1>2 DEF FlattenSeq
  <2>2. QED
    BY <1>1, <1>2, <2>1
<1>3. CASE N # 0
  <2> DEFINE f == CHOOSE f : Joins(seqs, f, N)
             Covers(i) == /\ IsList(f[i])
                          /\ \A k \in 1..i : \A n \in DOMAIN seqs[k] :
                                \E m \in DOMAIN f[i] : f[i][m] = seqs[k][n]
             Bad == {i \in 1..N : ~Covers(i)}
  <2> HIDE DEF N
  <2>1. Joins(seqs, f, N)
    BY <1>1, <1>3, JoinsExists
  <2>2. FlattenSeq(seqs) = f[N]
    BY <1>3, FlattenIsJoined DEF N
  <2> HIDE DEF f
  <2>3. \A i \in 1..N : f[i] = Joined(seqs, f, i)
    BY <2>1 DEF Joins
  <2>4. ASSUME Bad # {} PROVE FALSE
    <3> DEFINE i == Min(Bad)
    <3> HIDE DEF Covers
    <3>0. Bad \in SUBSET Nat
      BY <1>1
    <3>1. i \in Bad /\ (\A k \in Bad : i <= k) /\ i \in 1..N
      BY <3>0, <2>4, MinIsSmallest
    <3> HIDE DEF i
    <3>2. IsList(seqs[i]) /\ f[i] = Joined(seqs, f, i)
      BY <1>1, <2>3, <3>1
    <3>3. CASE i = 1
      <4>1. f[i] = seqs[1] /\ \A k \in 1..i : k = 1
        BY <3>2, <3>3 DEF Joined
      <4>2. Covers(i)
        BY <3>2, <3>3, <4>1 DEF Covers
      <4>3. QED
        BY <3>1, <4>2
    <3>4. CASE i # 1
      <4> DEFINE s == f[i - 1]  t == seqs[i]
      <4>1. i - 1 \in 1..N /\ ~(i <= i - 1)
        BY <1>1, <3>1, <3>4
      <4>2. Covers(i - 1)
        BY <3>1, <4>1
      <4>3. f[i] = s \o t /\ IsList(s) /\ IsList(t)
        BY <3>2, <3>4, <4>2 DEF Joined, Covers
      <4> HIDE DEF s, t
      <4>4. ASSUME NEW k \in 1..i, NEW n \in DOMAIN seqs[k]
            PROVE  \E m \in DOMAIN f[i] : f[i][m] = seqs[k][n]
        <5>1. CASE k = i
          <6>1. n \in DOMAIN t /\ t[n] = seqs[k][n]
            BY <4>4, <5>1 DEF t
          <6>2. Len(s) + n \in DOMAIN (s \o t) /\ (s \o t)[Len(s) + n] = t[n]
            BY <4>3, <6>1, ListConcat
          <6>3. QED
            BY <4>3, <6>1, <6>2
        <5>2. CASE k # i
          <6>1. k \in 1..(i - 1)
            BY <1>1, <3>1, <5>2
          <6>2. PICK m \in DOMAIN s : s[m] = seqs[k][n]
            BY <4>2, <6>1 DEF Covers, s
          <6>3. m \in DOMAIN (s \o t) /\ (s \o t)[m] = s[m]
            BY <4>3, <6>2, ListConcat
          <6>4. QED
            BY <4>3, <6>2, <6>3
        <5>3. QED
          BY <5>1, <5>2
      <4>5. IsList(f[i])
        BY <4>3, ListConcat
      <4>6. Covers(i)
        BY <4>4, <4>5 DEF Covers
      <4>7. QED
        BY <3>1, <4>6
    <3>5. QED
      BY <3>3, <3>4
  <2>5. N \in 1..N
    BY <1>1, <1>3
  <2>6. Covers(N)
    BY <2>4, <2>5
  <2> HIDE DEF Bad
  <2>7. QED
    BY <1>1, <2>2, <2>6
<1>4. QED
  BY <1>2, <1>3
----------------------------------------------------------------------------
(* What a reading holds                                                    *)

\* What is asked of one belief is a list.
LEMMA QuestionsAreAList == \A b, git : IsList(QuestionsOf(b, git))
<1> SUFFICES ASSUME NEW b, NEW git PROVE IsList(QuestionsOf(b, git))
  OBVIOUS
<1> DEFINE ask(kind) == <<[kind |-> kind, about |-> {b.id}]>>
           gone  == IF b.missing # {} THEN ask("SUBJECT-GONE") ELSE <<>>
           moved == IF git /\ \E f \in b.subjects : files[f].commit > b.as_of
                    THEN ask("EVIDENCE-MOVED") ELSE <<>>
<1>1. \A kind : IsList(ask(kind))
  BY OneList
<1>2. IsList(gone) /\ IsList(moved)
  BY <1>1, EmptyList
<1>3. QuestionsOf(b, git) = IF b.as_of = 0 THEN ask("UNDATED") ELSE gone \o moved
  BY DEF QuestionsOf
<1> HIDE DEF ask, gone, moved
<1>4. IsList(gone \o moved)
  BY <1>2, ListConcat
<1>5. QED
  BY <1>1, <1>3, <1>4

\* A belief of which nothing is asked is dated, and nothing it rests on is gone.
LEMMA NothingAsked ==
    ASSUME NEW b, NEW git, Len(QuestionsOf(b, git)) = 0
    PROVE  b.as_of # 0 /\ b.missing = {}
<1> DEFINE ask(kind) == <<[kind |-> kind, about |-> {b.id}]>>
           gone  == IF b.missing # {} THEN ask("SUBJECT-GONE") ELSE <<>>
           moved == IF git /\ \E f \in b.subjects : files[f].commit > b.as_of
                    THEN ask("EVIDENCE-MOVED") ELSE <<>>
<1>1. \A kind : IsList(ask(kind)) /\ Len(ask(kind)) = 1
  BY OneList
<1>2. IsList(gone) /\ IsList(moved) /\ (b.missing # {} => Len(gone) = 1)
  BY <1>1, EmptyList
<1>3. QuestionsOf(b, git) = IF b.as_of = 0 THEN ask("UNDATED") ELSE gone \o moved
  BY DEF QuestionsOf
<1> HIDE DEF ask, gone, moved
<1>4. /\ Len(gone \o moved) = Len(gone) + Len(moved)
      /\ Len(gone) \in Nat /\ Len(moved) \in Nat
  BY <1>2, ListConcat, ListDomain
<1>5. b.as_of # 0
  <2> SUFFICES ASSUME b.as_of = 0 PROVE FALSE
    OBVIOUS
  <2>1. QuestionsOf(b, git) = ask("UNDATED")
    BY <1>3
  <2>2. Len(ask("UNDATED")) = 0
    BY <2>1
  <2>3. QED
    BY <1>1, <2>2
<1>6. Len(gone) + Len(moved) = 0
  BY <1>3, <1>4, <1>5
<1>7. Len(gone) # 1
  BY <1>4, <1>6
<1>8. QED
  BY <1>2, <1>5, <1>7

\* There are as many conflicts as the list of them is long.
LEMMA ConflictsListed ==
    /\ IsList(SetToSeq(Conflicts(records)))
    /\ Len(SetToSeq(Conflicts(records))) = 0 => Conflicts(records) = {}
<1> DEFINE C == Conflicts(records)
<1>1. IsFiniteSet(C) /\ Cardinality(C) \in Nat /\ (Cardinality(C) = 0 => C = {})
  <2>1. C \subseteq SUBSET Rulings
    BY DEF Conflicts, kSubset
  <2>2. IsFiniteSet(SUBSET Rulings)
    BY FS_SUBSET, BeliefsAssumption
  <2>3. IsFiniteSet(C)
    BY <2>1, <2>2, FS_Subset
  <2> HIDE DEF C
  <2>4. QED
    BY <2>3, FS_CardinalityType, FS_EmptySet
<1> HIDE DEF C
<1>2. \E f \in [1..Cardinality(C) -> C] : IsInjective(f)
  <2>1. PICK f : f \in Bijection(1..Cardinality(C), C)
    BY <1>1, FS_CardinalityType DEF ExistsBijection
  <2>2. f \in [1..Cardinality(C) -> C] /\ IsInjective(f)
    BY <2>1 DEF Bijection, Injection, IsInjective
  <2>3. QED
    BY <2>2
<1>3. SetToSeq(C) \in [1..Cardinality(C) -> C]
  BY <1>2 DEF SetToSeq
<1>4. SetToSeq(C) \in Seq(C) /\ Len(SetToSeq(C)) = Cardinality(C)
  BY <1>1, <1>3
<1>5. IsList(SetToSeq(C))
  BY <1>4, SeqIsList
<1>6. QED
  BY <1>1, <1>4, <1>5 DEF C

\* Every source reads as a list of beliefs; the rulings, one of every row.
LEMMA SourceIsAList ==
    ASSUME NEW s, s.kind \in KINDS, IsList(journal)
    PROVE  /\ IsList(ReadSource(s))
           /\ s.kind = "ruling" => ReadSource(s) = ReadRecords(s.vc)
<1>1. IsList(ReadRecords(s.vc)) /\ IsList(ReadMemoryTopics(s)) /\ IsList(ReadCarrier(s))
  <2>1. Len(journal) \in Nat /\ DOMAIN journal = 1..Len(journal)
    BY ListDomain
  <2>2. ReadRecords(s.vc) = [k \in 1..Len(journal) |-> ReadRecords(s.vc)[k]]
    BY <2>1 DEF ReadRecords
  <2>3. IsList(ReadRecords(s.vc))
    BY <2>1, <2>2, ListOf
  <2>4. IsList(ReadMemoryTopics(s))
    BY OneList DEF ReadMemoryTopics
  <2>5. IsList(ReadCarrier(s))
    BY OneList, EmptyList DEF ReadCarrier
  <2>6. QED
    BY <2>3, <2>4, <2>5
<1>2. s.kind \in {"ruling", "anchor", "briefing", "memory_topic"}
  BY DEF KINDS, EVALUABLE_FALSIFIERS
<1>3. CASE s.kind = "ruling"
  BY <1>1, <1>3 DEF ReadSource
<1>4. CASE s.kind = "memory_topic"
  BY <1>1, <1>4 DEF ReadSource
<1>5. CASE s.kind \in {"anchor", "briefing"}
  BY <1>1, <1>5 DEF ReadSource
<1>6. QED
  BY <1>2, <1>3, <1>4, <1>5

\* A ruling's row read as a belief that has nothing missing rests on files that
\* are there, are the node's own, or are somewhere else in the repository.
LEMMA NothingMissing ==
    ASSUME NEW vc, NEW n \in DOMAIN journal, ReadRecords(vc)[n].missing = {}
    PROVE  \A f \in journal[n].evidence :
              files[f].present \/ f \in NodeLocal \/ f \in DOMAIN Elsewhere
<1> SUFFICES ASSUME NEW f \in journal[n].evidence,
                    ~files[f].present, f \notin NodeLocal, f \notin DOMAIN Elsewhere
             PROVE  FALSE
  OBVIOUS
<1>1. Classify(f, vc) = "missing"
  BY DEF Classify
<1>2. f \in ReadRecords(vc)[n].missing
  BY <1>1 DEF ReadRecords, Belief
<1>3. QED
  BY <1>2

\* What a reading without a question and without an unread source has read.
Sound(over) ==
    /\ (\E s \in over : s.kind = "ruling") =>
          \A n \in DOMAIN journal :
              /\ journal[n].date # 0
              /\ \A f \in journal[n].evidence :
                    files[f].present \/ f \in NodeLocal \/ f \in DOMAIN Elsewhere
    /\ (\E s \in over : "CONFLICT" \in s.falsifiers) => Conflicts(records) = {}

ReadingHolds(r) ==
    /\ r = [unreadable |-> r.unreadable, over |-> r.over, open |-> r.open, ids |-> r.ids]
    /\ r.open \in Nat
    /\ r.open = 0 /\ ~r.unreadable => Sound(r.over)

LEMMA ReadingIsSound ==
    ASSUME NEW sources, IsList(sources), \A k \in DOMAIN sources : sources[k].kind \in KINDS,
           NEW roots, NEW broken, NEW git, IsList(journal)
    PROVE  ReadingHolds(TakeReading(sources, roots, broken, git))
           /\ TakeReading(sources, roots, broken, git).over = Range(sources)
<1> DEFINE read(s)   == s.base \in roots /\ s.id \notin broken
           parts     == [k \in DOMAIN sources |->
                            IF read(sources[k]) THEN ReadSource(sources[k]) ELSE <<>>]
           beliefs   == FlattenSeq(parts)
           conflicts == IF \E s \in Range(sources) : "CONFLICT" \in s.falsifiers
                        THEN SetToSeq(Conflicts(records)) ELSE <<>>
           asked     == [k \in DOMAIN beliefs |-> QuestionsOf(beliefs[k], git)]
           pairs     == [k \in DOMAIN conflicts |-> [kind |-> "CONFLICT", about |-> conflicts[k]]]
           asks      == FlattenSeq(asked) \o pairs
           ids       == Range(SubSeq(asks, 1, IF Len(asks) < MAX_IDS THEN Len(asks) ELSE MAX_IDS))
           unread    == (\E s \in Range(sources) : ~read(s))
                        \/ (~git /\ \E k \in DOMAIN beliefs : beliefs[k].subjects # {})
           r         == TakeReading(sources, roots, broken, git)
<1>1. r = [unreadable |-> unread, over |-> Range(sources), open |-> Len(asks), ids |-> ids]
  BY DEF TakeReading
<1>2. IsList(parts) /\ DOMAIN parts = DOMAIN sources /\ \A k \in DOMAIN parts : IsList(parts[k])
  <2>1. Len(sources) \in Nat /\ DOMAIN sources = 1..Len(sources)
    BY ListDomain
  <2>2. parts = [k \in 1..Len(sources) |-> parts[k]] /\ DOMAIN parts = DOMAIN sources
    BY <2>1
  <2>3. \A k \in DOMAIN sources : IsList(parts[k])
    BY SourceIsAList, EmptyList
  <2> HIDE DEF parts
  <2>4. QED
    BY <2>1, <2>2, <2>3, ListOf
<1>3. \A k \in DOMAIN sources : read(sources[k]) => parts[k] = ReadSource(sources[k])
  OBVIOUS
<1> HIDE DEF parts
<1>4. /\ IsList(beliefs)
      /\ \A k \in DOMAIN parts : \A n \in DOMAIN parts[k] :
            \E m \in DOMAIN beliefs : beliefs[m] = parts[k][n]
  BY <1>2, Flattened
<1> HIDE DEF beliefs
<1>5. IsList(asked) /\ DOMAIN asked = DOMAIN beliefs
      /\ \A k \in DOMAIN beliefs : asked[k] = QuestionsOf(beliefs[k], git) /\ IsList(asked[k])
  <2>1. Len(beliefs) \in Nat /\ DOMAIN beliefs = 1..Len(beliefs)
    BY <1>4, ListDomain
  <2>2. asked = [k \in 1..Len(beliefs) |-> asked[k]] /\ DOMAIN asked = DOMAIN beliefs
        /\ \A k \in DOMAIN beliefs : asked[k] = QuestionsOf(beliefs[k], git)
    BY <2>1
  <2> HIDE DEF asked
  <2>3. QED
    BY <2>1, <2>2, ListOf, QuestionsAreAList
<1>6. IsList(conflicts)
      /\ ((\E s \in Range(sources) : "CONFLICT" \in s.falsifiers) /\ Len(conflicts) = 0
            => Conflicts(records) = {})
  BY ConflictsListed, EmptyList
<1> HIDE DEF conflicts
<1>7. IsList(pairs) /\ Len(pairs) = Len(conflicts)
  <2>1. Len(conflicts) \in Nat /\ DOMAIN conflicts = 1..Len(conflicts)
    BY <1>6, ListDomain
  <2>2. pairs = [k \in 1..Len(conflicts) |-> pairs[k]]
    BY <2>1
  <2> HIDE DEF pairs
  <2>3. QED
    BY <2>1, <2>2, ListOf
<1> HIDE DEF asked, pairs
<1>8. /\ IsList(FlattenSeq(asked))
      /\ \A k \in DOMAIN asked : \A n \in DOMAIN asked[k] :
            \E m \in DOMAIN FlattenSeq(asked) : FlattenSeq(asked)[m] = asked[k][n]
  BY <1>5, Flattened
<1>9. /\ IsList(asks) /\ Len(asks) = Len(FlattenSeq(asked)) + Len(pairs)
      /\ Len(FlattenSeq(asked)) \in Nat /\ Len(pairs) \in Nat /\ Len(asks) \in Nat
      /\ DOMAIN FlattenSeq(asked) = 1..Len(FlattenSeq(asked))
  BY <1>7, <1>8, ListConcat, ListDomain
<1> HIDE DEF asks, ids
<1>10. ASSUME Len(asks) = 0, ~unread PROVE Sound(Range(sources))
  <2>1. Len(FlattenSeq(asked)) = 0 /\ Len(pairs) = 0
    BY <1>9, <1>10
  <2>2. (\E s \in Range(sources) : "CONFLICT" \in s.falsifiers) => Conflicts(records) = {}
    BY <1>6, <1>7, <2>1
  <2>3. ASSUME NEW s \in Range(sources), s.kind = "ruling", NEW n \in DOMAIN journal
        PROVE  /\ journal[n].date # 0
               /\ \A f \in journal[n].evidence :
                     files[f].present \/ f \in NodeLocal \/ f \in DOMAIN Elsewhere
    <3>1. PICK k \in DOMAIN sources : sources[k] = s
      BY DEF Range
    <3>2. parts[k] = ReadSource(s) /\ ReadSource(s) = ReadRecords(s.vc)
      BY <1>3, <1>10, <2>3, <3>1, SourceIsAList
    <3>3. n \in DOMAIN ReadRecords(s.vc) /\ ReadRecords(s.vc)[n].as_of = journal[n].date
      BY DEF ReadRecords, Belief
    <3>4. PICK m \in DOMAIN beliefs : beliefs[m] = ReadRecords(s.vc)[n]
      BY <1>2, <1>4, <3>1, <3>2, <3>3
    <3>5. DOMAIN asked[m] = {}
      BY <1>5, <1>8, <1>9, <2>1
    <3>6. Len(QuestionsOf(beliefs[m], git)) = 0
      <4>1. Len(asked[m]) \in Nat /\ DOMAIN asked[m] = 1..Len(asked[m])
        BY <1>5, ListDomain
      <4>2. Len(asked[m]) = 0
        <5> SUFFICES ASSUME Len(asked[m]) # 0 PROVE FALSE
          OBVIOUS
        <5>1. 1 \in DOMAIN asked[m]
          BY <4>1
        <5>2. QED
          BY <3>5, <5>1
      <4>3. QED
        BY <1>5, <4>2
    <3>7. beliefs[m].as_of # 0 /\ beliefs[m].missing = {}
      BY <3>6, NothingAsked
    <3>8. QED
      BY <3>3, <3>4, <3>7, NothingMissing
  <2>4. QED
    BY <2>2, <2>3 DEF Sound
<1> HIDE DEF unread, r
<1>11. /\ r.unreadable = unread /\ r.over = Range(sources) /\ r.open = Len(asks) /\ r.ids = ids
  BY <1>1
<1>12. ReadingHolds(r)
  <2>1. r = [unreadable |-> r.unreadable, over |-> r.over, open |-> r.open, ids |-> r.ids]
    BY <1>1, <1>11
  <2>2. r.open \in Nat
    BY <1>9, <1>11
  <2>3. r.open = 0 /\ ~r.unreadable => Sound(r.over)
    BY <1>10, <1>11
  <2>4. QED
    BY <2>1, <2>2, <2>3 DEF ReadingHolds
<1>13. QED
  BY <1>11, <1>12 DEF r
----------------------------------------------------------------------------
(* The invariant                                                           *)

\* What a reading says of the history h it was judged by.
Judged(r, h) ==
    /\ r.seen \in 0..Len(h) /\ r.open \in Nat
    /\ r.verdict \in {"ATTENTION", "CURRENT"} =>
          \A j \in 1..r.seen : \/ h[j].corrupt \/ h[j].verdict = "DEGRADED"
                               \/ r.open <= h[j].open + DECAY_TOLERANCE

\* What a reading of the answers says of the readings l and the rows j it read.
Answered(a, l, j) ==
    /\ a.runs \in 0..Len(l) /\ a.rows \in 0..Len(j)
    /\ a.verdict = "HEALTHY" =>
        LET runs == {k \in 1..a.runs : ~l[k].corrupt}
        IN  \A k \in runs : \A q \in l[k].ids \ l[Max(runs)].ids :
               (\E n \in 1..a.rows : j[n].event = "rule" /\ j[n].id \in q.about)
               => \E n \in 1..a.rows : /\ j[n].id \in q.about
                                       /\ j[n].event \in {"supersede", "reaffirm", "reopen"}
                                       /\ \E i \in runs : /\ i <= k /\ q \in l[i].ids
                                                          /\ j[n].at >= l[i].as_of

Lists == IsList(journal) /\ IsList(ledger) /\ IsList(answers) /\ IsList(register)

\* A binding in force was accepted whole.
Bound == binding = <<>> \/ \E t \in Templates : binding = <<t>> /\ BindingHolds(t)

\* A ruling in the fold was made by a row of the journal.
Ruled == \A i \in Rulings : records[i] # {} => \E n \in DOMAIN journal : journal[n].id = i

Readings ==
    /\ \A r \in inflight :
          /\ Judged(r, ledger)
          /\ r = [corrupt |-> r.corrupt, as_of |-> r.as_of, verdict |-> r.verdict,
                  over |-> r.over, open |-> r.open, ids |-> r.ids, seen |-> r.seen]
    /\ \A k \in DOMAIN ledger : Judged(ledger[k], ledger)

BeliefsInv ==
    /\ OrderingInv /\ Lists /\ Bound /\ Ruled /\ Readings
    /\ \A n \in DOMAIN answers : Answered(answers[n], ledger, journal)

\* t is s with nothing changed and perhaps more at its end.
Grows(s, t) == /\ IsList(s) /\ IsList(t) /\ Len(s) <= Len(t)
               /\ \A k \in DOMAIN s : t[k] = s[k]

LEMMA ConcatGrows ==
    ASSUME NEW s, NEW t, IsList(s), IsList(t)
    PROVE  Grows(s, s \o t) /\ \A k \in DOMAIN s : k \in DOMAIN (s \o t)
<1>1. Len(s) \in Nat /\ Len(t) \in Nat /\ Len(s \o t) = Len(s) + Len(t)
  BY ListConcat, ListDomain
<1>2. QED
  BY <1>1, ListConcat DEF Grows

LEMMA AppendGrows ==
    ASSUME NEW s, NEW x, IsList(s)
    PROVE  Grows(s, Append(s, x))
<1>1. Len(s) \in Nat /\ Len(Append(s, x)) = Len(s) + 1
  BY ListAppend, ListDomain
<1>2. QED
  BY <1>1, ListAppend DEF Grows

LEMMA SameGrows == \A s : IsList(s) => Grows(s, s)
<1>1. \A s : IsList(s) => Len(s) \in Nat
  BY ListDomain
<1>2. QED
  BY <1>1 DEF Grows

\* What was said of a history stays true as it grows.
LEMMA JudgedStays ==
    ASSUME NEW r, NEW h, NEW g, Judged(r, h), Grows(h, g)
    PROVE  Judged(r, g)
<1>1. /\ Len(h) \in Nat /\ Len(g) \in Nat /\ DOMAIN h = 1..Len(h) /\ Len(h) <= Len(g)
  BY ListDomain DEF Grows
<1>2. r.seen \in 0..Len(g) /\ \A j \in 1..r.seen : j \in DOMAIN h
  BY <1>1 DEF Judged
<1>3. \A j \in 1..r.seen : g[j] = h[j]
  BY <1>2 DEF Grows
<1>4. QED
  BY <1>2, <1>3 DEF Judged

LEMMA AnsweredStays ==
    ASSUME NEW a, NEW l, NEW m, NEW j, NEW i, Answered(a, l, j), Grows(l, m), Grows(j, i)
    PROVE  Answered(a, m, i)
<1>1. /\ Len(l) \in Nat /\ Len(m) \in Nat /\ DOMAIN l = 1..Len(l) /\ Len(l) <= Len(m)
      /\ Len(j) \in Nat /\ Len(i) \in Nat /\ DOMAIN j = 1..Len(j) /\ Len(j) <= Len(i)
  BY ListDomain DEF Grows
<1>2. /\ a.runs \in 0..Len(m) /\ \A k \in 1..a.runs : k \in DOMAIN l
      /\ a.rows \in 0..Len(i) /\ \A n \in 1..a.rows : n \in DOMAIN j
  BY <1>1 DEF Answered
<1>3. (\A k \in 1..a.runs : m[k] = l[k]) /\ (\A n \in 1..a.rows : i[n] = j[n])
  BY <1>2 DEF Grows
<1> DEFINE runs == {k \in 1..a.runs : ~l[k].corrupt}
<1>4. runs = {k \in 1..a.runs : ~m[k].corrupt}
  BY <1>3
<1>5. ASSUME NEW k \in runs PROVE l[Max(runs)] = m[Max(runs)] /\ Max(runs) \in runs
  <2>1. runs \in SUBSET Nat /\ a.runs \in Nat /\ (\A x \in runs : x <= a.runs) /\ runs # {}
    BY <1>1, <1>2, <1>5
  <2>2. Max(runs) \in runs
    BY <2>1, MaxIsGreatest
  <2>3. QED
    BY <1>3, <2>2
<1>6. ASSUME a.verdict = "HEALTHY", NEW k \in runs, NEW q \in m[k].ids \ m[Max(runs)].ids,
             \E n \in 1..a.rows : i[n].event = "rule" /\ i[n].id \in q.about
      PROVE  \E n \in 1..a.rows : /\ i[n].id \in q.about
                                  /\ i[n].event \in {"supersede", "reaffirm", "reopen"}
                                  /\ \E x \in runs : /\ x <= k /\ q \in m[x].ids
                                                     /\ i[n].at >= m[x].as_of
  <2>1. q \in l[k].ids \ l[Max(runs)].ids
    BY <1>3, <1>5, <1>6
  <2>2. \E n \in 1..a.rows : j[n].event = "rule" /\ j[n].id \in q.about
    BY <1>3, <1>6
  <2>3. PICK n \in 1..a.rows : /\ j[n].id \in q.about
                               /\ j[n].event \in {"supersede", "reaffirm", "reopen"}
                               /\ \E x \in runs : /\ x <= k /\ q \in l[x].ids
                                                  /\ j[n].at >= l[x].as_of
    BY <1>6, <2>1, <2>2 DEF Answered
  <2>4. QED
    BY <1>3, <2>3
<1> HIDE DEF runs
<1>7. QED
  BY <1>2, <1>4, <1>6 DEF Answered
----------------------------------------------------------------------------
(* The steps                                                               *)

\* A step that writes no row and touches no reader.
LEMMA WorldKeeps ==
    ASSUME BeliefsInv, UNCHANGED <<orderingVars, journal, ledger, answers, register>>,
           inflight' = inflight, Bound'
    PROVE  BeliefsInv'
<1>1. OrderingInv'
  BY DEF BeliefsInv, OrderingInv, OrderingTypeOK, LineageWhole, Single, orderingVars
<1>2. QED
  BY <1>1 DEF BeliefsInv, Lists, Ruled, Readings, orderingVars

\* Rows are appended to the journal, with what they do to the fold.
LEMMA RowsKeep ==
    ASSUME BeliefsInv, NEW rows, IsList(rows), Write(rows), OrderingNext,
           \A i \in Rulings : records[i] = {} /\ records'[i] # {} =>
               \E n \in DOMAIN rows : rows[n].id = i
    PROVE  BeliefsInv'
<1>1. /\ journal' = journal \o rows /\ IsList(journal) /\ UNCHANGED readerVars
      /\ UNCHANGED <<binding, inflight, ledger, answers, register>>
  BY DEF Write, BeliefsInv, Lists, readerVars
<1>2. /\ Grows(journal, journal') /\ IsList(journal')
      /\ \A n \in DOMAIN journal : n \in DOMAIN journal' /\ journal'[n] = journal[n]
      /\ \A n \in DOMAIN rows : Len(journal) + n \in DOMAIN journal'
                                 /\ journal'[Len(journal) + n] = rows[n]
  BY <1>1, ConcatGrows, ListConcat
<1>3. OrderingInv'
  BY OrderingInvNext DEF BeliefsInv
<1>4. Ruled'
  <2> SUFFICES ASSUME NEW i \in Rulings, records'[i] # {}
               PROVE  \E n \in DOMAIN journal' : journal'[n].id = i
    BY DEF Ruled
  <2>1. CASE records[i] = {}
    BY <1>2, <2>1
  <2>2. CASE records[i] # {}
    BY <1>2, <2>2 DEF BeliefsInv, Ruled
  <2>3. QED
    BY <2>1, <2>2
<1>5. Grows(ledger, ledger)
  BY SameGrows DEF BeliefsInv, Lists
<1>6. \A n \in DOMAIN answers : Answered(answers[n], ledger, journal')
  BY <1>2, <1>5, AnsweredStays DEF BeliefsInv
<1>7. Lists' /\ Bound' /\ Readings'
  BY <1>1, <1>2 DEF BeliefsInv, Lists, Bound, Readings
<1>8. (\A n \in DOMAIN answers : Answered(answers[n], ledger, journal))'
  BY <1>1, <1>6
<1>9. QED
  BY <1>3, <1>4, <1>7, <1>8 DEF BeliefsInv

\* What is done to a ruling keeps the invariant.
LEMMA RulingsKeep ==
    ASSUME BeliefsInv, NEW i \in Rulings,
           \/ \E pred \in Predicates, match \in ON_MATCH, old \in Rulings \cup {NoRuling},
                 dated \in BOOLEAN, evidence \in SUBSET Subjects :
                 RuleOn(i, pred, match, old, dated, evidence)
           \/ \E pred \in Predicates, match \in ON_MATCH : CompileOn(i, pred, match)
           \/ ReopenOn(i) \/ ReaffirmOn(i)
    PROVE  BeliefsInv'
<1>o. OrderingInv
  BY DEF BeliefsInv
<1>1. ASSUME NEW pred \in Predicates, NEW match \in ON_MATCH,
             NEW old \in Rulings \cup {NoRuling}, NEW dated, NEW evidence,
             RuleOn(i, pred, match, old, dated, evidence)
      PROVE  BeliefsInv'
  <2> DEFINE first == [Row("rule", i) EXCEPT !.date = IF dated THEN day ELSE 0,
                                             !.evidence = evidence]
             more  == IF old = NoRuling THEN <<>> ELSE <<Row("supersede", old)>>
  <2>1. first.id = i
    BY DEF Row
  <2>2. rule(i, pred, match, old) /\ Write(<<first>> \o more)
    BY <1>1 DEF RuleOn
  <2>3. IsList(more)
    BY EmptyList, OneList
  <2> HIDE DEF first, more
  <2>4. /\ IsList(<<first>> \o more)
        /\ \E n \in DOMAIN (<<first>> \o more) : (<<first>> \o more)[n].id = i
    <3>1. IsList(<<first>>) /\ 1 \in DOMAIN <<first>> /\ <<first>>[1] = first
      BY OneList
    <3>2. 1 \in DOMAIN (<<first>> \o more) /\ (<<first>> \o more)[1] = first
      BY <2>3, <3>1, ListConcat
    <3>3. QED
      BY <2>1, <2>3, <3>1, <3>2, ListConcat
  <2>5. OrderingNext
    BY <2>2 DEF OrderingNext
  <2>6. \A j \in Rulings : j # i /\ records[j] = {} => records'[j] = {}
    <3> SUFFICES ASSUME NEW j \in Rulings, j # i, records[j] = {} PROVE records'[j] = {}
      OBVIOUS
    <3> DEFINE new  == [status |-> "active", predicate |-> pred,
                        on_match |-> match, superseded_by |-> NoRuling]
               with == [records EXCEPT ![i] = {new}]
               row  == [event |-> "supersede", superseded_by |-> i]
    <3>1. records' = IF old = NoRuling THEN with ELSE Amend(with, old, row)
      BY <2>2 DEF rule
    <3>2. with[j] = {} /\ DOMAIN with = Rulings
      BY <1>o DEF OrderingInv, OrderingTypeOK
    <3> HIDE DEF with, row
    <3>3. QED
      BY <3>1, <3>2 DEF Amend
  <2>7. QED
    BY <2>2, <2>4, <2>5, <2>6, RowsKeep
<1>2. ASSUME NEW row, records' = Amend(records, i, row)
      PROVE  \A j \in Rulings : records[j] = {} => records'[j] = {}
  BY <1>o, <1>2 DEF Amend, OrderingInv, OrderingTypeOK
<1>3. ASSUME NEW pred \in Predicates, NEW match \in ON_MATCH, CompileOn(i, pred, match)
      PROVE  BeliefsInv'
  <2>1. OrderingNext /\ Write(<<Row("compile", i)>>)
    BY <1>3 DEF CompileOn, OrderingNext
  <2>2. \A j \in Rulings : records[j] = {} => records'[j] = {}
    BY <1>2, <1>3 DEF CompileOn, compile_predicate
  <2>3. QED
    BY <2>1, <2>2, OneList, RowsKeep
<1>4. ASSUME ReopenOn(i) PROVE BeliefsInv'
  <2>1. OrderingNext /\ Write(<<Row("reopen", i)>>)
    BY <1>4 DEF ReopenOn, OrderingNext
  <2>2. \A j \in Rulings : records[j] = {} => records'[j] = {}
    BY <1>2, <1>4 DEF ReopenOn, reopen
  <2>3. QED
    BY <2>1, <2>2, OneList, RowsKeep
<1>5. ASSUME ReaffirmLoad(i), Write(<<>>) PROVE BeliefsInv'
  <2>1. OrderingNext /\ records' = records
    BY <1>5 DEF ReaffirmLoad, OrderingNext
  <2>2. QED
    BY <1>5, <2>1, EmptyList, RowsKeep
<1>6. ASSUME ReaffirmAppend(i), Write(<<Row("reaffirm", i)>>) PROVE BeliefsInv'
  <2>1. OrderingNext
    BY <1>6 DEF OrderingNext
  <2>2. \A j \in Rulings : records[j] = {} => records'[j] = {}
    BY <1>2, <1>6 DEF ReaffirmAppend
  <2>3. QED
    BY <1>6, <2>1, <2>2, OneList, RowsKeep
<1>7. QED
  BY <1>1, <1>3, <1>4, <1>5, <1>6 DEF ReaffirmOn

\* A template is bound once it was accepted whole.
LEMMA BindKeeps ==
    ASSUME BeliefsInv, NEW t \in Templates, BindTemplate(t)
    PROVE  BeliefsInv'
<1>1. BindingHolds(t) /\ binding' = <<t>>
      /\ UNCHANGED <<orderingVars, journal, inflight, ledger, answers, register>>
  BY DEF BindTemplate
<1>2. Bound'
  BY <1>1 DEF Bound, BindingHolds, SourceHolds
<1>3. QED
  BY <1>1, <1>2, WorldKeeps

\* The verdict on a reading tells what it says of the history.
LEMMA PostureJudges ==
    ASSUME NEW r, r.open \in Nat, NEW h, IsList(h), \A k \in DOMAIN h : h[k].open \in Nat,
           Posture(r, h) \in {"ATTENTION", "CURRENT"}
    PROVE  \A j \in DOMAIN h : \/ h[j].corrupt \/ h[j].verdict = "DEGRADED"
                               \/ r.open <= h[j].open + DECAY_TOLERANCE
<1> DEFINE clean == CleanReadings(h)
           opens == {h[k].open : k \in clean}
<1> SUFFICES ASSUME NEW j \in DOMAIN h, ~h[j].corrupt, h[j].verdict # "DEGRADED"
             PROVE  r.open <= h[j].open + DECAY_TOLERANCE
  OBVIOUS
<1>1. j \in clean
  BY DEF CleanReadings
<1>2. opens \in SUBSET Nat /\ h[j].open \in opens
  BY <1>1 DEF CleanReadings
<1> HIDE DEF opens
<1>3. Min(opens) \in Nat /\ Min(opens) <= h[j].open
  BY <1>2, MinIsSmallest
<1>4. ~(r.open > Min(opens) + DECAY_TOLERANCE)
  <2> SUFFICES ASSUME r.open > Min(opens) + DECAY_TOLERANCE PROVE FALSE
    OBVIOUS
  <2>1. clean # {}
    BY <1>1
  <2>2. Posture(r, h) \in {"DEGRADED", "DECAYING"}
    BY <2>1 DEF Posture, opens
  <2>3. QED
    BY <2>2
<1>5. QED
  BY <1>2, <1>3, <1>4, BeliefsAssumption

\* A reading is taken and judged.
LEMMA HoldKeeps ==
    ASSUME BeliefsInv, NEW r, r.open \in Nat, Hold(r)
    PROVE  BeliefsInv'
<1> DEFINE new == [corrupt |-> FALSE, as_of |-> day, verdict |-> Posture(r, ledger),
                   over |-> r.over, open |-> r.open, ids |-> r.ids, seen |-> Len(ledger)]
<1>1. /\ inflight' = inflight \cup {new}
      /\ UNCHANGED <<orderingVars, worldVars, journal, binding, ledger, answers, register>>
  BY DEF Hold
<1>2. IsList(ledger) /\ Len(ledger) \in Nat /\ DOMAIN ledger = 1..Len(ledger)
  BY ListDomain DEF BeliefsInv, Lists
<1>3. \A k \in DOMAIN ledger : ledger[k].open \in Nat
  BY DEF BeliefsInv, Readings, Judged
<1>4. /\ new.verdict = Posture(r, ledger) /\ new.open = r.open /\ new.seen = Len(ledger)
      /\ new = [corrupt |-> new.corrupt, as_of |-> new.as_of, verdict |-> new.verdict,
                over |-> new.over, open |-> new.open, ids |-> new.ids, seen |-> new.seen]
  OBVIOUS
<1> HIDE DEF new
<1>5. Judged(new, ledger)
  BY <1>2, <1>3, <1>4, PostureJudges DEF Judged
<1>6. Readings'
  BY <1>1, <1>4, <1>5 DEF BeliefsInv, Readings
<1>7. OrderingInv'
  BY <1>1 DEF BeliefsInv, OrderingInv, OrderingTypeOK, LineageWhole, Single, orderingVars
<1>8. QED
  BY <1>1, <1>6, <1>7 DEF BeliefsInv, Lists, Bound, Ruled, orderingVars

\* A reading under way is appended, whole or torn.
LEMMA AppendKeeps ==
    ASSUME BeliefsInv, NEW r, NEW torn \in BOOLEAN, AppendReading(r, torn)
    PROVE  BeliefsInv'
<1> DEFINE row == IF torn THEN [r EXCEPT !.corrupt = TRUE, !.ids = {}] ELSE r
<1>1. /\ r \in inflight /\ ledger' = Append(ledger, row) /\ inflight' = inflight \ {r}
      /\ UNCHANGED <<orderingVars, worldVars, journal, binding, answers, register>>
  BY DEF AppendReading
<1>2. row.open = r.open /\ row.seen = r.seen /\ row.verdict = r.verdict
  BY <1>1 DEF BeliefsInv, Readings
<1>3. Judged(r, ledger) /\ IsList(ledger)
  BY <1>1 DEF BeliefsInv, Readings, Lists
<1>4. Judged(row, ledger)
  BY <1>2, <1>3 DEF Judged
<1> HIDE DEF row
<1>5. /\ Grows(ledger, ledger') /\ IsList(ledger') /\ ledger'[Len(ledger) + 1] = row
      /\ \A k \in DOMAIN ledger : ledger'[k] = ledger[k]
      /\ \A k \in DOMAIN ledger' : k \in DOMAIN ledger \/ k = Len(ledger) + 1
  BY <1>1, <1>3, AppendGrows, ListAppend
<1>6. ASSUME NEW k \in DOMAIN ledger' PROVE Judged(ledger'[k], ledger')
  <2>1. CASE k \in DOMAIN ledger
    <3>1. Judged(ledger[k], ledger)
      BY <2>1 DEF BeliefsInv, Readings
    <3>2. QED
      BY <1>5, <2>1, <3>1, JudgedStays
  <2>2. CASE k = Len(ledger) + 1
    BY <1>4, <1>5, <2>2, JudgedStays
  <2>3. QED
    BY <1>5, <2>1, <2>2
<1>7. \A x \in inflight : Judged(x, ledger')
  BY <1>5, JudgedStays DEF BeliefsInv, Readings
<1>8. Readings'
  BY <1>1, <1>6, <1>7 DEF BeliefsInv, Readings
<1>9. Grows(journal, journal)
  BY SameGrows DEF BeliefsInv, Lists
<1>10. \A n \in DOMAIN answers : Answered(answers[n], ledger', journal)
  BY <1>5, <1>9, AnsweredStays DEF BeliefsInv
<1>11. (\A n \in DOMAIN answers : Answered(answers[n], ledger, journal))'
  BY <1>1, <1>10
<1>12. OrderingInv'
  BY <1>1 DEF BeliefsInv, OrderingInv, OrderingTypeOK, LineageWhole, Single, orderingVars
<1>13. QED
  BY <1>1, <1>5, <1>8, <1>11, <1>12 DEF BeliefsInv, Lists, Bound, Ruled, orderingVars

\* A question about a ruling that the last run no longer asks, and that is not
\* closed in silence, has a row.
LEMMA NotSilent ==
    ASSUME NEW k \in Runs, NEW q \in ledger[k].ids, q \notin ledger[Max(Runs)].ids,
           IsList(ledger), IsList(journal), QuestionState(q) # "silent_close",
           \E n \in DOMAIN journal : journal[n].event = "rule" /\ journal[n].id \in q.about
    PROVE  \E n \in DOMAIN journal :
               /\ journal[n].id \in q.about
               /\ journal[n].event \in {"supersede", "reaffirm", "reopen"}
               /\ \E i \in Runs : i <= k /\ q \in ledger[i].ids /\ journal[n].at >= ledger[i].as_of
<1> DEFINE asked == {i \in Runs : q \in ledger[i].ids}
           i == Min(asked)
           rows == EventsFor(q, ledger[i].as_of)
<1>1. asked \in SUBSET Nat /\ k \in asked
  BY ListDomain DEF Runs
<1> HIDE DEF asked
<1>2. i \in asked /\ i <= k
  BY <1>1, MinIsSmallest
<1>3. i \in Runs /\ q \in ledger[i].ids
  BY <1>2 DEF asked
<1>4. rows # {}
  <2> SUFFICES ASSUME rows = {} PROVE FALSE
    OBVIOUS
  <2>1. QuestionState(q) = "silent_close"
    BY DEF QuestionState, asked
  <2>2. QED
    BY <2>1
<1>5. PICK n \in rows : TRUE
  BY <1>4
<1>6. /\ n \in DOMAIN journal /\ {journal[n].id} = q.about /\ journal[n].at >= ledger[i].as_of
      /\ journal[n].event \in {"supersede", "reaffirm", "reopen"}
  BY <1>5 DEF EventsFor, ANSWER_EVENTS
<1> HIDE DEF i
<1>7. journal[n].id \in q.about
  BY <1>6
<1>8. QED
  BY <1>2, <1>3, <1>6, <1>7

\* The answers are read.
LEMMA AnswersKeep ==
    ASSUME BeliefsInv, ReadAnswers
    PROVE  BeliefsInv'
<1> DEFINE unreadable == ledger = <<>> \/ journal = <<>> \/ Runs # DOMAIN ledger
           p == IF Runs = {}
                THEN [pct |-> -1, verdict |-> IF unreadable THEN "DEGRADED" ELSE "NOT-YET-ARMED"]
                ELSE AnswerPosture(unreadable, answers)
           row == [pct |-> p.pct, verdict |-> p.verdict,
                   runs |-> Len(ledger), rows |-> Len(journal)]
<1>1. /\ answers' = Append(answers, row)
      /\ UNCHANGED <<orderingVars, worldVars, journal, binding, inflight, ledger, register>>
  BY DEF ReadAnswers
<1>2. IsList(ledger) /\ IsList(journal) /\ IsList(answers)
  BY DEF BeliefsInv, Lists
<1>3. /\ Len(ledger) \in Nat /\ DOMAIN ledger = 1..Len(ledger)
      /\ Len(journal) \in Nat /\ DOMAIN journal = 1..Len(journal)
  BY <1>2, ListDomain
<1>4. row.runs = Len(ledger) /\ row.rows = Len(journal) /\ row.verdict = p.verdict
  OBVIOUS
<1>5. ASSUME p.verdict = "HEALTHY" PROVE \A q \in Raised : QuestionState(q) # "silent_close"
  <2>1. Runs # {} /\ p = AnswerPosture(unreadable, answers)
    BY <1>5
  <2> HIDE DEF p, unreadable
  <2>2. {q \in Raised : QuestionState(q) = "silent_close"} = {}
    BY <1>5, <2>1 DEF AnswerPosture
  <2>3. QED
    BY <2>2
<1> HIDE DEF row, p
<1>6. Answered(row, ledger, journal)
  <2> SUFFICES ASSUME row.verdict = "HEALTHY",
                      NEW k \in Runs, NEW q \in ledger[k].ids \ ledger[Max(Runs)].ids,
                      \E n \in DOMAIN journal : journal[n].event = "rule" /\ journal[n].id \in q.about
               PROVE  \E n \in DOMAIN journal :
                          /\ journal[n].id \in q.about
                          /\ journal[n].event \in {"supersede", "reaffirm", "reopen"}
                          /\ \E i \in Runs : /\ i <= k /\ q \in ledger[i].ids
                                             /\ journal[n].at >= ledger[i].as_of
    <3>1. Runs = {k \in 1..row.runs : ~ledger[k].corrupt} /\ DOMAIN journal = 1..row.rows
      BY <1>3, <1>4 DEF Runs
    <3>2. row.runs \in 0..Len(ledger) /\ row.rows \in 0..Len(journal)
      BY <1>3, <1>4
    <3>3. QED
      BY <3>1, <3>2 DEF Answered
  <2>1. QuestionState(q) # "silent_close"
    BY <1>4, <1>5 DEF Raised
  <2>2. QED
    BY <1>2, <2>1, NotSilent
<1>7. /\ IsList(answers') /\ answers'[Len(answers) + 1] = row
      /\ \A k \in DOMAIN answers : answers'[k] = answers[k]
      /\ \A k \in DOMAIN answers' : k \in DOMAIN answers \/ k = Len(answers) + 1
  BY <1>1, <1>2, ListAppend
<1>8. \A k \in DOMAIN answers' : Answered(answers'[k], ledger, journal)
  BY <1>6, <1>7 DEF BeliefsInv
<1>9. (\A n \in DOMAIN answers : Answered(answers[n], ledger, journal))'
  BY <1>1, <1>8
<1>10. OrderingInv'
  BY <1>1 DEF BeliefsInv, OrderingInv, OrderingTypeOK, LineageWhole, Single, orderingVars
<1>11. QED
  BY <1>1, <1>7, <1>9, <1>10 DEF BeliefsInv, Lists, Bound, Ruled, Readings, orderingVars

\* A witness writes to the register.
LEMMA RegisterKeeps ==
    ASSUME BeliefsInv, NEW w, NEW says, AppendChecked(w, says)
    PROVE  BeliefsInv'
<1>1. /\ register' = Append(register, [claim |-> w, says |-> says])
      /\ UNCHANGED <<orderingVars, worldVars, journal, binding, inflight, ledger, answers>>
  BY DEF AppendChecked
<1>2. IsList(register')
  BY <1>1, ListAppend DEF BeliefsInv, Lists
<1>3. OrderingInv'
  BY <1>1 DEF BeliefsInv, OrderingInv, OrderingTypeOK, LineageWhole, Single, orderingVars
<1>4. QED
  BY <1>1, <1>2, <1>3 DEF BeliefsInv, Lists, Bound, Ruled, Readings, orderingVars

\* The reading of a configuration is the rulings' and the carriers'.
ConfiguredSources(c) ==
    <<[id |-> "orderings", kind |-> "ruling", base |-> "node", vc |-> "git",
       falsifiers |-> {}]>> \o IF CarrierSpecsHold(c) THEN c.carriers ELSE <<>>

Configured(c, broken, git) ==
    LET r == TakeReading(ConfiguredSources(c), BASES, broken, git)
    IN  [r EXCEPT !.unreadable = @ \/ ~CarrierSpecsHold(c)]

LEMMA ConfiguredIsHeld ==
    ASSUME NEW c, NEW broken, NEW git
    PROVE  ReadConfigured(c, broken, git) <=> Hold(Configured(c, broken, git))
BY DEF ReadConfigured, Configured, ConfiguredSources

LEMMA BoundReadingHolds ==
    ASSUME BeliefsInv, binding # <<>>, NEW roots, NEW broken, NEW git
    PROVE  ReadingHolds(TakeReading(binding[1].sources, roots, broken, git))
<1>1. PICK t \in Templates : binding = <<t>> /\ BindingHolds(t)
  BY DEF BeliefsInv, Bound
<1>2. binding[1] = t
  BY <1>1
<1>3. IsList(t.sources)
  BY BeliefsAssumption
<1>4. \A k \in DOMAIN t.sources : t.sources[k].kind \in KINDS
  <2> SUFFICES ASSUME NEW k \in DOMAIN t.sources PROVE t.sources[k].kind \in KINDS
    OBVIOUS
  <2>1. t.sources[k] \in Range(t.sources)
    BY DEF Range
  <2>2. QED
    BY <1>1, <2>1 DEF BindingHolds, SourceHolds
<1>5. IsList(journal)
  BY DEF BeliefsInv, Lists
<1>6. QED
  BY <1>2, <1>3, <1>4, <1>5, ReadingIsSound

LEMMA ConfiguredHolds ==
    ASSUME BeliefsInv, NEW c \in Configs, NEW broken, NEW git
    PROVE  ReadingHolds(Configured(c, broken, git))
<1> DEFINE rulings == [id |-> "orderings", kind |-> "ruling", base |-> "node", vc |-> "git",
                       falsifiers |-> {}]
           carriers == IF CarrierSpecsHold(c) THEN c.carriers ELSE <<>>
           r == TakeReading(ConfiguredSources(c), BASES, broken, git)
<1>1. ConfiguredSources(c) = <<rulings>> \o carriers
  BY DEF ConfiguredSources
<1>2. IsList(<<rulings>>) /\ DOMAIN <<rulings>> = {1} /\ <<rulings>>[1].kind = "ruling"
  <2>1. IsList(<<rulings>>)
    BY OneList
  <2>2. <<rulings>>[1] = rulings /\ DOMAIN <<rulings>> = {1}
    BY OneList
  <2>3. QED
    BY <2>1, <2>2
<1>3. IsList(carriers) /\ \A k \in DOMAIN carriers : carriers[k].kind \in {"anchor", "briefing"}
  <2>1. CASE CarrierSpecsHold(c)
    BY <2>1, BeliefsAssumption DEF CarrierSpecsHold
  <2>2. CASE ~CarrierSpecsHold(c)
    BY <2>2, EmptyList
  <2>3. QED
    BY <2>1, <2>2
<1> HIDE DEF rulings, carriers
<1>4. IsList(<<rulings>> \o carriers)
  BY <1>2, <1>3, ListConcat
<1>5. \A k \in DOMAIN (<<rulings>> \o carriers) : (<<rulings>> \o carriers)[k].kind \in KINDS
  <2>1. {"ruling", "anchor", "briefing"} \subseteq KINDS
    BY DEF KINDS, EVALUABLE_FALSIFIERS
  <2> SUFFICES ASSUME NEW k \in DOMAIN (<<rulings>> \o carriers)
               PROVE  (<<rulings>> \o carriers)[k].kind \in {"ruling", "anchor", "briefing"}
    BY <2>1
  <2>2. \/ k \in DOMAIN <<rulings>> /\ (<<rulings>> \o carriers)[k] = <<rulings>>[k]
        \/ \E n \in DOMAIN carriers : (<<rulings>> \o carriers)[k] = carriers[n]
    <3> DEFINE first == <<rulings>>
    <3>1. IsList(first) /\ IsList(carriers)
      BY <1>2, <1>3
    <3> HIDE DEF first
    <3>2. /\ k \in DOMAIN (first \o carriers) /\ IsList(first \o carriers)
          /\ Len(first \o carriers) = Len(first) + Len(carriers)
      BY <3>1, ListConcat DEF first
    <3>3. /\ DOMAIN first = 1 .. Len(first) /\ Len(first) \in Nat
          /\ DOMAIN carriers = 1 .. Len(carriers) /\ Len(carriers) \in Nat
          /\ DOMAIN (first \o carriers) = 1 .. Len(first) + Len(carriers)
      BY <3>1, <3>2, ListDomain
    <3>4. CASE k <= Len(first)
      <4>1. k \in DOMAIN first
        BY <3>2, <3>3, <3>4
      <4>2. QED
        BY <3>1, <4>1, ListConcat DEF first
    <3>5. CASE k > Len(first)
      <4>1. k - Len(first) \in DOMAIN carriers /\ Len(first) + (k - Len(first)) = k
        BY <3>2, <3>3, <3>5
      <4>2. (first \o carriers)[k] = carriers[k - Len(first)]
        BY <3>1, <4>1, ListConcat
      <4>3. QED
        BY <4>1, <4>2 DEF first
    <3>6. QED
      BY <3>2, <3>3, <3>4, <3>5
  <2>3. QED
    BY <1>2, <1>3, <2>2
<1>6. IsList(journal)
  BY DEF BeliefsInv, Lists
<1>7. ReadingHolds(r)
  BY <1>1, <1>4, <1>5, <1>6, ReadingIsSound
<1>8. Configured(c, broken, git) = [r EXCEPT !.unreadable = @ \/ ~CarrierSpecsHold(c)]
  BY DEF Configured
<1> HIDE DEF r
<1>9. Configured(c, broken, git)
        = [unreadable |-> r.unreadable \/ ~CarrierSpecsHold(c), over |-> r.over,
           open |-> r.open, ids |-> r.ids]
  BY <1>7, <1>8 DEF ReadingHolds
<1> DEFINE q == Configured(c, broken, git)
<1>10. /\ q.unreadable = (r.unreadable \/ ~CarrierSpecsHold(c))
       /\ q.over = r.over /\ q.open = r.open /\ q.ids = r.ids
       /\ q = [unreadable |-> q.unreadable, over |-> q.over, open |-> q.open, ids |-> q.ids]
  BY <1>9
<1> HIDE DEF q
<1>11. ReadingHolds(q)
  BY <1>7, <1>10 DEF ReadingHolds
<1>12. QED
  BY <1>11 DEF q
----------------------------------------------------------------------------
(* The theorems                                                            *)

LEMMA BeliefsInvInit == BeliefsInit => BeliefsInv
<1> SUFFICES ASSUME BeliefsInit PROVE BeliefsInv
  OBVIOUS
<1>1. OrderingInv
  BY OrderingInvInit DEF BeliefsInit
<1>2. Lists /\ DOMAIN answers = {} /\ DOMAIN ledger = {}
  BY EmptyList, ListDomain DEF BeliefsInit, Lists
<1>3. Ruled
  BY DEF BeliefsInit, OrderingInit, Ruled
<1>4. QED
  BY <1>1, <1>2, <1>3 DEF BeliefsInit, BeliefsInv, Bound, Readings

LEMMA BeliefsStep == BeliefsInv /\ [BeliefsNext]_beliefVars => BeliefsInv'
<1> SUFFICES ASSUME BeliefsInv, [BeliefsNext]_beliefVars PROVE BeliefsInv'
  OBVIOUS
<1>1. ASSUME NEW i \in Rulings, NEW pred \in Predicates, NEW match \in ON_MATCH,
             NEW old \in Rulings \cup {NoRuling}, NEW dated \in BOOLEAN,
             NEW evidence \in SUBSET Subjects, RuleOn(i, pred, match, old, dated, evidence)
      PROVE  BeliefsInv'
  BY <1>1, RulingsKeep
<1>2. ASSUME NEW i \in Rulings, NEW pred \in Predicates, NEW match \in ON_MATCH,
             CompileOn(i, pred, match)
      PROVE  BeliefsInv'
  BY <1>2, RulingsKeep
<1>3. ASSUME NEW i \in Rulings, ReopenOn(i) \/ ReaffirmOn(i) PROVE BeliefsInv'
  BY <1>3, RulingsKeep
<1>b. (UNCHANGED binding) => Bound'
  BY DEF BeliefsInv, Bound, BindingHolds, SourceHolds
<1>4. ASSUME DayPasses PROVE BeliefsInv'
  BY <1>4, <1>b, WorldKeeps DEF DayPasses, readerVars
<1>5. ASSUME NEW f \in Subjects, FileMoves(f) PROVE BeliefsInv'
  BY <1>5, <1>b, WorldKeeps DEF FileMoves, readerVars
<1>6. ASSUME NEW d \in CarrierIds, NEW stamp, NEW names, EditDocument(d, stamp, names)
      PROVE  BeliefsInv'
  BY <1>6, <1>b, WorldKeeps DEF EditDocument, readerVars
<1>7. ASSUME NEW t \in Templates, BindTemplate(t) PROVE BeliefsInv'
  BY <1>7, BindKeeps
<1>8. ASSUME NEW roots, NEW broken, NEW git, ReadBeliefs(roots, broken, git) PROVE BeliefsInv'
  BY <1>8, BoundReadingHolds, HoldKeeps DEF ReadBeliefs, ReadingHolds
<1>9. ASSUME NEW c \in Configs, NEW broken, NEW git, ReadConfigured(c, broken, git)
      PROVE  BeliefsInv'
  BY <1>9, ConfiguredHolds, ConfiguredIsHeld, HoldKeeps DEF ReadingHolds
<1>10. ASSUME NEW r, NEW torn \in BOOLEAN, AppendReading(r, torn) PROVE BeliefsInv'
  BY <1>10, AppendKeeps
<1>11. ASSUME ReadAnswers PROVE BeliefsInv'
  BY <1>11, AnswersKeep
<1>12. ASSUME NEW w, RegisterClaim(w) \/ \E held \in BOOLEAN : AnswerClaim(w, held)
       PROVE  BeliefsInv'
  BY <1>12, RegisterKeeps DEF RegisterClaim, AnswerClaim
<1>13. ASSUME UNCHANGED beliefVars PROVE BeliefsInv'
  BY <1>13, <1>b, WorldKeeps DEF beliefVars
<1>14. QED
  BY <1>1, <1>2, <1>3, <1>4, <1>5, <1>6, <1>7, <1>8, <1>9, <1>10, <1>11, <1>12, <1>13
     DEF BeliefsNext

LEMMA BeliefsAlways == BeliefsSpec => []BeliefsInv
BY BeliefsInvInit, BeliefsStep, PTL DEF BeliefsSpec

\* Neither way of growing used to open questions goes unseen, whatever the
\* rulings, the files, the bindings and the tolerances, and however many
\* readings are taken: a HEALTHY of responsiveness.py leaves no question about
\* a ruling closed in silence, and every clean reading of still_true.py that
\* exceeds an earlier clean one by more than the tolerance says DECAYING.
THEOREM DriftSeen == BeliefsSpec => []DriftIsSeen
<1>1. BeliefsInv => DriftIsSeen
  <2> SUFFICES ASSUME BeliefsInv PROVE DriftIsSeen
    OBVIOUS
  <2>1. SilenceIsSeen
    <3> SUFFICES ASSUME NEW a \in Range(answers)
                 PROVE  Answered(a, ledger, journal)
      BY DEF SilenceIsSeen, Answered
    <3>1. QED
      BY DEF BeliefsInv, Range
  <2>2. DecayIsSeen
    BY DEF BeliefsInv, Readings, Judged, DecayIsSeen
  <2>3. QED
    BY <2>1, <2>2 DEF DriftIsSeen
<1>2. QED
  BY <1>1, BeliefsAlways, PTL

\* A reading that says CURRENT asks nothing and has read everything.
LEMMA CurrentAsksNothing ==
    \A r, h : Posture(r, h) = "CURRENT" => ~r.unreadable /\ ~(r.open > 0)
BY DEF Posture

\* Only a reading adds to the readings under way, and what it adds is sound
\* where it says CURRENT.
LEMMA CurrentStep ==
    ASSUME BeliefsInv, BeliefsNext, NEW x \in inflight' \ inflight, x.verdict = "CURRENT"
    PROVE  Sound(x.over)
<1>1. ASSUME NEW r, ReadingHolds(r), Hold(r) PROVE Sound(x.over)
  <2> DEFINE new == [corrupt |-> FALSE, as_of |-> day, verdict |-> Posture(r, ledger),
                     over |-> r.over, open |-> r.open, ids |-> r.ids, seen |-> Len(ledger)]
  <2>1. x = new
    BY <1>1 DEF Hold
  <2>2. x.verdict = Posture(r, ledger) /\ x.over = r.over
    BY <2>1
  <2> HIDE DEF new
  <2>3. ~r.unreadable /\ r.open = 0
    BY <1>1, <2>2, CurrentAsksNothing DEF ReadingHolds
  <2>4. QED
    BY <1>1, <2>2, <2>3 DEF ReadingHolds
<1>2. ASSUME NEW roots, NEW broken, NEW git, ReadBeliefs(roots, broken, git)
      PROVE  Sound(x.over)
  BY <1>1, <1>2, BoundReadingHolds DEF ReadBeliefs
<1>3. ASSUME NEW c \in Configs, NEW broken, NEW git, ReadConfigured(c, broken, git)
      PROVE  Sound(x.over)
  BY <1>1, <1>3, ConfiguredHolds, ConfiguredIsHeld
<1>4. inflight' # inflight
  OBVIOUS
<1>5. \A rows : ~Write(rows)
  BY <1>4 DEF Write, readerVars
<1>6. /\ \A i, pred, match, old, dated, evidence : ~RuleOn(i, pred, match, old, dated, evidence)
      /\ \A i, pred, match : ~CompileOn(i, pred, match)
      /\ \A i : ~ReopenOn(i) /\ ~ReaffirmOn(i)
  BY <1>5 DEF RuleOn, CompileOn, ReopenOn, ReaffirmOn
<1>7. /\ ~DayPasses /\ ~ReadAnswers
      /\ \A f : ~FileMoves(f)
      /\ \A d, stamp, names : ~EditDocument(d, stamp, names)
      /\ \A t : ~BindTemplate(t)
      /\ \A r, torn : ~AppendReading(r, torn)
  BY <1>4 DEF DayPasses, ReadAnswers, FileMoves, EditDocument, BindTemplate, AppendReading,
              readerVars
<1>8. \A w : ~RegisterClaim(w) /\ \A held : ~AnswerClaim(w, held)
  BY <1>4 DEF RegisterClaim, AnswerClaim, AppendChecked
<1>9. QED
  BY <1>2, <1>3, <1>6, <1>7, <1>8 DEF BeliefsNext

\* CURRENT is earned, for every template a repository may ship and every
\* carrier configuration: no ruling the node acts by is undated or rests on a
\* file that vanished, and no two conflict where a source asks for conflicts.
THEOREM CurrentEarned == BeliefsSpec => CurrentIsEarned
<1> DEFINE Earned == \A r \in inflight' \ inflight : r.verdict = "CURRENT" =>
            /\ (\E s \in r.over : s.kind = "ruling") => \A i \in Rulings : \A x \in records[i] :
                  \E n \in DOMAIN journal : journal[n].id = i /\ journal[n].date # 0
                     /\ \A f \in journal[n].evidence :
                           files[f].present \/ f \in NodeLocal \/ f \in DOMAIN Elsewhere
            /\ (\E s \in r.over : "CONFLICT" \in s.falsifiers)
               => Conflicts(records) = {}
<1>1. BeliefsInv /\ BeliefsNext => Earned
  <2> SUFFICES ASSUME BeliefsInv, BeliefsNext, NEW r \in inflight' \ inflight,
                      r.verdict = "CURRENT"
               PROVE  /\ (\E s \in r.over : s.kind = "ruling") =>
                           \A i \in Rulings : \A x \in records[i] :
                             \E n \in DOMAIN journal : journal[n].id = i /\ journal[n].date # 0
                               /\ \A f \in journal[n].evidence :
                                    files[f].present \/ f \in NodeLocal \/ f \in DOMAIN Elsewhere
                      /\ (\E s \in r.over : "CONFLICT" \in s.falsifiers)
                           => Conflicts(records) = {}
    OBVIOUS
  <2>1. Sound(r.over)
    BY CurrentStep
  <2>2. \A i \in Rulings : \A x \in records[i] : \E n \in DOMAIN journal : journal[n].id = i
    BY DEF BeliefsInv, Ruled
  <2>3. QED
    BY <2>1, <2>2 DEF Sound
<1>2. BeliefsInv /\ [BeliefsNext]_beliefVars => [Earned]_beliefVars
  BY <1>1
<1>3. QED
  BY <1>2, BeliefsAlways, PTL DEF BeliefsSpec, CurrentIsEarned

\* A row about another claim, or about one with no answer, moves no answer.
LEMMA AnswerKeeps ==
    ASSUME BeliefsInv, NEW v, NEW says, AppendChecked(v, says),
           NEW w, w # v
    PROVE  Standing(w)' = Standing(w)
<1> DEFINE rows == {k \in DOMAIN register : register[k].claim = w}
           later == {k \in DOMAIN register' : register'[k].claim = w}
<1>1. register' = Append(register, [claim |-> v, says |-> says]) /\ IsList(register)
  BY DEF AppendChecked, BeliefsInv, Lists
<1>2. /\ Len(register) \in Nat /\ DOMAIN register = 1..Len(register)
      /\ register'[Len(register) + 1] = [claim |-> v, says |-> says]
      /\ \A k \in DOMAIN register : k \in DOMAIN register' /\ register'[k] = register[k]
      /\ \A k \in DOMAIN register' : k \in DOMAIN register \/ k = Len(register) + 1
  BY <1>1, ListAppend, ListDomain
<1>3. register'[Len(register) + 1].claim = v
  BY <1>2
<1>4. later = rows
  BY <1>2, <1>3
<1>5. CASE rows = {}
  BY <1>4, <1>5 DEF Standing
<1>6. CASE rows # {}
  <2>1. rows \in SUBSET Nat /\ Len(register) \in Nat /\ \A x \in rows : x <= Len(register)
    BY <1>2
  <2>2. Max(rows) \in rows
    BY <1>6, <2>1, MaxIsGreatest
  <2>3. register'[Max(later)] = register[Max(rows)]
    BY <1>2, <1>4, <2>2
  <2>4. QED
    BY <1>4, <1>6, <2>3 DEF Standing
<1>7. QED
  BY <1>5, <1>6

\* Two witnesses never answer one claim: the first answer stands for good,
\* however many claims and witnesses there are.
THEOREM AnswerStandsForGood == BeliefsSpec => AnswerStands
<1> DEFINE Stands == \A w \in Witnesses : Standing(w) \notin {"none", "OPEN-UNVERIFIED"}
                                          => Standing(w)' = Standing(w)
<1>1. ASSUME BeliefsInv, BeliefsNext PROVE Stands
  <2> SUFFICES ASSUME NEW w \in Witnesses, Standing(w) \notin {"none", "OPEN-UNVERIFIED"}
               PROVE  Standing(w)' = Standing(w)
    OBVIOUS
  <2>1. CASE UNCHANGED register
    BY <2>1 DEF Standing
  <2>2. ASSUME NEW v \in Witnesses, RegisterClaim(v) PROVE Standing(w)' = Standing(w)
    BY <1>1, <2>2, AnswerKeeps DEF RegisterClaim
  <2>3. ASSUME NEW v \in Witnesses, NEW held \in BOOLEAN, AnswerClaim(v, held)
        PROVE  Standing(w)' = Standing(w)
    BY <1>1, <2>3, AnswerKeeps DEF AnswerClaim
  <2>4. UNCHANGED register \/ \E v \in Witnesses : RegisterClaim(v) \/ \E held \in BOOLEAN : AnswerClaim(v, held)
    <3>1. \A rows : Write(rows) => UNCHANGED register
      BY DEF Write, readerVars
    <3>2. \A r : Hold(r) => UNCHANGED register
      BY DEF Hold
    <3>3. /\ \A i, pred, match, old, dated, evidence :
                RuleOn(i, pred, match, old, dated, evidence) => UNCHANGED register
          /\ \A i, pred, match : CompileOn(i, pred, match) => UNCHANGED register
          /\ \A i : ReopenOn(i) \/ ReaffirmOn(i) => UNCHANGED register
      BY <3>1 DEF RuleOn, CompileOn, ReopenOn, ReaffirmOn
    <3>4. /\ DayPasses \/ ReadAnswers => UNCHANGED register
          /\ \A f : FileMoves(f) => UNCHANGED register
          /\ \A d, stamp, names : EditDocument(d, stamp, names) => UNCHANGED register
          /\ \A t : BindTemplate(t) => UNCHANGED register
          /\ \A r, torn : AppendReading(r, torn) => UNCHANGED register
      BY DEF DayPasses, ReadAnswers, FileMoves, EditDocument, BindTemplate, AppendReading,
             readerVars
    <3>5. /\ \A roots, broken, git : ReadBeliefs(roots, broken, git) => UNCHANGED register
          /\ \A c, broken, git : ReadConfigured(c, broken, git) => UNCHANGED register
      BY <3>2, ConfiguredIsHeld DEF ReadBeliefs
    <3>6. QED
      BY <1>1, <3>3, <3>4, <3>5 DEF BeliefsNext
  <2>5. QED
    BY <2>1, <2>2, <2>3, <2>4
<1>2. BeliefsInv /\ [BeliefsNext]_beliefVars => [Stands]_beliefVars
  BY <1>1
<1>3. QED
  BY <1>2, BeliefsAlways, PTL DEF BeliefsSpec, AnswerStands
============================================================================
