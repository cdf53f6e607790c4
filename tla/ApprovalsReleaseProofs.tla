---------------------- MODULE ApprovalsReleaseProofs -----------------------
(***************************************************************************)
(* What stands on the operator's word: an approval, and a signature.       *)
(*                                                                         *)
(* Approvals, for every set of processes and items, every capacity and     *)
(* every number of failures.                                               *)
(*                                                                         *)
(* MCRelease, for every alphabet of keys, tokens, texts and rows and every *)
(* number of edits: what a verified record, a CLEAN session start, a       *)
(* finished ceremony and a birth certificate vouch for.  TrustInv says of a *)
(* verifier and a session start under way what their checks so far have    *)
(* read; CeremonyInv says of the sitting and of both journals which carriers *)
(* a step marked done has left, and by which key; AliveInv says of a reader *)
(* under way what the ledger and the register already hold of it.          *)
(***************************************************************************)
EXTENDS Approvals, MCRelease, FiniteSetTheorems, SequenceTheorems, TLAPS

----------------------------------------------------------------------------
(* The approval queue.                                                     *)

Transitions == {"approved", "rejected", "commented", "expired"}
Rulings     == {"approved", "rejected"}
Holding     == {"inside", "write", "unlink"}
Moving      == {"wait"} \cup Holding
Steps       == {"idle", "capacity", "file", "wait", "inside", "write", "unlink",
                "record", "look", "read", "missed", "found", "sweep", "swept"}

\* Process p works under the lock of the file of item i in directory d.
Inside(p, d, i) == act[p].at \in Holding /\ act[p].dir = d /\ act[p].id = i

\* The record process p is about to submit.
Fresh(p) == [slug |-> act[p].slug, status |-> "pending", by |-> NoOne, lapsed |-> "none", notes |-> 0]

\* Some file holds item i; it was moved on from pending/.
Kept(i)  == \E d \in Dirs : Exists(d, i)
Moved(i) == Exists("approved", i) \/ Exists("rejected", i)

\* The types, the number of records at one path aside.
Types ==
    /\ files \in [Dirs -> [Ids -> SUBSET Record]]
    /\ lock \in [Dirs -> [Ids -> Procs \cup {NoOne}]]
    /\ closed \subseteq Ids
    /\ \A row \in history : row.event \in Kinds /\ row.id \in Ids /\ row.item \in Record
    /\ act \in [Procs -> Op]
    /\ failures \in 0..MaxFailures

\* The shape of an operation under way: what it works on, and that only a
\* sweep leaves pending/.
Shape(a) ==
    /\ a.sweeping <=> a.kind = "expired"
    /\ a.sweeping => a.at \in Moving \cup {"record", "sweep", "swept"}
    /\ a.sweeping => a.dir \in {"pending", "approved"}
    /\ a.at \in {"sweep", "swept"} => a.sweeping
    /\ a.at \in Moving => /\ a.dir \in {"pending", "approved"}
                          /\ a.kind \in Transitions
                          /\ a.dir = "approved" => a.sweeping
    /\ a.at \in Moving \cup {"record", "look", "read"} => a.id \in Ids
    /\ a.at = "unlink" => a.kind # "commented"
    /\ a.at \in {"capacity", "file"} => a.slug \in Slugs

CallInv == \A p \in Procs : Shape(act[p])

\* A lock is held by the one process that works under it.
LockInv ==
    \A p \in Procs, d \in Dirs, i \in Ids : lock[d][i] = p <=> Inside(p, d, i)

\* What a record in directory d says of itself.
GoodIn(d, r) ==
    CASE d = "pending"  -> r.status = "pending" /\ r.by = NoOne
      [] d = "approved" -> r.status = "approved" /\ r.by # NoOne
      [] d = "rejected" -> /\ r.status \in {"rejected", "expired"}
                           /\ r.status = "expired" =>
                                 /\ r.lapsed \in {"pending", "approved"}
                                 /\ (r.lapsed = "approved") <=> (r.by # NoOne)

\* What a process holds is one record, and one it may write where it goes.
GoodItem(a) ==
    /\ \A r, s \in a.item : r = s
    /\ a.at = "write" => a.item # {} /\ \A r \in a.item : GoodIn(Target(a.kind), r)

\* Every record says of itself what its directory says of it, on file and in
\* the hands of the process about to write it.
RecordInv ==
    /\ \A d \in Dirs, i \in Ids : \A r, s \in files[d][i] : r = s
    /\ \A d \in Dirs, i \in Ids : \A r \in files[d][i] : GoodIn(d, r)
    /\ \A p \in Procs : GoodItem(act[p])

\* A move writes before it unlinks: the file it works on is there, and when it
\* is about to go the item is somewhere further on.
MoveInv ==
    \A p \in Procs :
        /\ act[p].at \in {"write", "unlink"} => Exists(act[p].dir, act[p].id)
        /\ act[p].at = "unlink" =>
              IF act[p].dir = "approved" THEN Exists("rejected", act[p].id)
                                         ELSE Moved(act[p].id)

\* An item that a row or a call names is still on file; one that was ruled on
\* left pending/, and its one ruling is on its way to history or there.
RulingInv ==
    /\ \A row \in history : Kept(row.id) /\ (row.event \in Rulings => ~Exists("pending", row.id))
    /\ \A p \in Procs : act[p].at = "record" =>
          /\ Kept(act[p].id)
          /\ act[p].kind \in Rulings =>
                /\ ~Exists("pending", act[p].id)
                /\ \A row \in history : row.id = act[p].id => row.event \notin Rulings
                /\ \A q \in Procs : (act[q].at = "record" /\ act[q].id = act[p].id
                                        /\ act[q].kind \in Rulings) => q = p
    /\ OneRuling

\* A sweep's due items: those of the directories behind it are gone from them,
\* those of its own are listed, under its hands, or gone.
SweepOn(p) ==
    act[p].sweeping =>
        /\ act[p].due \subseteq closed
        /\ act[p].at = "swept" => act[p].dir = "approved" /\ act[p].todo = {}
        /\ \A i \in act[p].due :
              /\ Kept(i)
              /\ act[p].dir = "approved" => ~Exists("pending", i)
              /\ \/ i \in act[p].todo
                 \/ act[p].id = i /\ act[p].at \in Moving
                 \/ ~Exists(act[p].dir, i)

SweepInv == \A p \in Procs : SweepOn(p)

\* A get's item is in a directory it has yet to look into.
GetOn(p) ==
    /\ act[p].at = "look" =>
          \A i \in act[p].due :
             /\ i = act[p].id
             /\ act[p].dir = "pending"  => Kept(i)
             /\ act[p].dir = "approved" => Moved(i)
             /\ act[p].dir = "rejected" => Exists("rejected", i)
    /\ act[p].at = "missed" => act[p].due = {}

GetInv == \A p \in Procs : GetOn(p)

\* Two copies of item i mean a move under way, and agree on who ruled and on
\* the comments.
OneMove(i) ==
    /\ Exists("pending", i) /\ Moved(i) =>
          \E p \in Procs : act[p].at = "unlink" /\ act[p].dir = "pending" /\ act[p].id = i
    /\ Exists("approved", i) /\ Exists("rejected", i) =>
          \E p \in Procs : act[p].at = "unlink" /\ act[p].dir = "approved" /\ act[p].id = i

OneStory(i) ==
    /\ \A r \in files["approved"][i], s \in files["rejected"][i] : r.by = s.by
    /\ \A d, e \in Dirs : \A r \in files[d][i], s \in files[e][i] : r.notes = s.notes

\* What process p is about to write is what the file it read has become.
InHand(p) ==
    act[p].at = "write" =>
        \A r \in files[act[p].dir][act[p].id] : act[p].item = {Changed(act[p].kind, p, r)}

\* Every copy of item i has the comments of record c.
Carried(i, c) == \A d \in Dirs : \A r \in files[d][i] : r.notes >= c.notes

\* What holds while nothing has failed.
CalmInv ==
    failures = 0 =>
        /\ \A i \in Ids : OneMove(i) /\ OneStory(i)
        /\ \A p \in Procs : InHand(p)
        /\ \A p \in Procs : act[p].at = "record" /\ act[p].kind = "commented" =>
              \A c \in act[p].item : Carried(act[p].id, c)
        /\ \A row \in history : row.event = "commented" => Carried(row.id, row.item)

IInv == Types /\ CallInv /\ LockInv /\ RecordInv /\ MoveInv /\ RulingInv /\ SweepInv /\ GetInv /\ CalmInv
----------------------------------------------------------------------------
\* A file that is there holds a record.
LEMMA RecOnFile == \A d, i : Exists(d, i) => Rec(d, i) \in files[d][i]
BY DEF Exists, Rec

\* A process that takes up a well-formed operation leaves the others theirs.
LEMMA Becomes ==
    ASSUME act \in [Procs -> Op], CallInv, NEW p \in Procs, NEW op \in Op, Shape(op), Become(p, op)
    PROVE  act' \in [Procs -> Op] /\ CallInv'
BY DEF Become, CallInv, Shape

\* The operations the steps make of a well-formed one.
LEMMA OpsTyped ==
    ASSUME NEW a \in Op
    PROVE  /\ \A at \in Steps : [a EXCEPT !.at = at] \in Op
           /\ \A at \in Steps, d \in Dirs : [a EXCEPT !.at = at, !.dir = d] \in Op
           /\ \A at \in Steps, todo \in SUBSET Ids, i \in Ids :
                 [a EXCEPT !.todo = todo, !.id = i, !.at = at] \in Op
           /\ \A todo \in SUBSET Ids, d \in Dirs : [a EXCEPT !.dir = d, !.todo = todo] \in Op
           /\ \A d \in Dirs : [a EXCEPT !.dir = d] \in Op
           /\ \A at \in Steps, item \in SUBSET Record : [a EXCEPT !.at = at, !.item = item] \in Op
           /\ \A i \in Ids, item \in SUBSET Record :
                 [a EXCEPT !.at = "record", !.kind = "submitted", !.id = i, !.item = item] \in Op
<1> USE DEF Op, Kinds, Dirs, Steps
<1>1. \A at \in Steps : [a EXCEPT !.at = at] \in Op
    OBVIOUS
<1>2. ASSUME NEW at \in Steps, NEW d \in Dirs
      PROVE  [a EXCEPT !.at = at, !.dir = d] \in Op
    OBVIOUS
<1>3. \A at \in Steps, todo \in SUBSET Ids, i \in Ids :
         [a EXCEPT !.todo = todo, !.id = i, !.at = at] \in Op
    OBVIOUS
<1>4. \A todo \in SUBSET Ids, d \in Dirs : [a EXCEPT !.dir = d, !.todo = todo] \in Op
    OBVIOUS
<1>5. \A d \in Dirs : [a EXCEPT !.dir = d] \in Op
    OBVIOUS
<1>6. \A at \in Steps, item \in SUBSET Record : [a EXCEPT !.at = at, !.item = item] \in Op
    OBVIOUS
<1>7. \A i \in Ids, item \in SUBSET Record :
         [a EXCEPT !.at = "record", !.kind = "submitted", !.id = i, !.item = item] \in Op
    OBVIOUS
<1> QED BY <1>1, <1>2, <1>3, <1>4, <1>5, <1>6, <1>7

\* The records the transitions make (_decide, comment, _expire).
LEMMA ChangedTyped ==
    ASSUME NEW r \in Record, NEW p \in Procs, NEW k \in Transitions, NEW i,
           Allowed(k, i, r)
    PROVE  Changed(k, p, r) \in Record
<1> USE BoundsAssumption DEF Allowed, Changed, Record, Statuses
<1>1. CASE k \in Rulings
    BY <1>1 DEF Ruled, Rulings
<1>2. CASE k = "commented"
    BY <1>2 DEF Commented
<1>3. CASE k = "expired"
    BY <1>3 DEF Lapsed
<1> QED BY <1>1, <1>2, <1>3 DEF Transitions, Rulings

LEMMA TypesStep == Types /\ CallInv /\ [Next]_vars => Types' /\ CallInv'
<1> SUFFICES ASSUME Types, CallInv, [Next]_vars
             PROVE  Types' /\ CallInv'
    OBVIOUS
<1> USE DEF Types, Goto
<1>a. \A p \in Procs : act[p] \in Op /\ Shape(act[p])
    BY DEF CallInv
<1>b. Idle \in Op /\ Shape(Idle)
    BY DEF Op, Idle, Kinds, Dirs, Shape, Moving, Holding
<1>1. CASE UNCHANGED vars
    BY <1>1 DEF vars, CallInv
<1>2. CASE \E i \in Ids : WindowCloses(i)
    BY <1>2 DEF WindowCloses, CallInv
<1>3. ASSUME NEW p \in Procs, NEW s \in Slugs, Submit(p, s)
      PROVE  Types' /\ CallInv'
    <2> DEFINE op == [Idle EXCEPT !.at = "capacity", !.slug = s]
    <2>1. Become(p, op)
        BY <1>3 DEF Submit
    <2>2. op \in Op
        BY <1>b DEF Op, Idle
    <2>3. Shape(op)
        BY <1>b, <1>3 DEF Submit, Idle, Shape, Moving, Holding, Transitions, Op
    <2> HIDE DEF op
    <2> QED BY <2>1, <2>2, <2>3, Becomes, <1>3 DEF Submit
<1>4. ASSUME NEW p \in Procs, Capacity(p)
      PROVE  Types' /\ CallInv'
    <2> DEFINE op == IF Cardinality(Pending) >= MaxPending THEN Idle ELSE [act[p] EXCEPT !.at = "file"]
    <2>1. Become(p, op)
        BY <1>4 DEF Capacity
    <2>2. op \in Op
        BY <1>a, <1>b, OpsTyped DEF Steps
    <2>3. Shape(op)
        BY <1>a, <1>b, <1>4 DEF Capacity, Shape, Moving, Holding, Transitions, Op
    <2> HIDE DEF op
    <2> QED BY <2>1, <2>2, <2>3, Becomes, <1>4 DEF Capacity
<1>5. ASSUME NEW p \in Procs, File(p)
      PROVE  Types' /\ CallInv'
    <2> DEFINE r == [slug |-> act[p].slug, status |-> "pending", by |-> NoOne,
                     lapsed |-> "none", notes |-> 0]
    <2>1. PICK i \in Ids :
             /\ files' = [files EXCEPT !["pending"][i] = {r}]
             /\ Become(p, [act[p] EXCEPT !.at = "record", !.kind = "submitted", !.id = i, !.item = {r}])
        BY <1>5 DEF File, Fresh
    <2>2. act[p].slug \in Slugs
        BY <1>5, <1>a DEF File, Shape
    <2>3. r \in Record
        BY <2>2, BoundsAssumption DEF Record, Statuses
    <2> HIDE DEF r
    <2> DEFINE op == [act[p] EXCEPT !.at = "record", !.kind = "submitted", !.id = i, !.item = {r}]
    <2>4. op \in Op
        BY <1>a, <2>3, OpsTyped
    <2>5. Shape(op)
        <3>1. act[p].at = "file" /\ ~act[p].sweeping
            BY <1>a, <1>5 DEF File, Shape, Moving, Holding, Op
        <3> QED BY <1>a, <3>1 DEF Shape, Moving, Holding, Transitions, Op
    <2>6. files' \in [Dirs -> [Ids -> SUBSET Record]]
        BY <2>1, <2>3 DEF Dirs
    <2> HIDE DEF op
    <2> QED BY <2>1, <2>4, <2>5, <2>6, Becomes, <1>5 DEF File, op
<1>6. ASSUME NEW p \in Procs, NEW i \in Ids, NEW k \in {"approved", "rejected", "commented"}, Request(p, i, k)
      PROVE  Types' /\ CallInv'
    <2> DEFINE op == [Idle EXCEPT !.at = "wait", !.kind = k, !.id = i]
    <2>1. Become(p, op)
        BY <1>6 DEF Request
    <2>2. op \in Op
        BY <1>b DEF Op, Idle, Kinds
    <2>3. Shape(op)
        BY <1>b, <1>6 DEF Request, Idle, Shape, Moving, Holding, Transitions, Op
    <2> HIDE DEF op
    <2> QED BY <2>1, <2>2, <2>3, Becomes, <1>6 DEF Request
<1>7. ASSUME NEW p \in Procs, Enter(p)
      PROVE  Types' /\ CallInv'
    <2> DEFINE op == [act[p] EXCEPT !.at = "inside"]
    <2>1. Become(p, op)
        BY <1>7 DEF Enter
    <2>2. op \in Op
        BY <1>a, OpsTyped DEF Steps
    <2>3. Shape(op)
        BY <1>a, <1>7 DEF Enter, Shape, Moving, Holding, Transitions, Op
    <2>4. lock' \in [Dirs -> [Ids -> Procs \cup {NoOne}]]
        BY <1>7 DEF Enter
    <2> HIDE DEF op
    <2> QED BY <2>1, <2>2, <2>3, <2>4, Becomes, <1>7 DEF Enter
<1>8. ASSUME NEW p \in Procs, Timeout(p)
      PROVE  Types' /\ CallInv'
    <2> DEFINE op == Idle
    <2>1. Become(p, op)
        BY <1>8 DEF Timeout
    <2>2. op \in Op
        BY <1>b DEF Idle
    <2>3. Shape(op)
        BY <1>b, <1>8 DEF Timeout, Shape, Moving, Holding, Transitions, Op
    <2> HIDE DEF op
    <2> QED BY <2>1, <2>2, <2>3, Becomes, <1>8 DEF Timeout
<1>9. ASSUME NEW p \in Procs, Reread(p)
      PROVE  Types' /\ CallInv'
    <2> DEFINE r == Changed(act[p].kind, p, Rec(act[p].dir, act[p].id))
               op == [act[p] EXCEPT !.at = "write", !.item = {r}]
    <2>1. Become(p, op)
        BY <1>9 DEF Reread
    <2>2. act[p].dir \in Dirs /\ act[p].id \in Ids /\ act[p].kind \in Transitions
        BY <1>9, <1>a DEF Reread, Shape, Moving, Holding, Dirs
    <2>3. Rec(act[p].dir, act[p].id) \in files[act[p].dir][act[p].id]
        BY <1>9, RecOnFile DEF Reread
    <2>4. Rec(act[p].dir, act[p].id) \in Record
        BY <2>2, <2>3
    <2>5. r \in Record
        BY <2>2, <2>4, <1>9, ChangedTyped DEF Reread
    <2> HIDE DEF r
    <2>6. op \in Op
        BY <2>5, <1>a, OpsTyped DEF Steps
    <2>7. Shape(op)
        BY <1>a, <1>9 DEF Reread, Shape, Moving, Holding, Transitions, Op
    <2> HIDE DEF op
    <2> QED BY <2>1, <2>6, <2>7, Becomes, <1>9 DEF Reread
<1>10. ASSUME NEW p \in Procs, Refuse(p)
      PROVE  Types' /\ CallInv'
    <2> DEFINE op == Refused(act[p])
    <2>1. Become(p, op)
        BY <1>10 DEF Refuse
    <2>2. op \in Op
        BY <1>a, <1>b, OpsTyped DEF Steps, Refused
    <2>3. Shape(op)
        BY <1>a, <1>b, <1>10 DEF Refuse, Refused, Shape, Moving, Holding, Transitions, Op
    <2>4. lock' \in [Dirs -> [Ids -> Procs \cup {NoOne}]]
        BY <1>10 DEF Refuse, Release
    <2> HIDE DEF op
    <2> QED BY <2>1, <2>2, <2>3, <2>4, Becomes, <1>10 DEF Refuse
<1>11. ASSUME NEW p \in Procs, Write(p)
      PROVE  Types' /\ CallInv'
    <2> DEFINE op == [act[p] EXCEPT !.at = IF act[p].kind = "commented" THEN "record" ELSE "unlink"]
    <2>1. Become(p, op)
        BY <1>11 DEF Write
    <2>2. op \in Op
        BY <1>a, OpsTyped DEF Steps
    <2>3. Shape(op)
        BY <1>a, <1>11 DEF Write, Shape, Moving, Holding, Transitions, Op
    <2>4. lock' \in [Dirs -> [Ids -> Procs \cup {NoOne}]]
        <3>1. \/ lock' = [lock EXCEPT ![act[p].dir][act[p].id] = NoOne]
              \/ lock' = lock
            BY <1>11 DEF Write, Release
        <3>2. CASE lock' = [lock EXCEPT ![act[p].dir][act[p].id] = NoOne]
            BY <3>2
        <3>3. CASE lock' = lock
            BY <3>3
        <3> QED BY <3>1, <3>2, <3>3
    <2>5. files' \in [Dirs -> [Ids -> SUBSET Record]]
        <3>1. act[p].item \in SUBSET Record
            BY <1>a DEF Op
        <3> QED BY <3>1, <1>11 DEF Write
    <2> HIDE DEF op
    <2> QED BY <2>1, <2>2, <2>3, <2>4, <2>5, Becomes, <1>11 DEF Write
<1>12. ASSUME NEW p \in Procs, Unlink(p)
      PROVE  Types' /\ CallInv'
    <2> DEFINE op == [act[p] EXCEPT !.at = "record"]
    <2>1. Become(p, op)
        BY <1>12 DEF Unlink
    <2>2. op \in Op
        BY <1>a, OpsTyped DEF Steps
    <2>3. Shape(op)
        BY <1>a, <1>12 DEF Unlink, Shape, Moving, Holding, Transitions, Op
    <2>4. lock' \in [Dirs -> [Ids -> Procs \cup {NoOne}]]
        BY <1>12 DEF Unlink, Release
    <2>5. files' \in [Dirs -> [Ids -> SUBSET Record]]
        BY <1>12 DEF Unlink
    <2> HIDE DEF op
    <2> QED BY <2>1, <2>2, <2>3, <2>4, <2>5, Becomes, <1>12 DEF Unlink
<1>13. ASSUME NEW p \in Procs, RecordHistory(p)
      PROVE  Types' /\ CallInv'
    <2> DEFINE op == Refused(act[p])
    <2>1. Become(p, op)
        BY <1>13 DEF RecordHistory
    <2>2. op \in Op
        BY <1>a, <1>b, OpsTyped DEF Steps, Refused
    <2>3. Shape(op)
        BY <1>a, <1>b, <1>13 DEF RecordHistory, Refused, Shape, Moving, Holding, Transitions, Op
    <2>4. act[p].item \in SUBSET Record /\ act[p].kind \in Kinds /\ act[p].id \in Ids
        BY <1>a, <1>13 DEF RecordHistory, Op, Shape
    <2>5. \A row \in history' : row.event \in Kinds /\ row.id \in Ids /\ row.item \in Record
        BY <2>4, <1>13 DEF RecordHistory
    <2> HIDE DEF op
    <2> QED BY <2>1, <2>2, <2>3, <2>5, Becomes, <1>13 DEF RecordHistory
<1>14. ASSUME NEW p \in Procs, SweepBegin(p)
      PROVE  Types' /\ CallInv'
    <2> DEFINE todo == Pending
               due  == {i \in closed : Exists("pending", i) \/ Exists("approved", i)}
               op   == [Idle EXCEPT !.at = "sweep", !.kind = "expired", !.sweeping = TRUE,
                                    !.dir = "pending", !.todo = todo, !.due = due]
    <2>1. todo \in SUBSET Ids /\ due \in SUBSET Ids
        BY DEF Pending
    <2>2. Become(p, op)
        BY <1>14 DEF SweepBegin
    <2> HIDE DEF todo, due
    <2>3. op \in Op
        BY <2>1, <1>b DEF Op, Idle, Kinds, Dirs
    <2>4. Shape(op)
        BY <1>b DEF Idle, Shape, Moving, Holding
    <2> HIDE DEF op
    <2> QED BY <2>2, <2>3, <2>4, Becomes, <1>14 DEF SweepBegin
<1>15. ASSUME NEW p \in Procs, SweepNext(p)
      PROVE  Types' /\ CallInv'
    <2>1. PICK i \in act[p].todo :
             Become(p, [act[p] EXCEPT !.todo = @ \ {i}, !.id = i,
                          !.at = IF Exists(act[p].dir, i) /\ i \in closed THEN "wait" ELSE "sweep"])
        BY <1>15 DEF SweepNext
    <2> DEFINE todo == act[p].todo \ {i}
               at == IF Exists(act[p].dir, i) /\ i \in closed THEN "wait" ELSE "sweep"
               op == [act[p] EXCEPT !.todo = todo, !.id = i, !.at = at]
    <2>2. Become(p, op)
        BY <2>1
    <2>3. act[p].todo \in SUBSET Ids
        BY <1>a DEF Op
    <2>4. todo \in SUBSET Ids /\ i \in Ids /\ at \in {"wait", "sweep"}
        BY <2>3
    <2>5. Shape(act[p]) /\ act[p].sweeping
        BY <1>a, <1>15 DEF SweepNext, Shape
    <2>6. act[p].dir \in {"pending", "approved"}
        BY <1>15, <1>a DEF SweepNext, Shape
    <2> HIDE DEF todo, at
    <2>7. op \in Op
        BY <2>4, <1>a, OpsTyped DEF Steps
    <2>8. Shape(op)
        BY <1>a, <2>4, <2>5, <2>6 DEF Shape, Moving, Holding, Transitions, Op
    <2> HIDE DEF op
    <2> QED BY <2>2, <2>7, <2>8, Becomes, <1>15 DEF SweepNext
<1>16. ASSUME NEW p \in Procs, SweepDir(p)
      PROVE  Types' /\ CallInv'
    <2> DEFINE todo == {i \in Ids : Exists("approved", i)}
               op == IF act[p].dir = "pending" THEN [act[p] EXCEPT !.dir = "approved", !.todo = todo]
                                               ELSE [act[p] EXCEPT !.at = "swept"]
    <2>1. todo \in SUBSET Ids
        OBVIOUS
    <2>2. Become(p, op)
        BY <1>16 DEF SweepDir
    <2> HIDE DEF todo
    <2>3. op \in Op
        BY <2>1, <1>a, OpsTyped DEF Steps, Dirs
    <2>4. Shape(op)
        BY <1>a, <1>16 DEF SweepDir, Shape, Moving, Holding, Transitions, Op
    <2> HIDE DEF op
    <2> QED BY <2>2, <2>3, <2>4, Becomes, <1>16 DEF SweepDir
<1>17. ASSUME NEW p \in Procs, NEW i \in Ids, Get(p, i)
      PROVE  Types' /\ CallInv'
    <2> DEFINE due == {j \in {i} : \E d \in Dirs : Exists(d, j)}
               op == [Idle EXCEPT !.at = "look", !.id = i, !.dir = "pending", !.due = due]
    <2>1. due \in SUBSET Ids
        OBVIOUS
    <2>2. Become(p, op)
        BY <1>17 DEF Get
    <2> HIDE DEF due
    <2>3. op \in Op
        BY <2>1, <1>b DEF Op, Idle, Dirs
    <2>4. Shape(op)
        BY <1>b DEF Idle, Shape, Moving, Holding
    <2> HIDE DEF op
    <2> QED BY <2>2, <2>3, <2>4, Becomes, <1>17 DEF Get
<1>18. ASSUME NEW p \in Procs, Look(p)
      PROVE  Types' /\ CallInv'
    <2> DEFINE op == IF Exists(act[p].dir, act[p].id) THEN [act[p] EXCEPT !.at = "read"]
                     ELSE IF act[p].dir = "rejected" THEN [act[p] EXCEPT !.at = "missed"]
                     ELSE [act[p] EXCEPT !.dir = NextDir(act[p].dir)]
    <2>1. Become(p, op)
        BY <1>18 DEF Look
    <2>2. op \in Op
        BY <1>a, OpsTyped DEF Steps, NextDir, Dirs
    <2>3. Shape(op)
        BY <1>a, <1>18 DEF Look, Shape, Moving, Holding, Op
    <2> HIDE DEF op
    <2> QED BY <2>1, <2>2, <2>3, Becomes, <1>18 DEF Look
<1>19. ASSUME NEW p \in Procs, Read(p)
      PROVE  Types' /\ CallInv'
    <2> DEFINE item == files[act[p].dir][act[p].id]
               op == IF Exists(act[p].dir, act[p].id)
                       THEN [act[p] EXCEPT !.at = "found", !.item = item] ELSE Idle
    <2>1. act[p].dir \in Dirs /\ act[p].id \in Ids
        BY <1>19, <1>a DEF Read, Op, Shape
    <2>2. item \in SUBSET Record
        BY <2>1
    <2>3. Become(p, op)
        BY <1>19 DEF Read
    <2> HIDE DEF item
    <2>4. op \in Op
        BY <2>2, <1>a, <1>b, OpsTyped DEF Steps
    <2>5. Shape(op)
        BY <1>a, <1>b, <1>19 DEF Read, Shape, Moving, Holding, Op
    <2> HIDE DEF op
    <2> QED BY <2>3, <2>4, <2>5, Becomes, <1>19 DEF Read
<1>20. ASSUME NEW p \in Procs, Return(p)
       PROVE  Types' /\ CallInv'
    BY <1>20, <1>b, Becomes DEF Return
<1>21. ASSUME NEW p \in Procs, Fail(p)
       PROVE  Types' /\ CallInv'
    BY <1>21, <1>b, Becomes, BoundsAssumption DEF Fail
<1> QED BY <1>1, <1>2, <1>3, <1>4, <1>5, <1>6, <1>7, <1>8, <1>9, <1>10, <1>11, <1>12,
           <1>13, <1>14, <1>15, <1>16, <1>17, <1>18, <1>19, <1>20, <1>21 DEF Next

\* A process takes a file's lock only when it is free, works on no other file
\* while it has it, and gives it back when it leaves (_item_lock).
LEMMA LockStep == Types /\ CallInv /\ LockInv /\ [Next]_vars => LockInv'
<1> SUFFICES ASSUME Types, CallInv, LockInv, [Next]_vars
             PROVE  LockInv'
    OBVIOUS
<1> USE NoOneAssumption DEF LockInv, Inside, Goto, Become, Holding
<1>a. act \in [Procs -> Op] /\ lock \in [Dirs -> [Ids -> Procs \cup {NoOne}]]
    BY DEF Types
<1>b. \A p \in Procs : Shape(act[p])
    BY DEF CallInv
<1>1. CASE UNCHANGED vars
    BY <1>1 DEF vars
<1>2. CASE \E i \in Ids : WindowCloses(i)
    BY <1>2 DEF WindowCloses
<1>3. ASSUME NEW p \in Procs, NEW s \in Slugs, Submit(p, s)
      PROVE  LockInv'
    BY <1>3, <1>a, <1>b DEF Submit, Idle, Op, Shape, Moving
<1>4. ASSUME NEW p \in Procs, Capacity(p)
      PROVE  LockInv'
    BY <1>4, <1>a, <1>b DEF Capacity, Idle, Op, Shape, Moving
<1>5. ASSUME NEW p \in Procs, File(p)
      PROVE  LockInv'
    BY <1>5, <1>a, <1>b DEF File, Op, Shape, Moving
<1>6. ASSUME NEW p \in Procs, NEW i \in Ids, NEW k \in {"approved", "rejected", "commented"}, Request(p, i, k)
      PROVE  LockInv'
    BY <1>6, <1>a, <1>b DEF Request, Idle, Op, Shape, Moving
<1>7. ASSUME NEW p \in Procs, Enter(p)
      PROVE  LockInv'
    BY <1>7, <1>a, <1>b DEF Enter, Op, Shape, Moving
<1>8. ASSUME NEW p \in Procs, Timeout(p)
      PROVE  LockInv'
    BY <1>8, <1>a, <1>b DEF Timeout, Idle, Op, Shape, Moving
<1>9. ASSUME NEW p \in Procs, Reread(p)
      PROVE  LockInv'
    BY <1>9, <1>a, <1>b DEF Reread, Op, Shape, Moving
<1>10. ASSUME NEW p \in Procs, Refuse(p)
      PROVE  LockInv'
    BY <1>10, <1>a, <1>b DEF Refuse, Refused, Release, Idle, Op, Shape, Moving
<1>11. ASSUME NEW p \in Procs, Write(p)
      PROVE  LockInv'
    BY <1>11, <1>a, <1>b DEF Write, Release, Op, Shape, Moving
<1>12. ASSUME NEW p \in Procs, Unlink(p)
      PROVE  LockInv'
    BY <1>12, <1>a, <1>b DEF Unlink, Release, Op, Shape, Moving
<1>13. ASSUME NEW p \in Procs, RecordHistory(p)
      PROVE  LockInv'
    BY <1>13, <1>a, <1>b DEF RecordHistory, Refused, Idle, Op, Shape, Moving
<1>14. ASSUME NEW p \in Procs, SweepBegin(p)
      PROVE  LockInv'
    BY <1>14, <1>a, <1>b DEF SweepBegin, Idle, Op, Shape, Moving
<1>15. ASSUME NEW p \in Procs, SweepNext(p)
      PROVE  LockInv'
    BY <1>15, <1>a, <1>b DEF SweepNext, Op, Shape, Moving
<1>16. ASSUME NEW p \in Procs, SweepDir(p)
      PROVE  LockInv'
    BY <1>16, <1>a, <1>b DEF SweepDir, Op, Shape, Moving
<1>17. ASSUME NEW p \in Procs, NEW i \in Ids, Get(p, i)
      PROVE  LockInv'
    BY <1>17, <1>a, <1>b DEF Get, Idle, Op, Shape, Moving
<1>18. ASSUME NEW p \in Procs, Look(p)
      PROVE  LockInv'
    BY <1>18, <1>a, <1>b DEF Look, Op, Shape, Moving
<1>19. ASSUME NEW p \in Procs, Read(p)
      PROVE  LockInv'
    BY <1>19, <1>a, <1>b DEF Read, Idle, Op, Shape, Moving
<1>20. ASSUME NEW p \in Procs, Return(p)
      PROVE  LockInv'
    BY <1>20, <1>a, <1>b DEF Return, Idle, Op, Shape, Moving
<1>21. ASSUME NEW p \in Procs, Fail(p)
      PROVE  LockInv'
    BY <1>21, <1>a, <1>b DEF Fail, Idle, Op, Shape, Moving
<1> QED BY <1>1, <1>2, <1>3, <1>4, <1>5, <1>6, <1>7, <1>8, <1>9, <1>10, <1>11, <1>12,
           <1>13, <1>14, <1>15, <1>16, <1>17, <1>18, <1>19, <1>20, <1>21 DEF Next

\* What a transition makes of a good record is good where it is written.
LEMMA ChangedGood ==
    ASSUME NEW d \in {"pending", "approved"}, NEW r \in Record, GoodIn(d, r),
           NEW k \in Transitions, d = "approved" => k = "expired",
           NEW p \in Procs, NEW i, Allowed(k, i, r)
    PROVE  GoodIn(Target(k), Changed(k, p, r))
<1> USE NoOneAssumption DEF Allowed, Changed, GoodIn, Target, Record
<1>1. CASE k = "approved"
    BY <1>1 DEF Ruled
<1>2. CASE k = "rejected"
    BY <1>2 DEF Ruled
<1>3. CASE k = "commented"
    BY <1>3 DEF Commented
<1>4. CASE k = "expired"
    BY <1>4 DEF Lapsed
<1> QED BY <1>1, <1>2, <1>3, <1>4 DEF Transitions

\* No step makes a record its directory does not say (File, Reread, Write).
LEMMA RecordStep == Types /\ CallInv /\ RecordInv /\ [Next]_vars => RecordInv'
<1> SUFFICES ASSUME Types, CallInv, RecordInv, [Next]_vars
             PROVE  RecordInv'
    OBVIOUS
<1> USE DEF RecordInv, GoodItem, Goto, Become
<1>a. act \in [Procs -> Op] /\ files \in [Dirs -> [Ids -> SUBSET Record]]
    BY DEF Types
<1>b. \A p \in Procs : Shape(act[p])
    BY DEF CallInv
<1>1. CASE UNCHANGED vars
    BY <1>1 DEF vars
<1>2. CASE \E i \in Ids : WindowCloses(i)
    BY <1>2 DEF WindowCloses
<1>3. ASSUME NEW p \in Procs, NEW s \in Slugs, Submit(p, s)
      PROVE  RecordInv'
    BY <1>3, <1>a DEF Submit, Idle
<1>4. ASSUME NEW p \in Procs, Capacity(p)
      PROVE  RecordInv'
    BY <1>4, <1>a DEF Capacity, Idle, Op
<1>5. ASSUME NEW p \in Procs, File(p)
      PROVE  RecordInv'
    <2> DEFINE r == [slug |-> act[p].slug, status |-> "pending", by |-> NoOne,
                     lapsed |-> "none", notes |-> 0]
    <2>1. PICK i \in Ids :
             /\ files' = [files EXCEPT !["pending"][i] = {r}]
             /\ act' = [act EXCEPT ![p] = [act[p] EXCEPT !.at = "record", !.kind = "submitted",
                                                       !.id = i, !.item = {r}]]
        BY <1>5 DEF File, Fresh
    <2>2. GoodIn("pending", r)
        BY DEF GoodIn
    <2> HIDE DEF r
    <2>3. \A d \in Dirs, j \in Ids : \A q, s \in files'[d][j] : q = s /\ GoodIn(d, q)
        BY <2>1, <2>2, <1>a DEF Dirs
    <2>4. \A q \in Procs : GoodItem(act'[q])
        BY <2>1, <1>a DEF Op
    <2> QED BY <2>3, <2>4
<1>6. ASSUME NEW p \in Procs, NEW i \in Ids, NEW k \in {"approved", "rejected", "commented"}, Request(p, i, k)
      PROVE  RecordInv'
    BY <1>6, <1>a DEF Request, Idle
<1>7. ASSUME NEW p \in Procs, Enter(p)
      PROVE  RecordInv'
    BY <1>7, <1>a DEF Enter, Op
<1>8. ASSUME NEW p \in Procs, Timeout(p)
      PROVE  RecordInv'
    BY <1>8, <1>a DEF Timeout, Idle
<1>9. ASSUME NEW p \in Procs, Reread(p)
      PROVE  RecordInv'
    <2> DEFINE r == Rec(act[p].dir, act[p].id)
               c == Changed(act[p].kind, p, r)
    <2>1. /\ act[p].dir \in {"pending", "approved"} /\ act[p].id \in Ids
          /\ act[p].kind \in Transitions
          /\ act[p].dir = "approved" => act[p].kind = "expired"
        BY <1>9, <1>b DEF Reread, Shape, Moving, Holding
    <2>2. r \in files[act[p].dir][act[p].id]
        BY <1>9, RecOnFile DEF Reread
    <2>3. r \in Record /\ GoodIn(act[p].dir, r)
        BY <2>1, <2>2, <1>a DEF Dirs
    <2>4. GoodIn(Target(act[p].kind), c)
        BY <2>1, <2>3, <1>9, ChangedGood DEF Reread
    <2>5. act' = [act EXCEPT ![p] = [act[p] EXCEPT !.at = "write", !.item = {c}]]
        BY <1>9 DEF Reread
    <2> HIDE DEF c
    <2> QED BY <2>4, <2>5, <1>a, <1>9 DEF Reread, Op
<1>10. ASSUME NEW p \in Procs, Refuse(p)
      PROVE  RecordInv'
    BY <1>10, <1>a DEF Refuse, Refused, Release, Idle, Op
<1>11. ASSUME NEW p \in Procs, Write(p)
      PROVE  RecordInv'
    <2>1. act[p].id \in Ids /\ Target(act[p].kind) \in Dirs
        BY <1>11, <1>b DEF Write, Shape, Moving, Holding, Target, Dirs
    <2>2. files' = [files EXCEPT ![Target(act[p].kind)][act[p].id] = act[p].item]
        BY <1>11 DEF Write
    <2>3. \A q \in Procs : /\ act'[q].item = act[q].item
                           /\ act'[q].at = "write" => act'[q] = act[q]
        BY <1>11, <1>a DEF Write, Op
    <2>4. \A d \in Dirs, i \in Ids : \A r, s \in files'[d][i] : r = s /\ GoodIn(d, r)
        BY <2>1, <2>2, <1>11, <1>a DEF Write
    <2>5. \A q \in Procs : GoodItem(act'[q])
        BY <2>3
    <2> QED BY <2>4, <2>5
<1>12. ASSUME NEW p \in Procs, Unlink(p)
      PROVE  RecordInv'
    BY <1>12, <1>a DEF Unlink, Release, Op
<1>13. ASSUME NEW p \in Procs, RecordHistory(p)
      PROVE  RecordInv'
    BY <1>13, <1>a DEF RecordHistory, Refused, Idle, Op
<1>14. ASSUME NEW p \in Procs, SweepBegin(p)
      PROVE  RecordInv'
    BY <1>14, <1>a DEF SweepBegin, Idle
<1>15. ASSUME NEW p \in Procs, SweepNext(p)
      PROVE  RecordInv'
    BY <1>15, <1>a DEF SweepNext, Op
<1>16. ASSUME NEW p \in Procs, SweepDir(p)
      PROVE  RecordInv'
    BY <1>16, <1>a DEF SweepDir, Op
<1>17. ASSUME NEW p \in Procs, NEW i \in Ids, Get(p, i)
      PROVE  RecordInv'
    BY <1>17, <1>a DEF Get, Idle
<1>18. ASSUME NEW p \in Procs, Look(p)
      PROVE  RecordInv'
    BY <1>18, <1>a DEF Look, Op
<1>19. ASSUME NEW p \in Procs, Read(p)
      PROVE  RecordInv'
    <2>1. act[p].dir \in Dirs /\ act[p].id \in Ids
        BY <1>19, <1>a, <1>b DEF Read, Op, Shape
    <2>2. \A r, s \in files[act[p].dir][act[p].id] : r = s
        BY <2>1
    <2> QED BY <2>2, <1>19, <1>a DEF Read, Op, Idle
<1>20. ASSUME NEW p \in Procs, Return(p)
      PROVE  RecordInv'
    BY <1>20, <1>a DEF Return, Idle
<1>21. ASSUME NEW p \in Procs, Fail(p)
      PROVE  RecordInv'
    BY <1>21, <1>a DEF Fail, Idle
<1> QED BY <1>1, <1>2, <1>3, <1>4, <1>5, <1>6, <1>7, <1>8, <1>9, <1>10, <1>11, <1>12,
           <1>13, <1>14, <1>15, <1>16, <1>17, <1>18, <1>19, <1>20, <1>21 DEF Next

\* The facts about the state before a step on which the others rest.
BaseInv == Types /\ CallInv /\ LockInv /\ RecordInv

\* A submission and a write leave what is on file where it is (_write_json).
LEMMA WriteAdds ==
    ASSUME BaseInv, NEW p \in Procs, File(p) \/ Write(p), NEW d \in Dirs, NEW i \in Ids, Exists(d, i)
    PROVE  Exists(d, i)'
<1> USE DEF BaseInv, Types
<1>1. CASE File(p)
    <2>1. \E j \in Ids, r \in {Fresh(p)} : files' = [files EXCEPT !["pending"][j] = {r}]
        BY <1>1 DEF File, Fresh
    <2> QED BY <2>1 DEF Exists, Dirs
<1>2. CASE Write(p)
    <2>1. act[p].item # {}
        BY <1>2 DEF Write, RecordInv, GoodItem
    <2> QED BY <2>1, <1>2 DEF Write, Exists
<1> QED BY <1>1, <1>2

\* A path under a lock stays what the lock's holder found there: no step of
\* another process removes it, or moves the item back (_item_lock).
LEMMA MoveStep == BaseInv /\ MoveInv /\ [Next]_vars => MoveInv'
<1> SUFFICES ASSUME BaseInv, MoveInv, [Next]_vars
             PROVE  MoveInv'
    OBVIOUS
<1> USE DEF MoveInv, Goto, Become, Moved, Exists
<1>a. /\ act \in [Procs -> Op] /\ files \in [Dirs -> [Ids -> SUBSET Record]]
      /\ \A p \in Procs : Shape(act[p])
    BY DEF BaseInv, Types, CallInv
<1>b. \A p, q \in Procs, d \in Dirs, i \in Ids : Inside(p, d, i) /\ Inside(q, d, i) => p = q
    BY DEF BaseInv, LockInv
<1>c. \A p \in Procs : act[p].at \in {"write", "unlink"} =>
          /\ act[p].dir \in {"pending", "approved"} /\ act[p].id \in Ids
          /\ act[p].kind \in Transitions
          /\ act[p].dir = "approved" => act[p].kind = "expired"
          /\ Inside(p, act[p].dir, act[p].id)
    BY <1>a DEF Shape, Moving, Holding, Inside
<1>1. CASE UNCHANGED vars
    BY <1>1 DEF vars
<1>2. CASE \E i \in Ids : WindowCloses(i)
    BY <1>2 DEF WindowCloses
<1>3. ASSUME NEW p \in Procs, NEW s \in Slugs, Submit(p, s)
      PROVE  MoveInv'
    BY <1>3, <1>a DEF Submit, Idle
<1>4. ASSUME NEW p \in Procs, Capacity(p)
      PROVE  MoveInv'
    BY <1>4, <1>a DEF Capacity, Idle, Op
<1>5. ASSUME NEW p \in Procs, File(p)
      PROVE  MoveInv'
    <2>1. \A q \in Procs : act'[q].at \in {"write", "unlink"} => act'[q] = act[q]
        BY <1>5, <1>a DEF File, Op
    <2>2. \A d \in Dirs, i \in Ids : Exists(d, i) => Exists(d, i)'
        BY <1>5, WriteAdds
    <2> QED BY <2>1, <2>2, <1>c DEF Dirs
<1>6. ASSUME NEW p \in Procs, NEW i \in Ids, NEW k \in {"approved", "rejected", "commented"}, Request(p, i, k)
      PROVE  MoveInv'
    BY <1>6, <1>a DEF Request, Idle
<1>7. ASSUME NEW p \in Procs, Enter(p)
      PROVE  MoveInv'
    <2>1. files' = files /\ \A q \in Procs : act'[q].at \in {"write", "unlink"} => act'[q] = act[q]
        BY <1>7, <1>a DEF Enter, Op
    <2> QED BY <2>1
<1>8. ASSUME NEW p \in Procs, Timeout(p)
      PROVE  MoveInv'
    BY <1>8, <1>a DEF Timeout, Idle
<1>9. ASSUME NEW p \in Procs, Reread(p)
      PROVE  MoveInv'
    BY <1>9, <1>a DEF Reread, Op
<1>10. ASSUME NEW p \in Procs, Refuse(p)
      PROVE  MoveInv'
    BY <1>10, <1>a DEF Refuse, Refused, Release, Idle, Op
<1>11. ASSUME NEW p \in Procs, Write(p)
      PROVE  MoveInv'
    <2>1. \A d \in Dirs, i \in Ids : Exists(d, i) => Exists(d, i)'
        BY <1>11, WriteAdds
    <2>2. \A q \in Procs : q # p => act'[q] = act[q]
        BY <1>11, <1>a DEF Write
    <2>3. act[p].item # {}
        BY <1>11 DEF Write, BaseInv, RecordInv, GoodItem
    <2>4. files'[Target(act[p].kind)][act[p].id] = act[p].item
        BY <1>11, <1>a, <1>c DEF Write, Target, Dirs, Transitions
    <2>5. /\ act'[p].at \in {"record", "unlink"} /\ act'[p].dir = act[p].dir
          /\ act'[p].id = act[p].id
          /\ act'[p].at = "unlink" => act[p].kind # "commented"
        BY <1>11, <1>a DEF Write, Op
    <2>6. act[p].at = "write"
        BY <1>11 DEF Write
    <2>7. \A q \in Procs : q # p => (act'[q].at = "unlink" =>
             (IF act[q].dir = "approved" THEN Exists("rejected", act[q].id) ELSE Moved(act[q].id))')
        BY <2>1, <2>2, <1>c DEF Dirs
    <2>8. act'[p].at = "unlink" =>
             (IF act[p].dir = "approved" THEN Exists("rejected", act[p].id) ELSE Moved(act[p].id))'
        BY <2>3, <2>4, <2>5, <2>6, <1>c DEF Target, Transitions
    <2>9. \A q \in Procs : act'[q].at \in {"write", "unlink"} => files'[act'[q].dir][act'[q].id] # {}
        BY <2>1, <2>2, <2>5, <2>6, <1>c DEF Dirs
    <2> QED BY <2>7, <2>8, <2>9
<1>12. ASSUME NEW p \in Procs, Unlink(p)
      PROVE  MoveInv'
    <2>1. files' = [files EXCEPT ![act[p].dir][act[p].id] = {}]
        BY <1>12 DEF Unlink
    <2>2. act[p].at = "unlink"
        BY <1>12 DEF Unlink
    <2>3. \A q \in Procs : act'[q].at \in {"write", "unlink"} => q # p /\ act'[q] = act[q]
        BY <1>12, <1>a DEF Unlink, Op
    <2>4. \A q \in Procs : act'[q].at \in {"write", "unlink"} =>
             act[q].dir # act[p].dir \/ act[q].id # act[p].id
        BY <2>2, <2>3, <1>b, <1>c DEF Dirs
    <2>5. \A d \in Dirs, i \in Ids : d # act[p].dir \/ i # act[p].id => files'[d][i] = files[d][i]
        BY <2>1, <1>a
    <2>6. \A q \in Procs : act'[q].at \in {"write", "unlink"} => files'[act'[q].dir][act'[q].id] # {}
        BY <2>3, <2>4, <2>5, <1>c DEF Dirs
    <2>7. \A i \in Ids : Exists("rejected", i) => Exists("rejected", i)'
        BY <2>2, <2>5, <1>c DEF Dirs
    <2>8. \A i \in Ids : Moved(i) => Moved(i)'
        BY <2>2, <2>5, <2>7, <1>c DEF Dirs
    <2> QED BY <2>3, <2>6, <2>7, <2>8, <1>c
<1>13. ASSUME NEW p \in Procs, RecordHistory(p)
      PROVE  MoveInv'
    BY <1>13, <1>a DEF RecordHistory, Refused, Idle, Op
<1>14. ASSUME NEW p \in Procs, SweepBegin(p)
      PROVE  MoveInv'
    BY <1>14, <1>a DEF SweepBegin, Idle
<1>15. ASSUME NEW p \in Procs, SweepNext(p)
      PROVE  MoveInv'
    BY <1>15, <1>a DEF SweepNext, Op
<1>16. ASSUME NEW p \in Procs, SweepDir(p)
      PROVE  MoveInv'
    BY <1>16, <1>a DEF SweepDir, Op
<1>17. ASSUME NEW p \in Procs, NEW i \in Ids, Get(p, i)
      PROVE  MoveInv'
    BY <1>17, <1>a DEF Get, Idle
<1>18. ASSUME NEW p \in Procs, Look(p)
      PROVE  MoveInv'
    BY <1>18, <1>a DEF Look, Op
<1>19. ASSUME NEW p \in Procs, Read(p)
      PROVE  MoveInv'
    BY <1>19, <1>a DEF Read, Idle, Op
<1>20. ASSUME NEW p \in Procs, Return(p)
      PROVE  MoveInv'
    BY <1>20, <1>a DEF Return, Idle
<1>21. ASSUME NEW p \in Procs, Fail(p)
      PROVE  MoveInv'
    BY <1>21, <1>a DEF Fail, Idle
<1> QED BY <1>1, <1>2, <1>3, <1>4, <1>5, <1>6, <1>7, <1>8, <1>9, <1>10, <1>11, <1>12,
           <1>13, <1>14, <1>15, <1>16, <1>17, <1>18, <1>19, <1>20, <1>21 DEF Next

\* Only a submission, a write and an unlink touch the files.
LEMMA WhoWrites ==
    [Next]_vars => UNCHANGED files \/ \E p \in Procs : File(p) \/ Write(p) \/ Unlink(p)
BY DEF Next, vars, Submit, Capacity, Request, Enter, Timeout, Reread, Refuse, RecordHistory,
       SweepBegin, SweepNext, SweepDir, Get, Look, Read, Return, Fail, WindowCloses

\* An item never leaves the queue, and goes one way through it: from pending/
\* to approved/ to rejected/, whoever dies on the way.
LEMMA OneWay ==
    ASSUME BaseInv, MoveInv, [Next]_vars, NEW i \in Ids
    PROVE  /\ Kept(i) => Kept(i)'
           /\ Moved(i) => Moved(i)'
           /\ Exists("rejected", i) => Exists("rejected", i)'
           /\ Kept(i) /\ ~Exists("pending", i) => ~Exists("pending", i)'
           /\ Kept(i) /\ ~Exists("pending", i) /\ ~Exists("approved", i) => ~Exists("approved", i)'
<1> USE DEF Kept, Moved
<1>a. /\ act \in [Procs -> Op] /\ files \in [Dirs -> [Ids -> SUBSET Record]]
      /\ \A p \in Procs : Shape(act[p])
    BY DEF BaseInv, Types, CallInv
<1>1. CASE UNCHANGED files
    BY <1>1 DEF Exists
<1>2. ASSUME NEW p \in Procs, File(p)
      PROVE  /\ \A d \in Dirs : Exists(d, i) => Exists(d, i)'
             /\ ~Exists("approved", i) => ~Exists("approved", i)'
             /\ Kept(i) /\ ~Exists("pending", i) => ~Exists("pending", i)'
    <2>1. PICK j \in Ids, r \in {Fresh(p)} : /\ \A d \in Dirs : ~Exists(d, j)
                             /\ files' = [files EXCEPT !["pending"][j] = {r}]
        BY <1>2 DEF File, Fresh
    <2> QED BY <2>1, <1>a DEF Exists, Dirs
<1>3. ASSUME NEW p \in Procs, Write(p)
      PROVE  /\ \A d \in Dirs : Exists(d, i) => Exists(d, i)'
             /\ ~Exists("pending", i) => ~Exists("pending", i)'
             /\ ~Exists("pending", i) /\ ~Exists("approved", i) => ~Exists("approved", i)'
    <2>1. \A d \in Dirs : Exists(d, i) => Exists(d, i)'
        BY <1>3, WriteAdds
    <2>2. /\ act[p].id \in Ids /\ act[p].kind \in Transitions
          /\ act[p].dir \in {"pending", "approved"}
          /\ act[p].dir = "approved" => act[p].kind = "expired"
          /\ Exists(act[p].dir, act[p].id)
        BY <1>3, <1>a DEF Write, Shape, Moving, Holding, MoveInv
    <2>3. files' = [files EXCEPT ![Target(act[p].kind)][act[p].id] = act[p].item]
        BY <1>3 DEF Write
    <2>4. /\ Target(act[p].kind) \in Dirs
          /\ Target(act[p].kind) \in {"pending", "approved"} => Exists("pending", act[p].id)
        BY <2>2 DEF Target, Dirs, Transitions
    <2>5. \A d \in Dirs : d # Target(act[p].kind) \/ i # act[p].id => files'[d][i] = files[d][i]
        BY <2>2, <2>3, <2>4, <1>a
    <2> QED BY <2>1, <2>4, <2>5 DEF Exists, Dirs
<1>4. ASSUME NEW p \in Procs, Unlink(p)
      PROVE  /\ Kept(i) => Moved(i) \/ Exists("pending", i)
             /\ \A d \in Dirs : ~Exists(d, i) => ~Exists(d, i)'
             /\ Moved(i) => Moved(i)'
             /\ Exists("rejected", i) => Exists("rejected", i)'
             /\ Kept(i) => Kept(i)'
    <2>1. /\ act[p].id \in Ids /\ act[p].dir \in {"pending", "approved"}
          /\ IF act[p].dir = "approved" THEN Exists("rejected", act[p].id) ELSE Moved(act[p].id)
        BY <1>4, <1>a DEF Unlink, Shape, Moving, Holding, MoveInv
    <2>2. files' = [files EXCEPT ![act[p].dir][act[p].id] = {}]
        BY <1>4 DEF Unlink
    <2> QED BY <2>1, <2>2, <1>a DEF Exists, Dirs
<1> QED BY <1>1, <1>2, <1>3, <1>4, WhoWrites DEF Dirs

\* A ruling is on its way to history only once its item left pending/, which no
\* item does twice: so there is one ruling (_decide, _record_history).
LEMMA RulingStep == BaseInv /\ MoveInv /\ RulingInv /\ [Next]_vars => RulingInv'
<1> SUFFICES ASSUME BaseInv, MoveInv, RulingInv, [Next]_vars
             PROVE  RulingInv'
    OBVIOUS
<1> USE DEF Goto, Become
<1>a. /\ act \in [Procs -> Op]
      /\ \A p \in Procs : Shape(act[p])
      /\ \A row \in history : row.id \in Ids
    BY DEF BaseInv, Types, CallInv
<1>b. \A p \in Procs : act[p].at \in {"unlink", "record"} => act[p].id \in Ids
    BY <1>a DEF Shape, Moving, Holding
<1>c. \A i \in Ids : /\ Kept(i) => Kept(i)'
                     /\ Kept(i) /\ ~Exists("pending", i) => ~Exists("pending", i)'
    BY OneWay
\* A step that adds no row and brings no process to its record keeps all this.
<1>d. ASSUME UNCHANGED history,
             \A q \in Procs : act'[q].at = "record" =>
                  \/ act'[q] = act[q]
                  \/ /\ act'[q].kind \notin Rulings
                     /\ \E i \in Ids : act'[q].id = i /\ Kept(i)'
      PROVE  RulingInv'
    BY <1>a, <1>b, <1>c, <1>d DEF RulingInv, OneRuling
<1>1. CASE UNCHANGED vars
    BY <1>1, <1>d DEF vars
<1>2. CASE \E i \in Ids : WindowCloses(i)
    BY <1>2, <1>d DEF WindowCloses
<1>3. ASSUME NEW p \in Procs, NEW s \in Slugs, Submit(p, s)
      PROVE  RulingInv'
    BY <1>3, <1>a, <1>d DEF Submit, Idle
<1>4. ASSUME NEW p \in Procs, Capacity(p)
      PROVE  RulingInv'
    BY <1>4, <1>a, <1>d DEF Capacity, Idle, Op
<1>5. ASSUME NEW p \in Procs, File(p)
      PROVE  RulingInv'
    <2>1. PICK i \in Ids, r \in {Fresh(p)} :
             /\ files' = [files EXCEPT !["pending"][i] = {r}]
             /\ act' = [act EXCEPT ![p] = [act[p] EXCEPT !.at = "record", !.kind = "submitted",
                                                       !.id = i, !.item = {r}]]
        BY <1>5 DEF File, Fresh
    <2>2. Exists("pending", i)'
        BY <2>1 DEF BaseInv, Types, Exists, Dirs
    <2>3. act'[p].kind = "submitted" /\ act'[p].id = i
        BY <2>1, <1>a DEF Op
    <2> QED BY <2>1, <2>2, <2>3, <1>a, <1>d, <1>5 DEF File, Kept, Dirs, Rulings
<1>6. ASSUME NEW p \in Procs, NEW i \in Ids, NEW k \in {"approved", "rejected", "commented"}, Request(p, i, k)
      PROVE  RulingInv'
    BY <1>6, <1>a, <1>d DEF Request, Idle
<1>7. ASSUME NEW p \in Procs, Enter(p)
      PROVE  RulingInv'
    BY <1>7, <1>a, <1>d DEF Enter, Op
<1>8. ASSUME NEW p \in Procs, Timeout(p)
      PROVE  RulingInv'
    BY <1>8, <1>a, <1>d DEF Timeout, Idle
<1>9. ASSUME NEW p \in Procs, Reread(p)
      PROVE  RulingInv'
    BY <1>9, <1>a, <1>d DEF Reread, Op
<1>10. ASSUME NEW p \in Procs, Refuse(p)
      PROVE  RulingInv'
    BY <1>10, <1>a, <1>d DEF Refuse, Refused, Release, Idle, Op
<1>11. ASSUME NEW p \in Procs, Write(p)
      PROVE  RulingInv'
    <2>1. act[p].id \in Ids /\ Kept(act[p].id)
        BY <1>11, <1>a DEF Write, Shape, Moving, Holding, MoveInv, Kept, Dirs
    <2>2. act'[p].at = "record" => act'[p].id = act[p].id /\ act'[p].kind = "commented"
        BY <1>11, <1>a DEF Write, Op
    <2> QED BY <2>1, <2>2, <1>a, <1>c, <1>d, <1>11 DEF Write, Rulings
<1>12. ASSUME NEW p \in Procs, Unlink(p)
      PROVE  RulingInv'
    <2>0. PICK i \in Ids : i = act[p].id
        BY <1>12, <1>b DEF Unlink
    <2>1. /\ act[p].at = "unlink"
          /\ act[p].dir \in {"pending", "approved"}
          /\ act[p].kind \in Rulings => act[p].dir = "pending"
        BY <1>12, <1>a DEF Unlink, Shape, Moving, Holding, Rulings
    <2>2. /\ Exists(act[p].dir, i)
          /\ Kept(i)
        BY <2>0, <2>1 DEF MoveInv, Kept, Dirs
    <2>3. Kept(i)'
        BY <2>2, <1>c
    <2>4. act[p].kind \in Rulings => ~Exists("pending", i)'
        BY <2>0, <2>1, <1>12 DEF Unlink, Exists, BaseInv, Types, Dirs
    <2>5. act[p].kind \in Rulings =>
             /\ \A row \in history : row.id = i => row.event \notin Rulings
             /\ \A q \in Procs : act[q].at = "record" /\ act[q].id = i => act[q].kind \notin Rulings
        BY <2>1, <2>2 DEF RulingInv
    <2>6. /\ act'[p].id = i /\ act'[p].kind = act[p].kind
          /\ \A q \in Procs : q # p => act'[q] = act[q]
          /\ history' = history
        BY <2>0, <1>12, <1>a DEF Unlink, Op
    <2>7. \A row \in history : Kept(row.id)' /\ (row.event \in Rulings => ~Exists("pending", row.id)')
        BY <1>a, <1>c DEF RulingInv
    <2>8. \A q \in Procs : q # p /\ act[q].at = "record" =>
             /\ Kept(act[q].id)'
             /\ act[q].kind \in Rulings => ~Exists("pending", act[q].id)'
        BY <2>6, <1>a, <1>b, <1>c DEF RulingInv
    <2> QED BY <2>3, <2>4, <2>5, <2>6, <2>7, <2>8 DEF RulingInv, OneRuling
<1>13. ASSUME NEW p \in Procs, RecordHistory(p)
      PROVE  RulingInv'
    <2>0. PICK i \in Ids : i = act[p].id
        BY <1>13, <1>b DEF RecordHistory
    <2>1. act[p].at = "record"
        BY <1>13 DEF RecordHistory
    <2>a. PICK new : new = {[event |-> act[p].kind, id |-> i, item |-> r] : r \in act[p].item}
        OBVIOUS
    <2>2. history' = history \cup new /\ UNCHANGED files
        BY <2>0, <2>a, <1>13 DEF RecordHistory
    <2>3. \A a, b \in new : a = b
        BY <2>a DEF BaseInv, RecordInv, GoodItem
    <2>4. \A a \in new : a.id = i /\ a.event = act[p].kind
        BY <2>a
    <2>5. /\ Kept(i) /\ (act[p].kind \in Rulings => ~Exists("pending", i))
          /\ act[p].kind \in Rulings => \A row \in history : row.id = i => row.event \notin Rulings
        BY <2>0, <2>1 DEF RulingInv
    <2>6. \A row \in history' : Kept(row.id)' /\ (row.event \in Rulings => ~Exists("pending", row.id)')
        BY <2>1, <2>2, <2>4, <2>5, <1>a, <1>c DEF RulingInv
    <2>7. OneRuling'
        BY <2>2, <2>3, <2>4, <2>5 DEF RulingInv, OneRuling, Rulings
    <2>8. /\ act'[p].at # "record"
          /\ \A q \in Procs : q # p => act'[q] = act[q]
        BY <1>13, <1>a DEF RecordHistory, Refused, Idle, Op
    <2>9. \A q \in Procs : q # p /\ act[q].at = "record" =>
             /\ Kept(act[q].id)'
             /\ act[q].kind \in Rulings =>
                   /\ ~Exists("pending", act[q].id)'
                   /\ \A row \in history' : row.id = act[q].id => row.event \notin Rulings
        BY <2>0, <2>1, <2>2, <2>4, <2>8, <1>a, <1>b, <1>c DEF RulingInv
    <2> QED BY <2>6, <2>7, <2>8, <2>9 DEF RulingInv
<1>14. ASSUME NEW p \in Procs, SweepBegin(p)
      PROVE  RulingInv'
    BY <1>14, <1>a, <1>d DEF SweepBegin, Idle
<1>15. ASSUME NEW p \in Procs, SweepNext(p)
      PROVE  RulingInv'
    BY <1>15, <1>a, <1>d DEF SweepNext, Op
<1>16. ASSUME NEW p \in Procs, SweepDir(p)
      PROVE  RulingInv'
    BY <1>16, <1>a, <1>d DEF SweepDir, Op
<1>17. ASSUME NEW p \in Procs, NEW i \in Ids, Get(p, i)
      PROVE  RulingInv'
    BY <1>17, <1>a, <1>d DEF Get, Idle
<1>18. ASSUME NEW p \in Procs, Look(p)
      PROVE  RulingInv'
    BY <1>18, <1>a, <1>d DEF Look, Op
<1>19. ASSUME NEW p \in Procs, Read(p)
      PROVE  RulingInv'
    BY <1>19, <1>a, <1>d DEF Read, Idle, Op
<1>20. ASSUME NEW p \in Procs, Return(p)
      PROVE  RulingInv'
    BY <1>20, <1>a, <1>d DEF Return, Idle
<1>21. ASSUME NEW p \in Procs, Fail(p)
      PROVE  RulingInv'
    BY <1>21, <1>a, <1>d DEF Fail, Idle
<1> QED BY <1>1, <1>2, <1>3, <1>4, <1>5, <1>6, <1>7, <1>8, <1>9, <1>10, <1>11, <1>12,
           <1>13, <1>14, <1>15, <1>16, <1>17, <1>18, <1>19, <1>20, <1>21 DEF Next

\* What a sweep has put behind it stays behind it: a decider that moves an item
\* meanwhile moves it forward (expire_stale).
LEMMA SweepStep == BaseInv /\ MoveInv /\ SweepInv /\ [Next]_vars => SweepInv'
<1> SUFFICES ASSUME BaseInv, MoveInv, SweepInv, [Next]_vars
             PROVE  SweepInv'
    OBVIOUS
<1> USE DEF Goto, Become
<1>a. /\ act \in [Procs -> Op] /\ closed \subseteq Ids
      /\ \A p \in Procs : Shape(act[p])
      /\ \A p \in Procs : act[p].due \subseteq Ids
    BY DEF BaseInv, Types, CallInv, Op
<1>b. \A i \in Ids : /\ Kept(i) => Kept(i)'
                     /\ Kept(i) /\ ~Exists("pending", i) => ~Exists("pending", i)'
                     /\ Kept(i) /\ ~Exists("pending", i) /\ ~Exists("approved", i)
                           => ~Exists("approved", i)'
    BY OneWay
\* What a sweep in progress has behind it.
<1>c. ASSUME NEW q \in Procs, act[q].sweeping, NEW i \in act[q].due
      PROVE  /\ i \in closed /\ Kept(i)'
             /\ act[q].dir = "approved" => ~Exists("pending", i)'
             /\ \/ i \in act[q].todo
                \/ act[q].id = i /\ act[q].at \in Moving
                \/ files'[act[q].dir][i] = {}
    <2>1. SweepOn(q) /\ act[q].dir \in {"pending", "approved"} /\ i \in Ids
        BY <1>a, <1>c DEF SweepInv, Shape
    <2> QED BY <2>1, <1>b, <1>c DEF SweepOn, Exists
\* A process that goes on with its sweep, or is not in one.
<1>d. ASSUME closed \subseteq closed', NEW q \in Procs,
             \/ ~act'[q].sweeping
             \/ /\ act'[q].sweeping = act[q].sweeping /\ act'[q].dir = act[q].dir
                /\ act'[q].id = act[q].id /\ act'[q].todo = act[q].todo
                /\ act'[q].due = act[q].due
                /\ act'[q].at = "swept" => act[q].at = "swept"
                /\ act[q].at \in Moving => act'[q].at \in Moving
      PROVE  SweepOn(q)'
    <2>1. CASE ~act'[q].sweeping
        BY <2>1 DEF SweepOn
    <2>2. CASE act'[q].sweeping
        <3>1. SweepOn(q) /\ act[q].sweeping
            BY <1>d, <2>2 DEF SweepInv
        <3> QED BY <1>c, <1>d, <2>2, <3>1 DEF SweepOn, Exists
    <2> QED BY <2>1, <2>2
<1>1. CASE UNCHANGED vars
    BY <1>1, <1>d DEF vars, SweepInv
<1>2. CASE \E i \in Ids : WindowCloses(i)
    BY <1>2, <1>d DEF WindowCloses, SweepInv
<1>3. ASSUME NEW p \in Procs, NEW s \in Slugs, Submit(p, s)
      PROVE  SweepInv'
    BY <1>3, <1>a, <1>d DEF Submit, Idle, SweepInv
<1>4. ASSUME NEW p \in Procs, Capacity(p)
      PROVE  SweepInv'
    BY <1>4, <1>a, <1>d DEF Capacity, Idle, Op, Shape, Moving, Holding, SweepInv
<1>5. ASSUME NEW p \in Procs, File(p)
      PROVE  SweepInv'
    BY <1>5, <1>a, <1>d DEF File, Op, Shape, Moving, Holding, SweepInv
<1>6. ASSUME NEW p \in Procs, NEW i \in Ids, NEW k \in {"approved", "rejected", "commented"}, Request(p, i, k)
      PROVE  SweepInv'
    BY <1>6, <1>a, <1>d DEF Request, Idle, SweepInv
<1>7. ASSUME NEW p \in Procs, Enter(p)
      PROVE  SweepInv'
    BY <1>7, <1>a, <1>d DEF Enter, Op, Shape, Moving, Holding, SweepInv
<1>8. ASSUME NEW p \in Procs, Timeout(p)
      PROVE  SweepInv'
    BY <1>8, <1>a, <1>d DEF Timeout, Idle, SweepInv
<1>9. ASSUME NEW p \in Procs, Reread(p)
      PROVE  SweepInv'
    BY <1>9, <1>a, <1>d DEF Reread, Op, Shape, Moving, Holding, SweepInv
<1>10. ASSUME NEW p \in Procs, Refuse(p)
      PROVE  SweepInv'
    <2>1. \A q \in Procs : q # p => act'[q] = act[q]
        BY <1>10, <1>a DEF Refuse
    <2>2. CASE ~act[p].sweeping
        BY <2>1, <2>2, <1>10, <1>a, <1>d DEF Refuse, Refused, Idle, SweepInv
    <2>3. CASE act[p].sweeping
        <3>1. /\ act'[p] = [act[p] EXCEPT !.at = "sweep"] /\ UNCHANGED <<files, closed>>
              /\ act[p].kind = "expired"
            BY <2>3, <1>10, <1>a DEF Refuse, Refused, Shape
        <3>2. \A i \in act[p].due : act[p].id = i => ~Exists(act[p].dir, i)
            BY <2>3, <3>1, <1>c, <1>10 DEF Refuse, Allowed
        <3>3. /\ act'[p].dir = act[p].dir /\ act'[p].id = act[p].id /\ act'[p].todo = act[p].todo
              /\ act'[p].due = act[p].due /\ act'[p].at = "sweep"
            BY <3>1, <1>a DEF Op
        <3>4. SweepOn(p)'
            BY <2>3, <3>1, <3>2, <3>3, <1>c DEF SweepOn, Exists
        <3> QED BY <2>1, <3>1, <3>4, <1>d DEF SweepInv
    <2> QED BY <2>2, <2>3
<1>11. ASSUME NEW p \in Procs, Write(p)
      PROVE  SweepInv'
    BY <1>11, <1>a, <1>d DEF Write, Release, Op, Shape, Moving, Holding, SweepInv
<1>12. ASSUME NEW p \in Procs, Unlink(p)
      PROVE  SweepInv'
    <2>1. \A q \in Procs : q # p => act'[q] = act[q]
        BY <1>12, <1>a DEF Unlink
    <2>2. /\ act'[p].sweeping = act[p].sweeping /\ act'[p].dir = act[p].dir /\ act'[p].id = act[p].id
          /\ act'[p].todo = act[p].todo /\ act'[p].due = act[p].due /\ act'[p].at = "record"
        BY <1>12, <1>a DEF Unlink, Op
    <2>3. files'[act[p].dir][act[p].id] = {} /\ closed' = closed
        BY <1>12, <1>a DEF Unlink, Shape, Moving, Holding, BaseInv, Types, Dirs
    <2>4. SweepOn(p)'
        BY <2>2, <2>3, <1>c DEF SweepOn, Exists
    <2> QED BY <2>1, <2>3, <2>4, <1>d DEF SweepInv
<1>13. ASSUME NEW p \in Procs, RecordHistory(p)
      PROVE  SweepInv'
    <2>1. \A q \in Procs : q # p => act'[q] = act[q]
        BY <1>13, <1>a DEF RecordHistory
    <2>2. \/ ~act'[p].sweeping
          \/ /\ act'[p].sweeping = act[p].sweeping /\ act'[p].dir = act[p].dir
             /\ act'[p].id = act[p].id /\ act'[p].todo = act[p].todo
             /\ act'[p].due = act[p].due /\ act'[p].at = "sweep" /\ act[p].at = "record"
        BY <1>13, <1>a DEF RecordHistory, Refused, Idle, Op
    <2> QED BY <2>1, <2>2, <1>d, <1>13 DEF RecordHistory, Moving, Holding, SweepInv
<1>14. ASSUME NEW p \in Procs, SweepBegin(p)
      PROVE  SweepInv'
    <2>1. \A q \in Procs : q # p => act'[q] = act[q]
        BY <1>14, <1>a DEF SweepBegin
    <2>2. /\ act'[p].dir = "pending" /\ act'[p].todo = Pending /\ act'[p].at = "sweep"
          /\ act'[p].due = {i \in closed : Exists("pending", i) \/ Exists("approved", i)}
        BY <1>14, <1>a DEF SweepBegin, Idle
    <2>3. UNCHANGED <<files, closed>>
        BY <1>14 DEF SweepBegin
    <2>4. SweepOn(p)'
        BY <2>2, <2>3, <1>a DEF SweepOn, Exists, Kept, Dirs, Pending
    <2> QED BY <2>1, <2>3, <2>4, <1>d DEF SweepInv
<1>15. ASSUME NEW p \in Procs, SweepNext(p)
      PROVE  SweepInv'
    <2>1. \A q \in Procs : q # p => act'[q] = act[q]
        BY <1>15, <1>a DEF SweepNext
    <2>2. PICK i \in act[p].todo :
             /\ act'[p].todo = act[p].todo \ {i} /\ act'[p].id = i
             /\ act'[p].at = IF Exists(act[p].dir, i) /\ i \in closed THEN "wait" ELSE "sweep"
             /\ act'[p].dir = act[p].dir /\ act'[p].due = act[p].due
        BY <1>15, <1>a DEF SweepNext, Op
    <2>3. UNCHANGED <<files, closed>> /\ act[p].sweeping /\ act[p].at = "sweep"
        BY <1>15, <1>a DEF SweepNext, Shape
    <2>4. \A j \in act[p].due : j \in act[p].todo \/ files'[act[p].dir][j] = {}
        BY <2>3, <1>c DEF Moving, Holding
    <2>5. act'[p].at \in {"wait", "sweep"}
        BY <2>2
    <2>6. \A j \in act[p].due : \/ j \in act'[p].todo
                                \/ act'[p].id = j /\ act'[p].at \in Moving
                                \/ files'[act'[p].dir][j] = {}
        BY <2>2, <2>3, <2>4, <1>c DEF Moving, Exists
    <2>7. SweepOn(p)'
        BY <2>2, <2>3, <2>5, <2>6, <1>c DEF SweepOn, Exists
    <2> QED BY <2>1, <2>3, <2>7, <1>d DEF SweepInv
<1>16. ASSUME NEW p \in Procs, SweepDir(p)
      PROVE  SweepInv'
    <2>1. \A q \in Procs : q # p => act'[q] = act[q]
        BY <1>16, <1>a DEF SweepDir
    <2>2. /\ UNCHANGED <<files, closed>> /\ act[p].sweeping /\ act[p].at = "sweep"
          /\ act[p].todo = {} /\ act[p].dir \in {"pending", "approved"}
        BY <1>16, <1>a DEF SweepDir, Shape
    <2>3. \A j \in act[p].due : j \in Ids /\ files'[act[p].dir][j] = {}
        BY <2>2, <1>a, <1>c DEF Moving, Holding
    <2>4. CASE act[p].dir = "pending"
        <3>1. /\ act'[p].dir = "approved" /\ act'[p].due = act[p].due
              /\ act'[p].todo = {i \in Ids : Exists("approved", i)} /\ act'[p].at = "sweep"
            BY <2>2, <2>4, <1>16, <1>a DEF SweepDir, Op
        <3>2. SweepOn(p)'
            BY <2>2, <2>3, <2>4, <3>1, <1>c DEF SweepOn, Exists
        <3> QED BY <2>1, <2>2, <3>2, <1>d DEF SweepInv
    <2>5. CASE act[p].dir = "approved"
        <3>1. /\ act'[p].dir = "approved" /\ act'[p].due = act[p].due
              /\ act'[p].todo = {} /\ act'[p].at = "swept"
            BY <2>2, <2>5, <1>16, <1>a DEF SweepDir, Op
        <3>2. SweepOn(p)'
            BY <2>2, <2>3, <2>5, <3>1, <1>c DEF SweepOn, Exists
        <3> QED BY <2>1, <2>2, <3>2, <1>d DEF SweepInv
    <2> QED BY <2>2, <2>4, <2>5
<1>17. ASSUME NEW p \in Procs, NEW i \in Ids, Get(p, i)
      PROVE  SweepInv'
    BY <1>17, <1>a, <1>d DEF Get, Idle, SweepInv
<1>18. ASSUME NEW p \in Procs, Look(p)
      PROVE  SweepInv'
    BY <1>18, <1>a, <1>d DEF Look, Op, Shape, Moving, Holding, SweepInv
<1>19. ASSUME NEW p \in Procs, Read(p)
      PROVE  SweepInv'
    BY <1>19, <1>a, <1>d DEF Read, Idle, Op, Shape, Moving, Holding, SweepInv
<1>20. ASSUME NEW p \in Procs, Return(p)
      PROVE  SweepInv'
    BY <1>20, <1>a, <1>d DEF Return, Idle, SweepInv
<1>21. ASSUME NEW p \in Procs, Fail(p)
      PROVE  SweepInv'
    BY <1>21, <1>a, <1>d DEF Fail, Idle, SweepInv
<1> QED BY <1>1, <1>2, <1>3, <1>4, <1>5, <1>6, <1>7, <1>8, <1>9, <1>10, <1>11, <1>12,
           <1>13, <1>14, <1>15, <1>16, <1>17, <1>18, <1>19, <1>20, <1>21 DEF Next

\* What a get has yet to look into holds its item (get).
LEMMA GetStep == BaseInv /\ MoveInv /\ GetInv /\ [Next]_vars => GetInv'
<1> SUFFICES ASSUME BaseInv, MoveInv, GetInv, [Next]_vars
             PROVE  GetInv'
    OBVIOUS
<1> USE DEF Goto, Become
<1>a. /\ act \in [Procs -> Op] /\ closed \subseteq Ids
      /\ \A p \in Procs : Shape(act[p])
      /\ \A p \in Procs : act[p].due \subseteq Ids
    BY DEF BaseInv, Types, CallInv, Op
<1>b. \A i \in Ids : /\ Kept(i) => Kept(i)'
                     /\ Moved(i) => Moved(i)'
                     /\ Exists("rejected", i) => Exists("rejected", i)'
    BY OneWay
\* A process that goes on looking, or does not.
<1>d. ASSUME NEW q \in Procs, act'[q] = act[q] \/ act'[q].at \notin {"look", "missed"}
      PROVE  GetOn(q)'
    BY <1>a, <1>b, <1>d DEF GetOn, GetInv
<1>1. CASE UNCHANGED vars
    BY <1>1, <1>d DEF vars, GetInv
<1>2. CASE \E i \in Ids : WindowCloses(i)
    BY <1>2, <1>d DEF WindowCloses, GetInv
<1>3. ASSUME NEW p \in Procs, NEW s \in Slugs, Submit(p, s)
      PROVE  GetInv'
    BY <1>3, <1>a, <1>d DEF Submit, Idle, GetInv
<1>4. ASSUME NEW p \in Procs, Capacity(p)
      PROVE  GetInv'
    BY <1>4, <1>a, <1>d DEF Capacity, Idle, Op, GetInv
<1>5. ASSUME NEW p \in Procs, File(p)
      PROVE  GetInv'
    BY <1>5, <1>a, <1>d DEF File, Op, GetInv
<1>6. ASSUME NEW p \in Procs, NEW i \in Ids, NEW k \in {"approved", "rejected", "commented"}, Request(p, i, k)
      PROVE  GetInv'
    BY <1>6, <1>a, <1>d DEF Request, Idle, GetInv
<1>7. ASSUME NEW p \in Procs, Enter(p)
      PROVE  GetInv'
    BY <1>7, <1>a, <1>d DEF Enter, Op, GetInv
<1>8. ASSUME NEW p \in Procs, Timeout(p)
      PROVE  GetInv'
    BY <1>8, <1>a, <1>d DEF Timeout, Idle, GetInv
<1>9. ASSUME NEW p \in Procs, Reread(p)
      PROVE  GetInv'
    BY <1>9, <1>a, <1>d DEF Reread, Op, GetInv
<1>10. ASSUME NEW p \in Procs, Refuse(p)
      PROVE  GetInv'
    BY <1>10, <1>a, <1>d DEF Refuse, Refused, Release, Idle, Op, GetInv
<1>11. ASSUME NEW p \in Procs, Write(p)
      PROVE  GetInv'
    BY <1>11, <1>a, <1>d DEF Write, Release, Op, GetInv
<1>12. ASSUME NEW p \in Procs, Unlink(p)
      PROVE  GetInv'
    BY <1>12, <1>a, <1>d DEF Unlink, Release, Op, GetInv
<1>13. ASSUME NEW p \in Procs, RecordHistory(p)
      PROVE  GetInv'
    BY <1>13, <1>a, <1>d DEF RecordHistory, Refused, Idle, Op, GetInv
<1>14. ASSUME NEW p \in Procs, SweepBegin(p)
      PROVE  GetInv'
    BY <1>14, <1>a, <1>d DEF SweepBegin, Idle, GetInv
<1>15. ASSUME NEW p \in Procs, SweepNext(p)
      PROVE  GetInv'
    BY <1>15, <1>a, <1>d DEF SweepNext, Op, GetInv
<1>16. ASSUME NEW p \in Procs, SweepDir(p)
      PROVE  GetInv'
    BY <1>16, <1>a, <1>d DEF SweepDir, Op, GetInv
<1>17. ASSUME NEW p \in Procs, NEW i \in Ids, Get(p, i)
      PROVE  GetInv'
    <2>1. /\ \A q \in Procs : q # p => act'[q] = act[q]
          /\ act'[p].at = "look" /\ act'[p].id = i /\ act'[p].dir = "pending"
          /\ act'[p].due = {j \in {i} : \E d \in Dirs : Exists(d, j)}
          /\ UNCHANGED files
        BY <1>17, <1>a DEF Get, Idle
    <2>2. GetOn(p)'
        BY <2>1 DEF GetOn, Kept, Exists
    <2> QED BY <2>1, <2>2, <1>d DEF GetInv
<1>18. ASSUME NEW p \in Procs, Look(p)
      PROVE  GetInv'
    <2>1. /\ \A q \in Procs : q # p => act'[q] = act[q]
          /\ act'[p].id = act[p].id /\ act'[p].due = act[p].due
          /\ act[p].at = "look" /\ act[p].dir \in Dirs
          /\ UNCHANGED files
        BY <1>18, <1>a DEF Look, Op
    <2>2. \/ act'[p].at = "read"
          \/ /\ ~Exists(act[p].dir, act[p].id)
             /\ \/ act[p].dir = "rejected" /\ act'[p].at = "missed"
                \/ act[p].dir = "approved" /\ act'[p].at = "look" /\ act'[p].dir = "rejected"
                \/ act[p].dir = "pending" /\ act'[p].at = "look" /\ act'[p].dir = "approved"
        BY <2>1, <1>18, <1>a DEF Look, NextDir, Op, Dirs
    <2>3. GetOn(p)'
        BY <2>1, <2>2 DEF GetInv, GetOn, Kept, Moved, Exists, Dirs
    <2> QED BY <2>1, <2>3, <1>d DEF GetInv
<1>19. ASSUME NEW p \in Procs, Read(p)
      PROVE  GetInv'
    BY <1>19, <1>a, <1>d DEF Read, Idle, Op, GetInv
<1>20. ASSUME NEW p \in Procs, Return(p)
      PROVE  GetInv'
    BY <1>20, <1>a, <1>d DEF Return, Idle, GetInv
<1>21. ASSUME NEW p \in Procs, Fail(p)
      PROVE  GetInv'
    BY <1>21, <1>a, <1>d DEF Fail, Idle, GetInv
<1> QED BY <1>1, <1>2, <1>3, <1>4, <1>5, <1>6, <1>7, <1>8, <1>9, <1>10, <1>11, <1>12,
           <1>13, <1>14, <1>15, <1>16, <1>17, <1>18, <1>19, <1>20, <1>21 DEF Next

\* While nothing fails a lock's holder alone moves its item, so that what it
\* read is what it moves: the copies it makes for the time of the move agree
\* (_decide, comment, _expire).
LEMMA CalmStep == BaseInv /\ MoveInv /\ RulingInv /\ CalmInv /\ [Next]_vars => CalmInv'
<1> SUFFICES ASSUME BaseInv, MoveInv, RulingInv, CalmInv, [Next]_vars, failures' = 0
             PROVE  CalmInv'
    BY DEF CalmInv
<1> USE DEF Goto, Become
<1>a. /\ act \in [Procs -> Op] /\ files \in [Dirs -> [Ids -> SUBSET Record]]
      /\ failures \in Nat
      /\ \A p \in Procs : Shape(act[p])
      /\ \A row \in history : row.id \in Ids /\ row.item \in Record
    BY BoundsAssumption DEF BaseInv, Types, CallInv
<1>b. \A p, q \in Procs, d \in Dirs, i \in Ids : Inside(p, d, i) /\ Inside(q, d, i) => p = q
    BY DEF BaseInv, LockInv
<1>x. failures = 0
    <2>1. UNCHANGED failures \/ \E p \in Procs : Fail(p)
        BY DEF Next, vars, Submit, Capacity, File, Request, Enter, Timeout, Reread, Refuse, Write,
               Unlink, RecordHistory, SweepBegin, SweepNext, SweepDir, Get, Look, Read, Return,
               WindowCloses
    <2>2. ASSUME NEW p \in Procs, Fail(p)
          PROVE  FALSE
        BY <2>2, <1>a DEF Fail
    <2> QED BY <2>1, <2>2
<1>c. /\ \A i \in Ids : OneMove(i) /\ OneStory(i)
      /\ \A p \in Procs : InHand(p)
      /\ \A p \in Procs : act[p].at = "record" /\ act[p].kind = "commented" =>
            \A c \in act[p].item : Carried(act[p].id, c)
      /\ \A row \in history : row.event = "commented" => Carried(row.id, row.item)
    BY <1>x DEF CalmInv
<1>d. \A p \in Procs : act[p].at \in {"write", "unlink"} =>
          /\ act[p].dir \in {"pending", "approved"} /\ act[p].id \in Ids
          /\ act[p].kind \in Transitions
          /\ act[p].dir = "approved" => act[p].kind = "expired"
          /\ Inside(p, act[p].dir, act[p].id)
          /\ Exists(act[p].dir, act[p].id)
    BY <1>a DEF Shape, Moving, Holding, Inside, MoveInv
<1>e. /\ \A p \in Procs : act[p].at = "record" =>
            /\ act[p].id \in Ids /\ Kept(act[p].id)
            /\ \A c \in act[p].item : c.notes \in Nat
      /\ \A row \in history : row.id \in Ids /\ Kept(row.id) /\ row.item.notes \in Nat
    BY <1>a, BoundsAssumption DEF RulingInv, Shape, Op, Record
\* A step that touches no file and takes no process to a write or a record.
<1>f. ASSUME UNCHANGED <<files, history>>,
             \A q \in Procs : \/ act'[q] = act[q]
                              \/ act[q].at # "unlink" /\ act'[q].at \notin {"write", "record"}
      PROVE  CalmInv'
    <2>1. \A i \in Ids : OneMove(i)' /\ OneStory(i)'
        BY <1>c, <1>f DEF OneMove, OneStory, Exists, Moved
    <2>2. \A q \in Procs : InHand(q)'
        BY <1>c, <1>f DEF InHand
    <2>3. \A i \in Ids : \A c : Carried(i, c) => Carried(i, c)'
        BY <1>f DEF Carried
    <2> QED BY <2>1, <2>2, <2>3, <1>c, <1>e, <1>f DEF CalmInv
<1>1. CASE UNCHANGED vars
    BY <1>1, <1>f DEF vars
<1>2. CASE \E i \in Ids : WindowCloses(i)
    BY <1>2, <1>f DEF WindowCloses
<1>3. ASSUME NEW p \in Procs, NEW s \in Slugs, Submit(p, s)
      PROVE  CalmInv'
    BY <1>3, <1>a, <1>f DEF Submit, Idle
<1>4. ASSUME NEW p \in Procs, Capacity(p)
      PROVE  CalmInv'
    BY <1>4, <1>a, <1>f DEF Capacity, Idle, Op
<1>5. ASSUME NEW p \in Procs, File(p)
      PROVE  CalmInv'
    <2>1. PICK i \in Ids, r \in {Fresh(p)} :
             /\ \A d \in Dirs : ~Exists(d, i)
             /\ files' = [files EXCEPT !["pending"][i] = {r}]
             /\ act' = [act EXCEPT ![p] = [act[p] EXCEPT !.at = "record", !.kind = "submitted",
                                                       !.id = i, !.item = {r}]]
        BY <1>5 DEF File, Fresh
    <2>2. /\ \A q \in Procs : q # p => act'[q] = act[q]
          /\ act[p].at = "file" /\ act'[p].at = "record" /\ act'[p].kind = "submitted"
          /\ history' = history
        BY <2>1, <1>a, <1>5 DEF File, Op
    <2>3. /\ \A d \in Dirs, j \in Ids : j # i => files'[d][j] = files[d][j]
          /\ files'["pending"][i] = {r} /\ files'["approved"][i] = {} /\ files'["rejected"][i] = {}
        BY <2>1, <1>a DEF Exists, Dirs
    <2>4. \A j \in Ids : OneMove(j)' /\ OneStory(j)'
        <3>1. OneMove(i)' /\ OneStory(i)'
            BY <2>3 DEF OneMove, OneStory, Exists, Moved, Dirs
        <3>2. ASSUME NEW j \in Ids, j # i
              PROVE  OneMove(j)' /\ OneStory(j)'
            BY <1>c, <2>2, <2>3, <3>2 DEF OneMove, OneStory, Exists, Moved, Dirs
        <3> QED BY <3>1, <3>2
    <2>5. \A q \in Procs : InHand(q)'
        <3>1. \A q \in Procs : act[q].at = "write" => act[q].id # i /\ act[q].id \in Ids /\ act[q].dir \in Dirs
            BY <2>1, <1>d DEF Dirs
        <3> QED BY <2>2, <2>3, <3>1, <1>c DEF InHand
    <2>6. \A j \in Ids : \A c : Kept(j) /\ Carried(j, c) => Carried(j, c)'
        BY <2>1, <2>3 DEF Kept, Carried
    <2> QED BY <2>2, <2>4, <2>5, <2>6, <1>c, <1>e DEF CalmInv
<1>6. ASSUME NEW p \in Procs, NEW i \in Ids, NEW k \in {"approved", "rejected", "commented"}, Request(p, i, k)
      PROVE  CalmInv'
    BY <1>6, <1>a, <1>f DEF Request, Idle
<1>7. ASSUME NEW p \in Procs, Enter(p)
      PROVE  CalmInv'
    BY <1>7, <1>a, <1>f DEF Enter, Op
<1>8. ASSUME NEW p \in Procs, Timeout(p)
      PROVE  CalmInv'
    BY <1>8, <1>a, <1>f DEF Timeout, Idle
<1>9. ASSUME NEW p \in Procs, Reread(p)
      PROVE  CalmInv'
    <2> DEFINE r == Rec(act[p].dir, act[p].id)
               c == Changed(act[p].kind, p, r)
    <2>1. act[p].dir \in Dirs /\ act[p].id \in Ids
        BY <1>9, <1>a DEF Reread, Shape, Moving, Holding, Dirs
    <2>2. \A s \in files[act[p].dir][act[p].id] : s = r
        BY <2>1, <1>9, RecOnFile DEF Reread, BaseInv, RecordInv
    <2>3. /\ act'[p].at = "write" /\ act'[p].dir = act[p].dir /\ act'[p].id = act[p].id
          /\ act'[p].kind = act[p].kind /\ act'[p].item = {c}
        BY <1>9, <1>a DEF Reread, Op
    <2>4. /\ \A q \in Procs : q # p => act'[q] = act[q]
          /\ UNCHANGED <<files, history>> /\ act[p].at = "inside"
        BY <1>9, <1>a DEF Reread
    <2>5. InHand(p)'
        BY <2>2, <2>3, <2>4 DEF InHand
    <2>6. \A q \in Procs : q # p => InHand(q)'
        BY <2>4, <1>c DEF InHand
    <2>7. \A i \in Ids : OneMove(i)' /\ OneStory(i)'
        BY <2>4, <1>c DEF OneMove, OneStory, Exists, Moved
    <2>8. \A i \in Ids : \A n : Carried(i, n) => Carried(i, n)'
        BY <2>4 DEF Carried
    <2> QED BY <2>3, <2>4, <2>5, <2>6, <2>7, <2>8, <1>c, <1>e DEF CalmInv
<1>10. ASSUME NEW p \in Procs, Refuse(p)
      PROVE  CalmInv'
    BY <1>10, <1>a, <1>f DEF Refuse, Refused, Release, Idle, Op
<1>11. ASSUME NEW p \in Procs, Write(p)
      PROVE  CalmInv'
    <2>0. PICK i \in Ids : i = act[p].id
        BY <1>11, <1>d DEF Write
    <2>1. /\ act[p].at = "write" /\ act[p].dir \in {"pending", "approved"}
          /\ act[p].kind \in Transitions
          /\ act[p].dir = "approved" => act[p].kind = "expired"
          /\ Exists(act[p].dir, i)
        BY <2>0, <1>11, <1>d DEF Write
    <2>2. PICK r \in files[act[p].dir][i] : \A s \in files[act[p].dir][i] : s = r
        BY <2>1 DEF Exists, BaseInv, RecordInv, Dirs
    <2>3. PICK c : c = Changed(act[p].kind, p, r)
        OBVIOUS
    <2>4. act[p].item = {c}
        BY <2>0, <2>1, <2>2, <2>3, <1>c DEF InHand
    <2>5. /\ r \in Record /\ c \in Record
          /\ c.notes = IF act[p].kind = "commented" THEN r.notes + 1 ELSE r.notes
          /\ act[p].kind \in {"commented", "expired"} => c.by = r.by
        <3>1. r \in Record /\ c \in Record
            BY <1>a, <2>1, <2>2, <2>4 DEF Dirs, Op
        <3>2. r.notes \in Nat /\ c = Changed(act[p].kind, p, r)
            BY <2>3, <3>1, BoundsAssumption DEF Record
        <3>3. CASE act[p].kind \in Rulings
            BY <3>1, <3>2, <3>3 DEF Changed, Ruled, Record, Rulings
        <3>4. CASE act[p].kind = "commented"
            BY <3>1, <3>2, <3>4 DEF Changed, Commented, Record
        <3>5. CASE act[p].kind = "expired"
            BY <3>1, <3>2, <3>5 DEF Changed, Lapsed, Record
        <3> QED BY <2>1, <3>1, <3>3, <3>4, <3>5 DEF Transitions, Rulings
    <2>6. PICK t \in Dirs : t = Target(act[p].kind)
        BY <2>1 DEF Target, Dirs
    <2>7. /\ files'[t][i] = {c}
          /\ \A d \in Dirs, j \in Ids : d # t \/ j # i => files'[d][j] = files[d][j]
        BY <2>0, <2>4, <2>6, <1>a, <1>11 DEF Write
    <2>8. /\ \A q \in Procs : q # p => act'[q] = act[q]
          /\ act'[p].at = IF act[p].kind = "commented" THEN "record" ELSE "unlink"
          /\ act'[p].dir = act[p].dir /\ act'[p].id = i /\ act'[p].item = {c}
          /\ act'[p].kind = act[p].kind
          /\ history' = history
        <3>1. /\ act' = [act EXCEPT ![p] = [act[p] EXCEPT !.at = IF act[p].kind = "commented"
                                                                 THEN "record" ELSE "unlink"]]
              /\ history' = history /\ act[p] \in Op /\ act[p].id = i /\ act[p].item = {c}
            BY <2>0, <2>4, <1>a, <1>11 DEF Write
        <3> QED BY <3>1, <1>a DEF Op
    <2>9. /\ act[p].dir = "pending" => ~Exists("approved", i) /\ ~Exists("rejected", i)
          /\ act[p].dir = "approved" => ~Exists("rejected", i)
        BY <2>0, <2>1, <1>b, <1>c DEF OneMove, Inside, Holding, Moved, Dirs
    <2>10. /\ act[p].kind = "commented" => t = "pending" /\ act[p].dir = "pending"
           /\ act[p].kind = "approved" => t = "approved" /\ act[p].dir = "pending"
           /\ act[p].kind \in {"rejected", "expired"} => t = "rejected"
           /\ act[p].kind # "commented" => files[t][i] = {}
        BY <2>1, <2>6, <2>9 DEF Target, Transitions, Exists
    <2>11. OneMove(i)'
        <3>1. CASE act[p].dir = "pending"
            <4>1. CASE act[p].kind = "commented"
                BY <3>1, <4>1, <2>7, <2>9, <2>10 DEF OneMove, Moved, Exists, Dirs
            <4>2. CASE act[p].kind # "commented"
                BY <3>1, <4>2, <2>1, <2>7, <2>8, <2>9, <2>10 DEF OneMove, Moved, Exists, Dirs, Transitions
            <4> QED BY <4>1, <4>2
        <3>2. CASE act[p].dir = "approved"
            <4>1. t = "rejected" /\ act'[p].at = "unlink" /\ act[p].at = "write"
                <5>1. act[p].kind = "expired"
                    BY <2>1, <3>2
                <5> QED BY <5>1, <2>1, <2>8, <2>10
            <4>2. Exists("pending", i)' => Exists("pending", i) /\ Moved(i)
                BY <4>1, <3>2, <2>1, <2>7 DEF Exists, Moved, Dirs
            <4>3. Exists("pending", i)' =>
                     \E q \in Procs : q # p /\ act[q].at = "unlink" /\ act[q].dir = "pending" /\ act[q].id = i
                BY <4>1, <4>2, <1>c DEF OneMove
            <4> QED BY <4>1, <4>3, <3>2, <2>8 DEF OneMove
        <3> QED BY <2>1, <3>1, <3>2
    <2>12. OneStory(i)'
        <3>1. \A d \in Dirs : d # t => \A s \in files'[d][i] : s.notes = r.notes
            BY <2>1, <2>2, <2>7, <1>c DEF OneStory, Dirs
        <3>2. act[p].kind = "commented" => files'["approved"][i] = {} /\ files'["rejected"][i] = {}
            BY <2>7, <2>9, <2>10 DEF Exists, Dirs
        <3>3. \A d, e \in Dirs : \A x \in files'[d][i], y \in files'[e][i] : x.notes = y.notes
            BY <3>1, <3>2, <2>1, <2>5, <2>7, <2>10 DEF Dirs
        <3>4. \A x \in files'["approved"][i], y \in files'["rejected"][i] : x.by = y.by
            <4>1. CASE act[p].dir = "pending"
                BY <4>1, <2>1, <2>7, <2>9, <2>10 DEF Exists, Dirs, Transitions
            <4>2. CASE act[p].dir = "approved"
                <5>1. act[p].kind = "expired" /\ t = "rejected"
                    BY <4>2, <2>1, <2>10
                <5>2. files'["approved"][i] = files["approved"][i] /\ files'["rejected"][i] = {c}
                    BY <5>1, <2>7 DEF Dirs
                <5> QED BY <5>1, <5>2, <4>2, <2>2, <2>5
            <4> QED BY <4>1, <4>2, <2>1
        <3> QED BY <3>3, <3>4 DEF OneStory
    <2>13. ASSUME NEW j \in Ids, j # i
           PROVE  OneMove(j)' /\ OneStory(j)'
        <3>1. \A d \in Dirs : files'[d][j] = files[d][j]
            BY <2>7, <2>13
        <3>2. OneMove(j) /\ OneStory(j)
            BY <1>c
        <3> QED BY <3>1, <3>2, <2>1, <2>8 DEF OneMove, OneStory, Moved, Exists, Dirs
    <2>14. \A q \in Procs : InHand(q)'
        <3>1. ASSUME NEW q \in Procs, q # p, act[q].at = "write"
              PROVE  files'[act[q].dir][act[q].id] = files[act[q].dir][act[q].id]
            <4>1. /\ act[q].dir \in Dirs /\ act[q].id \in Ids /\ Exists(act[q].dir, act[q].id)
                  /\ act[q].dir # act[p].dir \/ act[q].id # i
                BY <3>1, <2>0, <2>1, <1>b, <1>d DEF Inside, Holding, Dirs
            <4> QED BY <4>1, <2>1, <2>7, <2>10 DEF Exists
        <3> QED BY <3>1, <2>1, <2>8, <1>c DEF InHand
    <2>15. \A j \in Ids : \A n : n.notes \in Nat /\ Carried(j, n) => Carried(j, n)'
        <3>1. ASSUME NEW j \in Ids, j # i, NEW n, Carried(j, n)
              PROVE  Carried(j, n)'
            BY <3>1, <2>7 DEF Carried
        <3>2. ASSUME NEW n, n.notes \in Nat, Carried(i, n)
              PROVE  Carried(i, n)'
            <4>1. r.notes >= n.notes /\ r.notes \in Nat
                BY <3>2, <2>1, <2>2, <2>5, BoundsAssumption DEF Carried, Dirs, Record
            <4>2. c.notes >= n.notes
                BY <4>1, <3>2, <2>5
            <4> QED BY <4>2, <3>2, <2>7 DEF Carried
        <3> QED BY <3>1, <3>2
    <2>16. act'[p].at = "record" => Carried(i, c)'
        <3>1. c.notes >= c.notes
            BY <2>5, BoundsAssumption DEF Record
        <3> QED BY <3>1, <2>7, <2>8, <2>9, <2>10 DEF Carried, Exists, Dirs
    <2>17. \A q \in Procs : act'[q].at = "record" /\ act'[q].kind = "commented" =>
              \A n \in act'[q].item, d \in Dirs : \A s \in files'[d][act'[q].id] : s.notes >= n.notes
        <3>1. \A q \in Procs : act[q].at = "record" /\ act[q].kind = "commented" =>
                 \A n \in act[q].item : Carried(act[q].id, n) /\ n.notes \in Nat /\ act[q].id \in Ids
            BY <1>c, <1>e
        <3>2. \A q \in Procs : q # p /\ act[q].at = "record" /\ act[q].kind = "commented" =>
                 \A n \in act[q].item, d \in Dirs : \A s \in files'[d][act[q].id] : s.notes >= n.notes
            BY <3>1, <2>15 DEF Carried
        <3>3. act'[p].at = "record" =>
                 \A n \in act'[p].item, d \in Dirs : \A s \in files'[d][act'[p].id] : s.notes >= n.notes
            BY <2>8, <2>16 DEF Carried
        <3> QED BY <2>8, <3>2, <3>3
    <2>18. \A row \in history : row.event = "commented" => Carried(row.id, row.item)'
        BY <2>15, <1>c, <1>e
    <2> QED BY <2>8, <2>11, <2>12, <2>13, <2>14, <2>17, <2>18 DEF CalmInv, Carried
<1>12. ASSUME NEW p \in Procs, Unlink(p)
      PROVE  CalmInv'
    <2>0. PICK i \in Ids, u \in {"pending", "approved"} : i = act[p].id /\ u = act[p].dir
        BY <1>12, <1>d DEF Unlink
    <2>1. /\ files'[u][i] = {}
          /\ \A d \in Dirs, j \in Ids : d # u \/ j # i => files'[d][j] = files[d][j]
        BY <2>0, <1>a, <1>12 DEF Unlink, Dirs
    <2>2. /\ \A q \in Procs : q # p => act'[q] = act[q]
          /\ act'[p].at = "record" /\ act'[p].kind # "commented" /\ history' = history
        BY <1>a, <1>12 DEF Unlink, Op, Shape
    <2>3. \A j \in Ids : OneMove(j)'
        BY <2>0, <2>1, <2>2, <1>c DEF OneMove, Moved, Exists, Dirs
    <2>4. \A d \in Dirs, j \in Ids : files'[d][j] \subseteq files[d][j]
        BY <2>1
    <2>5. \A j \in Ids : OneStory(j)'
        BY <2>4, <1>c DEF OneStory, Dirs
    <2>6. \A q \in Procs : InHand(q)'
        BY <2>2, <2>4, <1>c, <1>d DEF InHand, Dirs
    <2>7. \A j \in Ids : \A n : Carried(j, n) => Carried(j, n)'
        BY <2>4 DEF Carried
    <2> QED BY <2>2, <2>3, <2>5, <2>6, <2>7, <1>c, <1>e DEF CalmInv
<1>13. ASSUME NEW p \in Procs, RecordHistory(p)
      PROVE  CalmInv'
    <2>1. /\ \A q \in Procs : q # p => act'[q] = act[q]
          /\ act'[p].at \notin {"write", "record"} /\ act[p].at = "record" /\ UNCHANGED files
        BY <1>a, <1>13 DEF RecordHistory, Refused, Idle, Op
    <2>2. \A i \in Ids : OneMove(i)' /\ OneStory(i)'
        BY <2>1, <1>c DEF OneMove, OneStory, Exists, Moved
    <2>3. \A q \in Procs : InHand(q)'
        BY <2>1, <1>c DEF InHand
    <2>4. \A i \in Ids : \A n : Carried(i, n) => Carried(i, n)'
        BY <2>1 DEF Carried
    <2>5. \A row \in history' : row \in history \/ \E c \in act[p].item :
                row.event = act[p].kind /\ row.id = act[p].id /\ row.item = c
        BY <1>13 DEF RecordHistory
    <2>6. \A row \in history' : row.event = "commented" => Carried(row.id, row.item)'
        BY <2>1, <2>4, <2>5, <1>c, <1>e
    <2> QED BY <2>1, <2>2, <2>3, <2>4, <2>6, <1>c, <1>e DEF CalmInv
<1>14. ASSUME NEW p \in Procs, SweepBegin(p)
      PROVE  CalmInv'
    BY <1>14, <1>a, <1>f DEF SweepBegin, Idle
<1>15. ASSUME NEW p \in Procs, SweepNext(p)
      PROVE  CalmInv'
    BY <1>15, <1>a, <1>f DEF SweepNext, Op
<1>16. ASSUME NEW p \in Procs, SweepDir(p)
      PROVE  CalmInv'
    BY <1>16, <1>a, <1>f DEF SweepDir, Op
<1>17. ASSUME NEW p \in Procs, NEW i \in Ids, Get(p, i)
      PROVE  CalmInv'
    BY <1>17, <1>a, <1>f DEF Get, Idle
<1>18. ASSUME NEW p \in Procs, Look(p)
      PROVE  CalmInv'
    BY <1>18, <1>a, <1>f DEF Look, Op
<1>19. ASSUME NEW p \in Procs, Read(p)
      PROVE  CalmInv'
    BY <1>19, <1>a, <1>f DEF Read, Idle, Op
<1>20. ASSUME NEW p \in Procs, Return(p)
      PROVE  CalmInv'
    BY <1>20, <1>a, <1>f DEF Return, Idle
<1>21. ASSUME NEW p \in Procs, Fail(p)
      PROVE  CalmInv'
    BY <1>a, <1>21 DEF Fail
<1> QED BY <1>1, <1>2, <1>3, <1>4, <1>5, <1>6, <1>7, <1>8, <1>9, <1>10, <1>11, <1>12,
           <1>13, <1>14, <1>15, <1>16, <1>17, <1>18, <1>19, <1>20, <1>21 DEF Next

----------------------------------------------------------------------------
LEMMA InitHolds == Init => IInv
<1> SUFFICES ASSUME Init PROVE IInv
    OBVIOUS
<1> USE NoOneAssumption, BoundsAssumption DEF Init
<1>1. Types
    BY DEF Types, Op, Idle, Kinds, Dirs
<1>2. CallInv
    BY DEF CallInv, Shape, Idle, Moving, Holding
<1>3. LockInv /\ RecordInv /\ MoveInv
    BY DEF LockInv, Inside, RecordInv, GoodItem, MoveInv, Idle, Holding
<1>4. RulingInv /\ SweepInv /\ GetInv
    BY DEF RulingInv, OneRuling, SweepInv, SweepOn, GetInv, GetOn, Idle
<1>5. CalmInv
    BY DEF CalmInv, OneMove, OneStory, InHand, Exists, Moved, Idle, Dirs
<1> QED BY <1>1, <1>2, <1>3, <1>4, <1>5 DEF IInv

LEMMA StepHolds == IInv /\ [Next]_vars => IInv'
BY TypesStep, LockStep, RecordStep, MoveStep, RulingStep, SweepStep, GetStep, CalmStep
   DEF IInv, BaseInv

LEMMA AlwaysIInv == Spec => []IInv
BY InitHolds, StepHolds, PTL DEF Spec

\* Two things at most one of which is there make a set of at most one.
LEMMA AtMostOne ==
    ASSUME NEW S, \A x, y \in S : x = y
    PROVE  Cardinality(S) <= 1
<1>1. CASE S = {}
    BY <1>1, FS_EmptySet
<1>2. CASE S # {}
    <2>1. PICK x : S = {x}
        BY <1>2
    <2> QED BY <2>1, FS_Singleton
<1> QED BY <1>1, <1>2

\* Every variable keeps its type, and no path ever holds two records.
THEOREM TypeCorrect == Spec => []TypeOK
<1>1. IInv => TypeOK
    <2> SUFFICES ASSUME IInv PROVE TypeOK
        OBVIOUS
    <2>1. \A d \in Dirs, i \in Ids : Cardinality(files[d][i]) <= 1
        BY AtMostOne DEF IInv, RecordInv
    <2> QED BY <2>1 DEF IInv, Types, TypeOK
<1> QED BY <1>1, AlwaysIInv, PTL

\* Whoever races and dies over an item, it has one home while nothing has failed
\* and nobody holds it, one ruling, a lapse that says what it lapsed, and every
\* comment its caller saw recorded (_decide, comment, _expire, _record_history).
THEOREM KeptAlways == Spec => []ItemIsKept
<1> SUFFICES IInv => ItemIsKept
    BY AlwaysIInv, PTL
<1> SUFFICES ASSUME IInv PROVE ItemIsKept
    OBVIOUS
<1>1. OneHome
    <2> SUFFICES ASSUME failures = 0, NEW i \in Ids, ~Busy(i)
                 PROVE  Cardinality(Copies(i)) <= 1
        BY DEF OneHome
    <2>1. \A p \in Procs, d \in Dirs : ~Inside(p, d, i)
        BY NoOneAssumption DEF IInv, LockInv, Busy
    <2>2. \A p \in Procs, d \in Dirs : ~(act[p].at = "unlink" /\ act[p].dir = d /\ act[p].id = i)
        BY <2>1 DEF Inside, Holding
    <2>3. /\ ~(Exists("pending", i) /\ Moved(i))
          /\ ~(Exists("approved", i) /\ Exists("rejected", i))
        BY <2>2 DEF IInv, CalmInv, OneMove, Dirs
    <2>4. \A d, e \in Copies(i) : d = e
        BY <2>3 DEF Copies, Moved, Dirs
    <2> QED BY <2>4, AtMostOne
<1>2. OneRuling
    BY DEF IInv, RulingInv
<1>3. LapseKeepsRuling
    BY DEF IInv, RecordInv, GoodIn, LapseKeepsRuling, Dirs
<1>4. CommentsTravel
    <2> SUFFICES ASSUME failures = 0, NEW row \in history, row.event = "commented",
                        NEW d \in Copies(row.id)
                 PROVE  Rec(d, row.id).notes >= row.item.notes
        BY DEF CommentsTravel
    <2>1. d \in Dirs /\ Rec(d, row.id) \in files[d][row.id]
        BY RecOnFile DEF Copies
    <2> QED BY <2>1 DEF IInv, CalmInv, Carried
<1> QED BY <1>1, <1>2, <1>3, <1>4 DEF ItemIsKept

\* get never answers None for an item that was in the queue when it began.
THEOREM NeverMissed == Spec => []GetNeverMisses
<1>1. IInv => GetNeverMisses
    BY DEF IInv, GetInv, GetOn, GetNeverMisses
<1> QED BY <1>1, AlwaysIInv, PTL

\* When expire_stale returns, no item whose window had closed when it began is
\* pending or granted.
THEOREM SweptClean == Spec => []SweepLeavesNoStaleGrant
<1>1. IInv => SweepLeavesNoStaleGrant
    BY DEF IInv, SweepInv, SweepOn, CallInv, Shape, Moving, Holding, SweepLeavesNoStaleGrant
<1> QED BY <1>1, AlwaysIInv, PTL

\* While nothing has failed, a step that moves or rewrites an item leaves its
\* ruling, and the name of who made it, on file (_decide, comment, _expire).
THEOREM RulingsKept == Spec => RulingsStand
<1>1. IInv /\ [Next]_vars => [failures' = 0 => \A i \in Ids : KeepsRulings(i)]_vars
    <2> SUFFICES ASSUME IInv, [Next]_vars, failures' = 0, NEW i \in Ids
                 PROVE  KeepsRulings(i)
        OBVIOUS
    <2> USE DEF KeepsRulings
    <2>a. /\ \A d \in Dirs, j \in Ids : \A r \in files[d][j] : GoodIn(d, r)
          /\ files \in [Dirs -> [Ids -> SUBSET Record]]
          /\ BaseInv
        BY DEF IInv, RecordInv, Types, BaseInv
    <2>c. \A r \in files["pending"][i] : r.by = NoOne
        BY <2>a DEF GoodIn, Dirs
    <2>1. CASE UNCHANGED files
        BY <2>1
    <2>2. ASSUME NEW p \in Procs, File(p)
          PROVE  KeepsRulings(i)
        <3>1. \E j \in Ids, r \in {Fresh(p)} : files' = [files EXCEPT !["pending"][j] = {r}]
            BY <2>2 DEF File, Fresh
        <3> QED BY <3>1, <2>a, <2>c DEF Dirs
    <2>3. ASSUME NEW p \in Procs, Write(p)
          PROVE  KeepsRulings(i)
        <3>1. /\ Shape(act[p]) /\ act[p].at = "write" /\ failures = 0
              /\ Exists(act[p].dir, act[p].id)
            BY <2>3 DEF IInv, CallInv, Write, MoveInv
        <3>2. /\ act[p].dir \in {"pending", "approved"} /\ act[p].id \in Ids
              /\ act[p].kind \in Transitions
              /\ act[p].dir = "approved" => act[p].kind = "expired"
              /\ Inside(p, act[p].dir, act[p].id)
            BY <3>1 DEF Shape, Moving, Holding, Inside
        <3>3. files' = [files EXCEPT ![Target(act[p].kind)][act[p].id] = act[p].item]
            BY <2>3 DEF Write
        <3>4. \A q \in Procs : Inside(q, act[p].dir, act[p].id) => q = p
            BY <3>2 DEF IInv, LockInv, Dirs
        <3>5. \A q \in Procs : ~(act[q].at = "unlink" /\ act[q].dir = act[p].dir /\ act[q].id = act[p].id)
            BY <3>1, <3>4 DEF Inside, Holding
        <3>6. OneMove(act[p].id)
            BY <3>1, <3>2 DEF IInv, CalmInv
        <3>7. Target(act[p].kind) = "pending" \/ files[Target(act[p].kind)][act[p].id] = {}
            BY <3>1, <3>2, <3>5, <3>6 DEF OneMove, Target, Exists, Moved, Transitions
        <3>8. \A d \in Dirs : files'[d][i] = files[d][i] \/ d = "pending" \/ files[d][i] = {}
            BY <3>2, <3>3, <3>7, <2>a DEF Target, Dirs, Transitions
        <3> QED BY <3>8, <2>c DEF Dirs
    <2>4. ASSUME NEW p \in Procs, Unlink(p)
          PROVE  KeepsRulings(i)
        <3>1. /\ act[p].at = "unlink" /\ Shape(act[p]) /\ failures = 0
              /\ act[p].dir = "approved" => Exists("rejected", act[p].id)
            BY <2>4 DEF IInv, CallInv, Unlink, MoveInv
        <3>2. act[p].dir \in {"pending", "approved"} /\ act[p].id \in Ids
            BY <3>1 DEF Shape, Moving, Holding
        <3>3. files' = [files EXCEPT ![act[p].dir][act[p].id] = {}]
            BY <2>4 DEF Unlink
        <3>4. OneStory(i)
            BY <3>1 DEF IInv, CalmInv
        <3>5. CASE act[p].dir = "pending" \/ act[p].id # i
            BY <3>2, <3>3, <3>5, <2>a, <2>c DEF Dirs
        <3>6. CASE act[p].dir = "approved" /\ act[p].id = i
            <4>1. files'["pending"][i] = files["pending"][i] /\ files'["rejected"][i] = files["rejected"][i]
                BY <3>2, <3>3, <3>6, <2>a DEF Dirs
            <4>2. PICK s \in files["rejected"][i] : TRUE
                BY <3>1, <3>6 DEF Exists
            <4>3. \A r \in files["approved"][i] : s.by = r.by
                BY <3>4, <4>2 DEF OneStory
            <4> QED BY <4>1, <4>2, <4>3 DEF Dirs
        <3> QED BY <3>2, <3>5, <3>6
    <2> QED BY <2>1, <2>2, <2>3, <2>4, WhoWrites
<1> QED BY <1>1, AlwaysIInv, PTL DEF Spec, RulingsStand
----------------------------------------------------------------------------
(* The release: what a signature, a record and a CLEAN vouch for            *)

\* What a reader of the manifest relies on: one signature or none.
TextOK(m) ==
    /\ m = [form |-> m.form, block |-> m.block, claimed |-> m.claimed, sigs |-> m.sigs]
    /\ m.sigs = <<>> \/ 1 \in DOMAIN m.sigs

\* A verifier under way has looked at the roots file, and if that holds roots,
\* at the pin.
VerifierOK ==
    /\ verifier = [step |-> verifier.step, dev |-> verifier.dev, crypto |-> verifier.crypto,
                   text |-> verifier.text, checks |-> verifier.checks]
    /\ verifier.step \in {"roots", "text", "hash"} /\ HasRoots(clone)
          => check_pin(clone) \in verifier.checks

\* What a verified record vouches for.
Vouched(text) == SignedBy(text, clone) /\ Pin \in Keys /\ clone.pinned = Pin

\* What a session start that read CLEAN has compared.
RulesAgree(fs, block) ==
    \A f \in RuleFiles : fs[f] = IF f \in DOMAIN block THEN block[f] ELSE Absent

GateOK ==
    /\ gate = [step |-> gate.step, block |-> gate.block, drifts |-> gate.drifts,
               files |-> gate.files, scope |-> gate.scope]
    /\ ledger \in Seq({"CLEAN", "DRIFTED"})
    /\ gate.step = "CLEAN" =>
          /\ posture(ledger) = "READING"
          /\ gate.scope = "checked" => RulesAgree(gate.files, gate.block)

TextsOK ==
    /\ TextOK(manifest)
    /\ builder # <<>> => TextOK(builder)
    /\ signer # <<>> => TextOK(signer.text)

RecordOK == record # <<>> /\ Verified(record.checks) => Vouched(record.text)

BirthOK == birth # <<>> /\ birth.verified => Vouched(birth.text)

TrustInv == TextsOK /\ VerifierOK /\ RecordOK /\ BirthOK /\ GateOK

\* A verified set of checks passed, whatever the development flag.
LEMMA VerifiedPassed ==
    ASSUME NEW checks, NEW dev, Verified(Downgraded(checks, dev)), NEW k \in checks
    PROVE  k.outcome = "PASS"
<1> DEFINE down(c) == IF dev /\ c.outcome \in {"REFUSE", "HALT"} /\ ~c.contradiction
                      THEN [c EXCEPT !.outcome = "WARN", !.downgraded = TRUE] ELSE c
<1>1. down(k) \in Downgraded(checks, dev)
  BY DEF Downgraded
<1>2. down(k).outcome = "PASS" /\ ~down(k).downgraded
  BY <1>1 DEF Verified
<1>3. QED
  BY <1>2

\* A signature check passes only over a signature of an entitled root.
LEMMA PassedIsSigned ==
    ASSUME NEW text, NEW crypto, TextOK(text),
           check_imprint_signature(text, clone, crypto).outcome = "PASS"
    PROVE  SignedBy(text, clone) /\ HasRoots(clone)
<1> DEFINE signers == IF HasRoots(clone) THEN signing_roots(clone) ELSE {}
           sound(s) == \E r \in signers : s.key_id = r.key /\ verify_ed25519(s, r, text)
<1>1. \A id, contradiction : /\ Check(id, "HALT", contradiction).outcome = "HALT"
                             /\ Check(id, "REFUSE", contradiction).outcome = "REFUSE"
  BY DEF Check
<1>2. text.sigs # <<>> /\ \A i \in DOMAIN text.sigs : sound(text.sigs[i])
  BY <1>1 DEF check_imprint_signature
<1>3. 1 \in DOMAIN text.sigs
  BY <1>2 DEF TextOK
<1>4. PICK r \in signers : verify_ed25519(text.sigs[1], r, text)
  BY <1>2, <1>3
<1>5. HasRoots(clone) /\ r \in signing_roots(clone)
  BY <1>4
<1>6. QED
  BY <1>3, <1>4, <1>5 DEF SignedBy, signing_roots, verify_ed25519

\* A session start without a drift read the rules of the block.
LEMMA NoDriftAgrees ==
    ASSUME NEW block, RuleDrifts(block) = {}, rules.there
    PROVE  RulesAgree(rules.files, block)
BY DEF RuleDrifts, RulesAgree

LEMMA TrustInvInit == TrustInit => TrustInv
<1> SUFFICES ASSUME TrustInit PROVE TrustInv
  OBVIOUS
<1>1. TextOK(manifest)
  BY DEF TrustInit, TextOK
<1>2. VerifierOK
  BY DEF TrustInit, VerifierOK, IdleVerifier
<1>3. GateOK
  BY DEF TrustInit, GateOK
<1>4. QED
  BY <1>1, <1>2, <1>3 DEF TrustInit, TrustInv, TextsOK, RecordOK, BirthOK

LEMMA TrustStep == TrustInv /\ [TrustNext]_trustVars => TrustInv'
<1> SUFFICES ASSUME TrustInv, [TrustNext]_trustVars PROVE TrustInv'
  OBVIOUS
<1>a. TextsOK /\ VerifierOK /\ RecordOK /\ BirthOK /\ GateOK
  BY DEF TrustInv
<1>b. ASSUME TextsOK', VerifierOK', RecordOK', BirthOK', GateOK' PROVE TrustInv'
  BY <1>b DEF TrustInv
<1>t. ASSUME UNCHANGED <<manifest, builder, signer>> PROVE TextsOK'
  BY <1>a, <1>t DEF TextsOK, TextOK
<1>v. ASSUME UNCHANGED <<clone, verifier>> PROVE VerifierOK'
  BY <1>a, <1>v DEF VerifierOK, HasRoots, check_pin, pin_is_minted
<1>r. ASSUME UNCHANGED <<clone, record>> PROVE RecordOK'
  BY <1>a, <1>r DEF RecordOK, Vouched, SignedBy
<1>l. ASSUME UNCHANGED <<clone, birth>> PROVE BirthOK'
  BY <1>a, <1>l DEF BirthOK, Vouched, SignedBy
<1>g. ASSUME UNCHANGED <<gate, ledger>> PROVE GateOK'
  BY <1>a, <1>g DEF GateOK, RulesAgree, posture
<1>1. CASE UNCHANGED trustVars
  BY <1>1, <1>b, <1>t, <1>v, <1>r, <1>l, <1>g DEF trustVars
<1>2. CASE BuildRead
  <2>1. /\ builder' = manifest
        /\ UNCHANGED <<clone, manifest, signer, verifier, record, birth, gate, ledger>>
    BY <1>2 DEF BuildRead
  <2>2. TextsOK'
    BY <1>a, <2>1 DEF TextsOK, TextOK
  <2>3. QED
    BY <2>1, <2>2, <1>b, <1>v, <1>r, <1>l, <1>g
<1>3. CASE BuildReplace
  <2> DEFINE hashes == compute_artifacts(bundle)
  <2>1. /\ manifest' = [builder EXCEPT !.block = hashes] /\ builder # <<>> /\ builder' = <<>>
        /\ UNCHANGED <<clone, signer, verifier, record, birth, gate, ledger>>
    BY <1>3 DEF BuildReplace
  <2> HIDE DEF hashes
  <2>2. TextOK(manifest')
    BY <1>a, <2>1 DEF TextsOK, TextOK
  <2>3. TextsOK'
    BY <1>a, <2>1, <2>2 DEF TextsOK, TextOK
  <2>4. QED
    BY <2>1, <2>3, <1>b, <1>v, <1>r, <1>l, <1>g
<1>4. ASSUME NEW k \in Keys, NEW id \in Keys, SignRead(k, id) PROVE TrustInv'
  <2>1. /\ signer' = [text |-> manifest, key |-> k, key_id |-> id]
        /\ UNCHANGED <<clone, manifest, builder, verifier, record, birth, gate, ledger>>
    BY <1>4 DEF SignRead
  <2>2. TextsOK'
    BY <1>a, <2>1 DEF TextsOK, TextOK
  <2>3. QED
    BY <2>1, <2>2, <1>b, <1>v, <1>r, <1>l, <1>g
<1>5. CASE SignReplace
  <2> DEFINE one == [key_id |-> signer.key_id, by |-> signer.key, over |-> signer.text.block]
  <2>1. /\ manifest' = [signer.text EXCEPT !.sigs = <<one>>] /\ signer # <<>> /\ signer' = <<>>
        /\ UNCHANGED <<clone, builder, verifier, record, birth, gate, ledger>>
    BY <1>5 DEF SignReplace, WithSignature
  <2> HIDE DEF one
  <2>2. TextOK(manifest')
    BY <1>a, <2>1 DEF TextsOK, TextOK
  <2>3. TextsOK'
    BY <1>a, <2>1, <2>2 DEF TextsOK, TextOK
  <2>4. QED
    BY <2>1, <2>3, <1>b, <1>v, <1>r, <1>l, <1>g
<1>6. CASE CeremonyDies
  <2>1. /\ \/ builder' = <<>> /\ UNCHANGED signer
           \/ signer' = <<>> /\ UNCHANGED builder
        /\ UNCHANGED <<clone, manifest, verifier, record, birth, gate, ledger>>
    BY <1>6 DEF CeremonyDies
  <2>2. TextsOK'
    BY <1>a, <2>1 DEF TextsOK, TextOK
  <2>3. QED
    BY <2>1, <2>2, <1>b, <1>v, <1>r, <1>l, <1>g
<1>7. ASSUME NEW f \in Files, NEW c, EditBundle(f, c) PROVE TrustInv'
  <2>1. UNCHANGED <<clone, manifest, builder, signer, verifier, record, birth, gate, ledger>>
    BY <1>7 DEF EditBundle
  <2>2. QED
    BY <2>1, <1>b, <1>t, <1>v, <1>r, <1>l, <1>g
<1>8. ASSUME NEW m, EditManifest(m), TextOK(m) PROVE TrustInv'
  <2>1. /\ manifest' = m
        /\ UNCHANGED <<clone, builder, signer, verifier, record, birth, gate, ledger>>
    BY <1>8 DEF EditManifest
  <2>2. TextsOK'
    BY <1>a, <1>8, <2>1 DEF TextsOK, TextOK
  <2>3. QED
    BY <2>1, <2>2, <1>b, <1>v, <1>r, <1>l, <1>g
<1>9. ASSUME NEW f \in RuleFiles, NEW c, EditRules(f, c) PROVE TrustInv'
  <2>1. UNCHANGED <<clone, manifest, builder, signer, verifier, record, birth, gate, ledger>>
    BY <1>9 DEF EditRules
  <2>2. QED
    BY <2>1, <1>b, <1>t, <1>v, <1>r, <1>l, <1>g
<1>10. CASE LoseRules
  <2>1. UNCHANGED <<clone, manifest, builder, signer, verifier, record, birth, gate, ledger>>
    BY <1>10 DEF LoseRules
  <2>2. QED
    BY <2>1, <1>b, <1>t, <1>v, <1>r, <1>l, <1>g
<1>11. ASSUME NEW dev, NEW crypto, NEW cached, VerifyRoots(dev, cached, crypto) PROVE TrustInv'
  <2> DEFINE asked == {check_roots_file(clone), check_revocation(clone, cached)}
                        \cup (IF HasRoots(clone)
                              THEN {check_status(clone), check_root_policy(clone),
                                    check_pin(clone), check_representations(clone, crypto)}
                              ELSE {})
  <2>1. /\ verifier' = [step |-> "roots", dev |-> dev, crypto |-> crypto, text |-> <<>>,
                        checks |-> asked]
        /\ UNCHANGED <<clone, manifest, builder, signer, record, birth, gate, ledger>>
    BY <1>11 DEF VerifyRoots
  <2>2. HasRoots(clone) => check_pin(clone) \in asked
    OBVIOUS
  <2> HIDE DEF asked
  <2>3. /\ verifier' = [step |-> verifier'.step, dev |-> verifier'.dev,
                        crypto |-> verifier'.crypto, text |-> verifier'.text,
                        checks |-> verifier'.checks]
        /\ verifier'.checks = asked
    BY <2>1
  <2>4. HasRoots(clone)' = HasRoots(clone) /\ check_pin(clone)' = check_pin(clone)
    BY <2>1 DEF HasRoots, check_pin, pin_is_minted
  <2>5. VerifierOK'
    BY <2>2, <2>3, <2>4 DEF VerifierOK
  <2>6. QED
    BY <2>1, <2>5, <1>b, <1>t, <1>r, <1>l, <1>g
<1>12. CASE VerifyText
  <2>1. /\ verifier' = [verifier EXCEPT !.step = "text", !.text = manifest]
        /\ verifier.step = "roots"
        /\ UNCHANGED <<clone, manifest, builder, signer, record, birth, gate, ledger>>
    BY <1>12 DEF VerifyText
  <2>2. HasRoots(clone)' = HasRoots(clone) /\ check_pin(clone)' = check_pin(clone)
    BY <2>1 DEF HasRoots, check_pin, pin_is_minted
  <2>3. VerifierOK'
    BY <1>a, <2>1, <2>2 DEF VerifierOK
  <2>4. QED
    BY <2>1, <2>3, <1>b, <1>t, <1>r, <1>l, <1>g
<1>13. CASE VerifyHash
  <2>1. /\ \/ verifier' = IdleVerifier
           \/ \E c : verifier' = [verifier EXCEPT !.step = "hash", !.checks = @ \cup {c}]
        /\ UNCHANGED <<clone, manifest, builder, signer, record, birth, gate, ledger>>
        /\ verifier.step = "text"
    BY <1>13 DEF VerifyHash
  <2>2. HasRoots(clone)' = HasRoots(clone) /\ check_pin(clone)' = check_pin(clone)
    BY <2>1 DEF HasRoots, check_pin, pin_is_minted
  <2>3. CASE verifier' = IdleVerifier
    <3>1. VerifierOK'
      BY <2>3 DEF VerifierOK, IdleVerifier
    <3>2. QED
      BY <2>1, <3>1, <1>b, <1>t, <1>r, <1>l, <1>g
  <2>4. ASSUME NEW c, verifier' = [verifier EXCEPT !.step = "hash", !.checks = @ \cup {c}]
        PROVE  TrustInv'
    <3> DEFINE more == verifier.checks \cup {c}
    <3>1. verifier' = [verifier EXCEPT !.step = "hash", !.checks = more]
      BY <1>a, <2>4 DEF VerifierOK
    <3>2. HasRoots(clone) => check_pin(clone) \in more
      BY <1>a, <2>1 DEF VerifierOK
    <3> HIDE DEF more
    <3>3. VerifierOK'
      BY <1>a, <2>2, <3>1, <3>2 DEF VerifierOK
    <3>4. QED
      BY <2>1, <3>3, <1>b, <1>t, <1>r, <1>l, <1>g
  <2>5. QED
    BY <2>1, <2>3, <2>4
<1>14. CASE VerifySign
  <2> DEFINE sig == check_imprint_signature(manifest, clone, verifier.crypto)
             all == verifier.checks \cup {sig, check_archetypes(clone)}
             quiet == ~touched
  <2>1. /\ verifier.step = "hash" /\ verifier' = IdleVerifier
        /\ record' = [checks |-> Downgraded(all, verifier.dev), text |-> manifest,
                      quiet |-> quiet]
        /\ UNCHANGED <<clone, manifest, builder, signer, birth, gate, ledger>>
    BY <1>14 DEF VerifySign
  <2> HIDE DEF quiet
  <2>2. record'.text = manifest /\ record'.checks = Downgraded(all, verifier.dev)
    BY <2>1
  <2>3. ASSUME Verified(Downgraded(all, verifier.dev)) PROVE Vouched(manifest)
    <3>1. \A k \in all : k.outcome = "PASS"
      BY <2>3, VerifiedPassed
    <3>2. sig \in all
      OBVIOUS
    <3> HIDE DEF all
    <3>3. TextOK(manifest)
      BY <1>a DEF TextsOK
    <3>4. SignedBy(manifest, clone) /\ HasRoots(clone)
      BY <3>1, <3>2, <3>3, PassedIsSigned
    <3>5. check_pin(clone) \in all
      BY <1>a, <2>1, <3>4 DEF VerifierOK, all
    <3>6. check_pin(clone).outcome = "PASS"
      BY <3>1, <3>5
    <3>7. Pin \in Keys /\ clone.pinned = Pin
      BY <3>6 DEF check_pin, Check, pin_is_minted
    <3>8. QED
      BY <3>4, <3>7 DEF Vouched
  <2> HIDE DEF all
  <2>4. Vouched(record.text)' = Vouched(manifest)
    BY <2>1, <2>2 DEF Vouched, SignedBy
  <2>5. Verified(record.checks)' = Verified(Downgraded(all, verifier.dev))
    BY <2>2 DEF Verified
  <2>6. RecordOK'
    BY <2>3, <2>4, <2>5 DEF RecordOK
  <2>7. VerifierOK'
    BY <2>1 DEF VerifierOK, IdleVerifier
  <2>8. QED
    BY <2>1, <2>6, <2>7, <1>b, <1>t, <1>l, <1>g
<1>15. ASSUME NEW copied, CopyRules(copied) PROVE TrustInv'
  <2> DEFINE verified == Verified(record.checks)
  <2>1. /\ record # <<>>
        /\ birth' = [text |-> record.text, verified |-> verified, quiet |-> record.quiet]
        /\ UNCHANGED <<clone, manifest, builder, signer, verifier, record, gate, ledger>>
    BY <1>15 DEF CopyRules
  <2>2. verified => Vouched(record.text)
    BY <1>a, <2>1 DEF RecordOK
  <2> HIDE DEF verified
  <2>3. birth'.text = record.text /\ birth'.verified = verified
    BY <2>1
  <2>4. Vouched(birth.text)' = Vouched(record.text)
    BY <2>1, <2>3 DEF Vouched, SignedBy
  <2>5. BirthOK'
    BY <2>2, <2>3, <2>4 DEF BirthOK
  <2>6. QED
    BY <2>1, <2>5, <1>b, <1>t, <1>v, <1>r, <1>g
<1>16. CASE GateArtifacts
  <2>1. UNCHANGED <<clone, manifest, builder, signer, verifier, record, birth, ledger>>
    BY <1>16 DEF GateArtifacts
  <2>2. GateOK'
    BY <1>16, <1>a DEF GateArtifacts, GateOK
  <2>3. QED
    BY <2>1, <2>2, <1>b, <1>t, <1>v, <1>r, <1>l
<1>17. CASE GateBundle
  <2>1. UNCHANGED <<clone, manifest, builder, signer, verifier, record, birth, ledger>>
    BY <1>17 DEF GateBundle
  <2>2. GateOK'
    BY <1>17, <1>a DEF GateBundle, GateOK
  <2>3. QED
    BY <2>1, <2>2, <1>b, <1>t, <1>v, <1>r, <1>l
<1>18. CASE GateRules
  <2> DEFINE report == IntegrityReport(gate.drifts \cup RuleDrifts(gate.block))
  <2>1. /\ gate' = [gate EXCEPT !.step = report.verdict, !.drifts = report.drifts,
                                !.files = report.rules_files, !.scope = report.rules_scope]
        /\ ledger' = Append(ledger, report.verdict)
        /\ UNCHANGED <<clone, manifest, builder, signer, verifier, record, birth>>
    BY <1>18 DEF GateRules, Recorded
  <2>2. /\ report.rules_files = rules.files
        /\ report.verdict \in {"CLEAN", "DRIFTED"}
        /\ report.verdict = "CLEAN" => RuleDrifts(gate.block) = {}
        /\ report.rules_scope = "checked" => rules.there
    BY DEF IntegrityReport
  <2> HIDE DEF report
  <2>3. /\ gate' = [step |-> gate'.step, block |-> gate'.block, drifts |-> gate'.drifts,
                    files |-> gate'.files, scope |-> gate'.scope]
        /\ gate'.step = report.verdict /\ gate'.block = gate.block
        /\ gate'.files = report.rules_files /\ gate'.scope = report.rules_scope
    BY <1>a, <2>1 DEF GateOK
  <2>4. ledger' \in Seq({"CLEAN", "DRIFTED"}) /\ ledger' # <<>>
        /\ ledger'[Len(ledger')] = report.verdict
    BY <1>a, <2>1, <2>2 DEF GateOK
  <2>5. gate'.step = "CLEAN" => posture(ledger') = "READING"
    BY <2>3, <2>4 DEF posture
  <2>6. gate'.step = "CLEAN" /\ gate'.scope = "checked" => RulesAgree(gate'.files, gate'.block)
    BY <2>2, <2>3, NoDriftAgrees
  <2>7. GateOK'
    BY <2>3, <2>4, <2>5, <2>6 DEF GateOK, posture, RulesAgree
  <2>8. QED
    BY <2>1, <2>7, <1>b, <1>t, <1>v, <1>r, <1>l
<1>19. TextOK(EmptySigs(manifest))
  BY <1>a DEF EmptySigs, TextsOK, TextOK
<1>20. \A f : TextOK([manifest EXCEPT !.claimed = @ \ {f}])
  <2> SUFFICES ASSUME NEW f PROVE TextOK([manifest EXCEPT !.claimed = @ \ {f}])
    OBVIOUS
  <2> DEFINE others == manifest.claimed \ {f}
  <2>1. [manifest EXCEPT !.claimed = @ \ {f}] = [manifest EXCEPT !.claimed = others]
    BY <1>a DEF TextsOK, TextOK
  <2> HIDE DEF others
  <2>2. TextOK([manifest EXCEPT !.claimed = others])
    BY <1>a DEF TextsOK, TextOK
  <2>3. QED
    BY <2>1, <2>2
<1>21. \A form : TextOK([manifest EXCEPT !.form = form])
  BY <1>a DEF TextsOK, TextOK
<1>22. QED
  BY <1>1, <1>2, <1>3, <1>4, <1>5, <1>6, <1>7, <1>8, <1>9, <1>10, <1>11, <1>12, <1>13,
     <1>14, <1>15, <1>16, <1>17, <1>18, <1>19, <1>20, <1>21 DEF TrustNext

LEMMA TrustAlways == TrustSpec => []TrustInv
BY TrustInvInit, TrustStep, PTL DEF TrustSpec

LEMMA TrustHolds == TrustInv => VerifiedMeansSigned /\ CleanMeansSigned
<1>1. TrustInv => VerifiedMeansSigned
  BY DEF TrustInv, RecordOK, VerifiedMeansSigned, Vouched
<1>2. TrustInv => CleanMeansSigned
  <2> SUFFICES ASSUME TrustInv, gate.step = "CLEAN", gate.scope = "checked",
                      birth # <<>>, birth.verified, gate.block = birth.text.block
               PROVE  /\ posture(ledger) = "READING"
                      /\ SignedBy(birth.text, clone)
                      /\ RulesAgree(gate.files, birth.text.block)
    BY DEF CleanMeansSigned, RulesAgree
  <2>1. QED
    BY DEF TrustInv, BirthOK, GateOK, Vouched
<1>3. QED
  BY <1>1, <1>2

\* A record never reads verified without a signature of an active, entitled
\* root over the block it is about, and with the compiled pin: whatever
\* carriers clones ship, whoever builds, signs or edits meanwhile.
THEOREM VerifiedIsSigned == TrustSpec => []VerifiedMeansSigned
BY TrustHolds, TrustAlways, PTL

\* From the release to the window: CLEAN on a node born of a verified record
\* means that what was read as its rules is exactly what a root signed, for any
\* set of rule files and however often bundle, manifest and rules were edited.
THEOREM CleanIsSigned == TrustSpec => []CleanMeansSigned
BY TrustHolds, TrustAlways, PTL
----------------------------------------------------------------------------
(* The ceremony: what a journal, a sitting and the published keys hold      *)

PastRoot == {"mint-intermediate", "sign-imprint", "three-carrier-edit", "verify", "record",
             "summary", "complete"}
PastInter == PastRoot \ {"mint-intermediate"}
PastSign  == PastInter \ {"sign-imprint"}
PastEdit  == PastSign \ {"three-carrier-edit"}
Early     == {"preflight", "medium", "passphrase", "mint-root"}

\* The steps a journal holds done bear out what they left: the keys on the
\* medium m, the carriers c, and the key by of the signature.
Borne(done, m, c, by) ==
    /\ "mint-root" \in DOMAIN done => m.root # 0 /\ done["mint-root"] = m.root
    /\ "mint-intermediate" \in DOMAIN done =>
          "mint-root" \in DOMAIN done /\ done["mint-intermediate"] = m.inter
    /\ "sign-imprint" \in DOMAIN done =>
          "mint-intermediate" \in DOMAIN done /\ by \in {0, m.inter}
    /\ "three-carrier-edit" \in DOMAIN done =>
          /\ "sign-imprint" \in DOMAIN done
          /\ c.roots = m.root /\ c.inter = m.inter /\ c.pin = m.root /\ c.doc = m.root

\* A step that is behind a sitting is done, in a fresh one no step ahead is.
Placed(s) ==
    /\ s = [pc |-> s.pc, resume |-> s.resume, done |-> s.done, mediumOk |-> s.mediumOk,
            write |-> s.write, carrier |-> s.carrier]
    /\ s.pc \in Early \cup PastRoot \cup {"idle"}
    /\ s.write \in {"none", "medium", "local"}
    /\ s.write # "none" => s.pc \in DOMAIN s.done /\ s.pc \notin {"idle", "complete"}
    /\ s.pc \in PastRoot => "mint-root" \in DOMAIN s.done
    /\ s.pc \in PastInter => "mint-intermediate" \in DOMAIN s.done
    /\ s.pc \in PastSign => "sign-imprint" \in DOMAIN s.done
    /\ s.pc \in PastEdit => "three-carrier-edit" \in DOMAIN s.done
    /\ ~s.resume /\ s.pc \in Early /\ (s.pc = "mint-root" => s.write = "none")
          => "mint-root" \notin DOMAIN s.done
    /\ ~s.resume /\ s.pc \in Early \cup {"mint-intermediate"}
          /\ (s.pc = "mint-intermediate" => s.write = "none")
          => "mint-intermediate" \notin DOMAIN s.done
    /\ \/ s.pc \notin {"idle", "preflight", "medium"}
       \/ s.pc = "medium" /\ s.write # "none"
       \/ s.write = "medium"
       => s.mediumOk
    /\ s.carrier \in 0..3 /\ (s.carrier > 0 => s.pc \in PastSign)

\* What the editors wrote so far in this sitting is on the medium.
Written(s, m, c) ==
    /\ s.carrier > 0 => c.roots = m.root /\ c.inter = m.inter
    /\ s.carrier > 1 => c.pin = m.root
    /\ s.carrier > 2 => c.doc = m.root

\* Past the medium, both journals are the sitting's as soon as they are written.
Synced(s, j) ==
    /\ s.mediumOk /\ s.write # "medium" => j.medium = [there |-> TRUE, done |-> s.done]
    /\ s.mediumOk /\ s.write = "none" => j.local = [there |-> TRUE, done |-> s.done]

Minted(done) == {"mint-root", "mint-intermediate"} \subseteq DOMAIN done

\* No carrier holds a key before a root does; in one fresh sitting and its
\* resumptions whoever could mint finds both mintings done.
Published(s, m, c, j, f) ==
    /\ c.roots = 0 => c.inter = 0 /\ c.pin = 0
    /\ f = 0 => c.roots = 0 /\ s.pc = "idle" /\ ~j.local.there /\ ~j.medium.there
    /\ f <= 1 /\ c.roots # 0 =>
          /\ c.roots = m.root /\ c.inter = m.inter /\ c.pin \in {0, m.root}
          /\ s.pc # "idle" => Minted(s.done)
          /\ j.local.there => Minted(j.local.done)
          /\ j.medium.there => Minted(j.medium.done)

Records ==
    /\ medium = [root |-> medium.root, inter |-> medium.inter]
    /\ carriers = [roots |-> carriers.roots, inter |-> carriers.inter, pin |-> carriers.pin,
                   doc |-> carriers.doc]
    /\ signed = [block |-> signed.block, by |-> signed.by, over |-> signed.over]
    /\ journal = [medium |-> journal.medium, local |-> journal.local]
    /\ keys \in Nat /\ fresh \in Nat

CeremonyInv ==
    /\ Records
    /\ Placed(sitting)
    /\ Borne(sitting.done, medium, carriers, signed.by)
    /\ Borne(journal.medium.done, medium, carriers, signed.by)
    /\ Borne(journal.local.done, medium, carriers, signed.by)
    /\ Written(sitting, medium, carriers)
    /\ Synced(sitting, journal)
    /\ Published(sitting, medium, carriers, journal, fresh)

\* The steps are ten, and no two are the same.
LEMMA StepList ==
    /\ Len(W!STEPS) = 10
    /\ W!STEPS[1] = "preflight"
    /\ W!STEPS[2] = "medium"
    /\ W!STEPS[3] = "passphrase"
    /\ W!STEPS[4] = "mint-root"
    /\ W!STEPS[5] = "mint-intermediate"
    /\ W!STEPS[6] = "sign-imprint"
    /\ W!STEPS[7] = "three-carrier-edit"
    /\ W!STEPS[8] = "verify"
    /\ W!STEPS[9] = "record"
    /\ W!STEPS[10] = "summary"
BY DEF W!STEPS

LEMMA StepAfter ==
    ASSUME NEW i \in 1..10
    PROVE  W!After(W!STEPS[i]) = IF i = 10 THEN "complete" ELSE W!STEPS[i + 1]
<1> DEFINE same(j) == W!STEPS[j] = W!STEPS[i]
           n == CHOOSE j \in 1..10 : same(j)
<1>1. \A j \in 1..10 : same(j) => j = i
  BY StepList
<1>2. n \in 1..10 /\ same(n)
  OBVIOUS
<1>3. n = i
  BY <1>1, <1>2
<1>4. W!After(W!STEPS[i]) = IF n = Len(W!STEPS) THEN "complete" ELSE W!STEPS[n + 1]
  BY StepList DEF W!After
<1>5. QED
  BY <1>3, <1>4, StepList

\* What comes after each step.
LEMMA StepOrder ==
    /\ W!After("preflight") = "medium"
    /\ W!After("medium") = "passphrase"
    /\ W!After("passphrase") = "mint-root"
    /\ W!After("mint-root") = "mint-intermediate"
    /\ W!After("mint-intermediate") = "sign-imprint"
    /\ W!After("sign-imprint") = "three-carrier-edit"
    /\ W!After("three-carrier-edit") = "verify"
    /\ W!After("verify") = "record"
    /\ W!After("record") = "summary"
    /\ W!After("summary") = "complete"
<1>1. W!After("preflight") = "medium"
  <2>1. 1 \in 1..10
    OBVIOUS
  <2>2. QED
    BY <2>1, StepList, StepAfter
<1>2. W!After("medium") = "passphrase"
  <2>1. 2 \in 1..10
    OBVIOUS
  <2>2. QED
    BY <2>1, StepList, StepAfter
<1>3. W!After("passphrase") = "mint-root"
  <2>1. 3 \in 1..10
    OBVIOUS
  <2>2. QED
    BY <2>1, StepList, StepAfter
<1>4. W!After("mint-root") = "mint-intermediate"
  <2>1. 4 \in 1..10
    OBVIOUS
  <2>2. QED
    BY <2>1, StepList, StepAfter
<1>5. W!After("mint-intermediate") = "sign-imprint"
  <2>1. 5 \in 1..10
    OBVIOUS
  <2>2. QED
    BY <2>1, StepList, StepAfter
<1>6. W!After("sign-imprint") = "three-carrier-edit"
  <2>1. 6 \in 1..10
    OBVIOUS
  <2>2. QED
    BY <2>1, StepList, StepAfter
<1>7. W!After("three-carrier-edit") = "verify"
  <2>1. 7 \in 1..10
    OBVIOUS
  <2>2. QED
    BY <2>1, StepList, StepAfter
<1>8. W!After("verify") = "record"
  <2>1. 8 \in 1..10
    OBVIOUS
  <2>2. QED
    BY <2>1, StepList, StepAfter
<1>9. W!After("record") = "summary"
  <2>1. 9 \in 1..10
    OBVIOUS
  <2>2. QED
    BY <2>1, StepList, StepAfter
<1>10. W!After("summary") = "complete"
  <2>1. 10 \in 1..10
    OBVIOUS
  <2>2. QED
    BY <2>1, StepList, StepAfter
<1>11. QED
  BY <1>1, <1>2, <1>3, <1>4, <1>5, <1>6, <1>7, <1>8, <1>9, <1>10

\* Everything the ceremony's steps may change but do not.
RestKept == UNCHANGED <<medium, carriers, signed, journal, keys, fresh>>

LEMMA CeremonyInvInit == W!WizardInit => CeremonyInv
<1> SUFFICES ASSUME W!WizardInit PROVE CeremonyInv
  OBVIOUS
<1>1. \A m, c, by : Borne(<<>>, m, c, by)
  BY DEF Borne
<1>2. sitting.done = <<>> /\ journal.medium.done = <<>> /\ journal.local.done = <<>>
  BY DEF W!WizardInit, W!Idle, W!NoJournal
<1>3. Records
  BY DEF W!WizardInit, Records
<1>4. Placed(sitting)
  BY DEF W!WizardInit, W!Idle, Placed, Early, PastRoot, PastInter, PastSign, PastEdit
<1>5. Written(sitting, medium, carriers) /\ Synced(sitting, journal)
      /\ Published(sitting, medium, carriers, journal, fresh)
  BY DEF W!WizardInit, W!Idle, W!NoJournal, Written, Synced, Published
<1>6. QED
  BY <1>1, <1>2, <1>3, <1>4, <1>5 DEF CeremonyInv

\* Between two sittings, and when one ends, nothing is in memory.
LEMMA IdleHolds ==
    /\ Placed(W!Idle)
    /\ \A m, c, by : Borne(W!Idle.done, m, c, by)
    /\ \A m, c : Written(W!Idle, m, c)
    /\ \A j : Synced(W!Idle, j)
    /\ W!Idle.pc = "idle" /\ ~W!Idle.mediumOk /\ W!Idle.write = "none" /\ W!Idle.carrier = 0
BY DEF W!Idle, Placed, Borne, Written, Synced, Early, PastRoot, PastInter, PastSign, PastEdit

LEMMA StopKeeps ==
    ASSUME CeremonyInv, sitting' = W!Idle, RestKept
    PROVE  CeremonyInv'
<1>1. Published(sitting', medium, carriers, journal, fresh)
  BY IdleHolds DEF CeremonyInv, Published
<1>2. QED
  BY <1>1, IdleHolds DEF CeremonyInv, RestKept, Records

\* What a sitting is once it knows a medium, and what a new one is.
LEMMA MediumForm ==
    ASSUME NEW c, c = [pc |-> c.pc, resume |-> c.resume, done |-> c.done,
                       mediumOk |-> c.mediumOk, write |-> c.write, carrier |-> c.carrier],
           NEW a, NEW b, NEW s, s = [c EXCEPT !.mediumOk = a, !.write = b]
    PROVE  /\ s = [pc |-> s.pc, resume |-> s.resume, done |-> s.done, mediumOk |-> s.mediumOk,
                   write |-> s.write, carrier |-> s.carrier]
           /\ s.pc = c.pc /\ s.resume = c.resume /\ s.done = c.done
           /\ s.mediumOk = a /\ s.write = b /\ s.carrier = c.carrier
<1>1. s = [pc |-> c.pc, resume |-> c.resume, done |-> c.done,
           mediumOk |-> a, write |-> b, carrier |-> c.carrier]
  OBVIOUS
<1>2. QED
  BY <1>1

LEMMA StartForm ==
    ASSUME NEW c, c = [pc |-> c.pc, resume |-> c.resume, done |-> c.done,
                       mediumOk |-> c.mediumOk, write |-> c.write, carrier |-> c.carrier],
           NEW p, NEW a, NEW b, NEW s, s = [c EXCEPT !.pc = p, !.resume = a, !.done = b]
    PROVE  /\ s = [pc |-> s.pc, resume |-> s.resume, done |-> s.done, mediumOk |-> s.mediumOk,
                   write |-> s.write, carrier |-> s.carrier]
           /\ s.pc = p /\ s.resume = a /\ s.done = b
           /\ s.mediumOk = c.mediumOk /\ s.write = c.write /\ s.carrier = c.carrier
<1>1. s = [pc |-> p, resume |-> a, done |-> b,
           mediumOk |-> c.mediumOk, write |-> c.write, carrier |-> c.carrier]
  OBVIOUS
<1>2. QED
  BY <1>1

\* A fresh sitting starts from nothing, a resumed one from a journal.
LEMMA StartKeeps ==
    ASSUME CeremonyInv, NEW resume \in BOOLEAN, NEW host,
           NEW j \in {journal.local, journal.medium, W!NoJournal}, W!Start(resume, j, host)
    PROVE  CeremonyInv'
<1> DEFINE s == [W!Idle EXCEPT !.pc = "preflight", !.resume = resume, !.done = j.done]
<1>1. /\ sitting' = s /\ W!Load(resume, j)
      /\ fresh' = IF resume THEN fresh ELSE fresh + 1
      /\ UNCHANGED <<medium, carriers, signed, journal, keys>>
  BY DEF W!Start
<1>2. W!Idle = [pc |-> W!Idle.pc, resume |-> W!Idle.resume, done |-> W!Idle.done,
                mediumOk |-> W!Idle.mediumOk, write |-> W!Idle.write,
                carrier |-> W!Idle.carrier]
  BY IdleHolds DEF Placed
<1>a. s = [W!Idle EXCEPT !.pc = "preflight", !.resume = resume, !.done = j.done]
  OBVIOUS
<1> HIDE DEF s
<1>3. /\ s.pc = "preflight" /\ s.resume = resume /\ s.done = j.done /\ ~s.mediumOk
      /\ s.write = "none" /\ s.carrier = 0
      /\ s = [pc |-> s.pc, resume |-> s.resume, done |-> s.done, mediumOk |-> s.mediumOk,
              write |-> s.write, carrier |-> s.carrier]
  <2>1. /\ s = [pc |-> s.pc, resume |-> s.resume, done |-> s.done, mediumOk |-> s.mediumOk,
                 write |-> s.write, carrier |-> s.carrier]
        /\ s.pc = "preflight" /\ s.resume = resume /\ s.done = j.done
        /\ s.mediumOk = W!Idle.mediumOk /\ s.write = W!Idle.write
        /\ s.carrier = W!Idle.carrier
    BY <1>2, <1>a, StartForm
  <2>2. QED
    BY <2>1, IdleHolds
<1>4. Borne(j.done, medium, carriers, signed.by)
      /\ (~resume => DOMAIN j.done = {} /\ fresh' = fresh + 1)
      /\ (resume => fresh' = fresh /\ (j = journal.local \/ j = journal.medium) /\ j.there)
  BY <1>1 DEF CeremonyInv, W!Load, W!NoJournal, Borne
<1>5. Placed(s)
  BY <1>3, <1>4 DEF Placed, Early, PastRoot, PastInter, PastSign, PastEdit
<1>6. Written(s, medium, carriers) /\ Synced(s, journal)
  BY <1>3 DEF Written, Synced
<1>7. Published(s, medium, carriers, journal, fresh')
  BY <1>3, <1>4 DEF CeremonyInv, Published, Records
<1>8. Records'
  BY <1>1 DEF CeremonyInv, Records
<1>9. QED
  BY <1>1, <1>3, <1>4, <1>5, <1>6, <1>7, <1>8 DEF CeremonyInv

\* Completing a step adds it to what is done, and calls for the journals.
LEMMA CompletedForm ==
    ASSUME Placed(sitting), NEW step, NEW data, sitting.pc = step
    PROVE  LET s == W!Completed(step, data)
           IN  /\ s = [pc |-> s.pc, resume |-> s.resume, done |-> s.done,
                       mediumOk |-> s.mediumOk, write |-> s.write, carrier |-> s.carrier]
               /\ s.pc = step /\ s.resume = sitting.resume /\ s.mediumOk = sitting.mediumOk
               /\ s.carrier = sitting.carrier
               /\ s.write = IF sitting.mediumOk THEN "medium" ELSE "local"
               /\ DOMAIN s.done = DOMAIN sitting.done \cup {step}
               /\ s.done[step] = data
               /\ \A x \in DOMAIN sitting.done : x # step => s.done[x] = sitting.done[x]
<1> DEFINE done == [x \in DOMAIN sitting.done \cup {step} |->
                       IF x = step THEN data ELSE sitting.done[x]]
           write == IF sitting.mediumOk THEN "medium" ELSE "local"
           s == W!Completed(step, data)
<1>1. s = [sitting EXCEPT !.done = done, !.write = write]
  BY DEF W!Completed, Placed
<1>2. /\ DOMAIN done = DOMAIN sitting.done \cup {step} /\ done[step] = data
      /\ \A x \in DOMAIN sitting.done : x # step => done[x] = sitting.done[x]
  OBVIOUS
<1>3. write = IF sitting.mediumOk THEN "medium" ELSE "local"
  OBVIOUS
<1> HIDE DEF done, write, s
<1>4. s = [pc |-> sitting.pc, resume |-> sitting.resume, done |-> done,
           mediumOk |-> sitting.mediumOk, write |-> write, carrier |-> sitting.carrier]
  BY <1>1 DEF Placed
<1>5. /\ s.pc = step /\ s.resume = sitting.resume /\ s.mediumOk = sitting.mediumOk
      /\ s.carrier = sitting.carrier /\ s.write = write /\ s.done = done
      /\ s = [pc |-> s.pc, resume |-> s.resume, done |-> s.done,
              mediumOk |-> s.mediumOk, write |-> s.write, carrier |-> s.carrier]
  BY <1>4
<1>6. QED
  BY <1>2, <1>3, <1>5 DEF s

Plain == {"preflight", "medium", "passphrase", "verify", "record", "summary"}

\* A step that leaves nothing behind: what is done is as it was, and it.
LEMMA PlainKeeps ==
    ASSUME CeremonyInv, NEW step \in Plain, W!At(step), RestKept, NEW s,
           s = sitting',
           s = [pc |-> s.pc, resume |-> s.resume, done |-> s.done,
                mediumOk |-> s.mediumOk, write |-> s.write, carrier |-> s.carrier],
           s.pc = step, s.resume = sitting.resume, s.carrier = sitting.carrier,
           s.write \in {"medium", "local"},
           sitting.mediumOk => s.mediumOk,
           s.mediumOk <=> s.write = "medium", step = "medium" => s.mediumOk,
           DOMAIN s.done = DOMAIN sitting.done \cup {step},
           \A x \in DOMAIN sitting.done : x # step => s.done[x] = sitting.done[x]
    PROVE  CeremonyInv'
<1>1. sitting.pc = step /\ sitting.write = "none"
  BY DEF W!At
<1>2. Borne(s.done, medium, carriers, signed.by)
  BY DEF CeremonyInv, Borne, Plain
<1>3. Placed(s)
  BY <1>1 DEF CeremonyInv, Placed, Plain, Early, PastRoot, PastInter, PastSign, PastEdit
<1>4. Written(s, medium, carriers) /\ Synced(s, journal)
  BY <1>1 DEF CeremonyInv, Written, Synced
<1>5. Published(s, medium, carriers, journal, fresh)
  BY <1>1 DEF CeremonyInv, Published, Minted, Plain
<1>6. QED
  BY <1>2, <1>3, <1>4, <1>5 DEF CeremonyInv, RestKept, Records

LEMMA PlainStep ==
    ASSUME CeremonyInv, NEW step \in Plain \ {"medium"}, W!At(step), RestKept, NEW data,
           sitting' = W!Completed(step, data)
    PROVE  CeremonyInv'
<1> DEFINE s == W!Completed(step, data)
<1>1. sitting.pc = step /\ Placed(sitting)
  BY DEF W!At, CeremonyInv
<1>2. /\ s = [pc |-> s.pc, resume |-> s.resume, done |-> s.done,
              mediumOk |-> s.mediumOk, write |-> s.write, carrier |-> s.carrier]
      /\ s.pc = step /\ s.resume = sitting.resume /\ s.mediumOk = sitting.mediumOk
      /\ s.carrier = sitting.carrier
      /\ s.write = IF sitting.mediumOk THEN "medium" ELSE "local"
      /\ DOMAIN s.done = DOMAIN sitting.done \cup {step}
      /\ s.done[step] = data
      /\ \A x \in DOMAIN sitting.done : x # step => s.done[x] = sitting.done[x]
  BY <1>1, CompletedForm
<1> HIDE DEF s
<1>3. s = sitting'
  BY DEF s
<1>4. QED
  BY <1>2, <1>3, PlainKeeps

\* The medium step is the one after which the sitting knows a medium.
LEMMA MediumKeeps ==
    ASSUME CeremonyInv, W!step_medium
    PROVE  CeremonyInv'
<1> DEFINE c == W!Completed("medium", 0)
           s == [c EXCEPT !.mediumOk = TRUE, !.write = "medium"]
<1>1. W!At("medium") /\ sitting' = s /\ RestKept
  BY DEF W!step_medium, RestKept
<1>2. sitting.pc = "medium" /\ Placed(sitting)
  BY <1>1 DEF W!At, CeremonyInv
<1>3. /\ c = [pc |-> c.pc, resume |-> c.resume, done |-> c.done,
              mediumOk |-> c.mediumOk, write |-> c.write, carrier |-> c.carrier]
      /\ c.pc = "medium" /\ c.resume = sitting.resume /\ c.carrier = sitting.carrier
      /\ DOMAIN c.done = DOMAIN sitting.done \cup {"medium"}
      /\ \A x \in DOMAIN sitting.done : x # "medium" => c.done[x] = sitting.done[x]
  BY <1>2, CompletedForm
<1> HIDE DEF c
<1>4. s = [c EXCEPT !.mediumOk = TRUE, !.write = "medium"]
  OBVIOUS
<1> HIDE DEF s
<1>5. /\ s.pc = c.pc /\ s.resume = c.resume /\ s.done = c.done /\ s.mediumOk = TRUE
      /\ s.write = "medium" /\ s.carrier = c.carrier
      /\ s = [pc |-> s.pc, resume |-> s.resume, done |-> s.done,
              mediumOk |-> s.mediumOk, write |-> s.write, carrier |-> s.carrier]
  BY <1>3, <1>4, MediumForm
<1>6. "medium" \in Plain
  BY DEF Plain
<1>7. QED
  BY <1>1, <1>3, <1>5, <1>6, PlainKeeps

\* Going on to the next step, one that is done.
LEMMA OnwardKeeps ==
    ASSUME CeremonyInv, NEW step, W!At(step), step # "medium", sitting.resume,
           step \in DOMAIN sitting.done, step \notin {"idle", "complete"},
           W!Onward(step), RestKept
    PROVE  CeremonyInv'
<1> DEFINE next == W!After(step)
<1>1. sitting' = [sitting EXCEPT !.pc = next] /\ Placed(sitting)
      /\ sitting.pc = step /\ sitting.write = "none"
  BY DEF W!Onward, W!At, CeremonyInv
<1>2. \/ step = "preflight" /\ next = "medium"
      \/ step = "passphrase" /\ next = "mint-root"
      \/ step = "mint-root" /\ next = "mint-intermediate"
      \/ step = "mint-intermediate" /\ next = "sign-imprint"
      \/ step = "sign-imprint" /\ next = "three-carrier-edit"
      \/ step = "three-carrier-edit" /\ next = "verify"
      \/ step = "verify" /\ next = "record"
      \/ step = "record" /\ next = "summary"
      \/ step = "summary" /\ next = "complete"
  BY <1>1, StepOrder DEF Placed, Early, PastRoot
<1> HIDE DEF next
<1> DEFINE s == sitting'
<1>3. /\ s.pc = next /\ s.resume = sitting.resume /\ s.done = sitting.done
      /\ s.mediumOk = sitting.mediumOk /\ s.write = sitting.write
      /\ s.carrier = sitting.carrier
      /\ s = [pc |-> s.pc, resume |-> s.resume, done |-> s.done,
              mediumOk |-> s.mediumOk, write |-> s.write, carrier |-> s.carrier]
  BY <1>1 DEF Placed
<1> HIDE DEF s
<1>4. Placed(s)
  BY <1>1, <1>2, <1>3 DEF Placed, Early, PastRoot, PastInter, PastSign, PastEdit
<1>5. Borne(s.done, medium, carriers, signed.by) /\ Written(s, medium, carriers)
      /\ Synced(s, journal)
  BY <1>3 DEF CeremonyInv, Written, Synced
<1>6. Published(s, medium, carriers, journal, fresh)
  BY <1>1, <1>2, <1>3 DEF CeremonyInv, Published
<1>7. QED
  BY <1>4, <1>5, <1>6 DEF CeremonyInv, RestKept, Records, s

\* The medium's journal is written.
LEMMA WriteMediumKeeps ==
    ASSUME CeremonyInv, W!WriteMedium
    PROVE  CeremonyInv'
<1> DEFINE s == sitting'
           j == journal'
<1>1. /\ sitting' = [sitting EXCEPT !.write = "local"] /\ sitting.write = "medium"
      /\ journal' = [journal EXCEPT !.medium = [there |-> TRUE, done |-> sitting.done]]
      /\ UNCHANGED <<medium, carriers, signed, keys, fresh>>
  BY DEF W!WriteMedium
<1>2. /\ s.pc = sitting.pc /\ s.resume = sitting.resume /\ s.done = sitting.done
      /\ s.mediumOk = sitting.mediumOk /\ s.write = "local" /\ s.carrier = sitting.carrier
      /\ s = [pc |-> s.pc, resume |-> s.resume, done |-> s.done,
              mediumOk |-> s.mediumOk, write |-> s.write, carrier |-> s.carrier]
  BY <1>1 DEF CeremonyInv, Placed
<1>3. j.local = journal.local /\ j.medium = [there |-> TRUE, done |-> sitting.done]
      /\ j = [medium |-> j.medium, local |-> j.local] /\ j.medium.done = sitting.done
  BY <1>1 DEF CeremonyInv, Records
<1> HIDE DEF s, j
<1>4. Placed(s)
  BY <1>1, <1>2 DEF CeremonyInv, Placed, Early, PastRoot, PastInter, PastSign, PastEdit
<1>5. Written(s, medium, carriers) /\ Synced(s, j)
  BY <1>1, <1>2, <1>3 DEF CeremonyInv, Written, Synced
<1>6. Published(s, medium, carriers, j, fresh)
  BY <1>1, <1>2, <1>3 DEF CeremonyInv, Published, Placed
<1>7. Borne(s.done, medium, carriers, signed.by) /\ Borne(j.medium.done, medium, carriers, signed.by)
      /\ Borne(j.local.done, medium, carriers, signed.by)
  BY <1>2, <1>3 DEF CeremonyInv
<1>8. Records'
  BY <1>1, <1>3 DEF CeremonyInv, Records, j
<1>9. QED
  BY <1>1, <1>4, <1>5, <1>6, <1>7, <1>8 DEF CeremonyInv, s, j

\* The repository's journal is written, and the sitting goes on.
LEMMA WriteLocalKeeps ==
    ASSUME CeremonyInv, W!WriteLocal
    PROVE  CeremonyInv'
<1> DEFINE s == sitting'
           j == journal'
           next == W!After(sitting.pc)
<1>1. /\ sitting' = [sitting EXCEPT !.write = "none", !.pc = next] /\ sitting.write = "local"
      /\ journal' = [journal EXCEPT !.local = [there |-> TRUE, done |-> sitting.done]]
      /\ UNCHANGED <<medium, carriers, signed, keys, fresh>> /\ Placed(sitting)
  BY DEF W!WriteLocal, CeremonyInv
<1>2. \/ sitting.pc = "preflight" /\ next = "medium"
      \/ sitting.pc = "medium" /\ next = "passphrase"
      \/ sitting.pc = "passphrase" /\ next = "mint-root"
      \/ sitting.pc = "mint-root" /\ next = "mint-intermediate"
      \/ sitting.pc = "mint-intermediate" /\ next = "sign-imprint"
      \/ sitting.pc = "sign-imprint" /\ next = "three-carrier-edit"
      \/ sitting.pc = "three-carrier-edit" /\ next = "verify"
      \/ sitting.pc = "verify" /\ next = "record"
      \/ sitting.pc = "record" /\ next = "summary"
      \/ sitting.pc = "summary" /\ next = "complete"
  BY <1>1, StepOrder DEF Placed, Early, PastRoot
<1> HIDE DEF next
<1>3. /\ s.pc = next /\ s.resume = sitting.resume /\ s.done = sitting.done
      /\ s.mediumOk = sitting.mediumOk /\ s.write = "none" /\ s.carrier = sitting.carrier
      /\ s = [pc |-> s.pc, resume |-> s.resume, done |-> s.done,
              mediumOk |-> s.mediumOk, write |-> s.write, carrier |-> s.carrier]
  BY <1>1 DEF Placed
<1>4. j.medium = journal.medium /\ j.local = [there |-> TRUE, done |-> sitting.done]
      /\ j = [medium |-> j.medium, local |-> j.local] /\ j.local.done = sitting.done
  BY <1>1 DEF CeremonyInv, Records
<1> HIDE DEF s, j
<1>5. Placed(s)
  BY <1>1, <1>2, <1>3 DEF Placed, Early, PastRoot, PastInter, PastSign, PastEdit
<1>6. Written(s, medium, carriers) /\ Synced(s, j)
  BY <1>1, <1>3, <1>4 DEF CeremonyInv, Written, Synced
<1>7. Published(s, medium, carriers, j, fresh)
  BY <1>1, <1>2, <1>3, <1>4 DEF CeremonyInv, Published, Placed
<1>8. Borne(s.done, medium, carriers, signed.by) /\ Borne(j.medium.done, medium, carriers, signed.by)
      /\ Borne(j.local.done, medium, carriers, signed.by)
  BY <1>3, <1>4 DEF CeremonyInv
<1>9. Records'
  BY <1>1, <1>4 DEF CeremonyInv, Records, j
<1>10. QED
  BY <1>1, <1>5, <1>6, <1>7, <1>8, <1>9 DEF CeremonyInv, s, j

\* A key is minted over whatever the medium held under its name: nothing done
\* so far rests on that.
LEMMA MintRootKeeps ==
    ASSUME CeremonyInv, W!step_mint_root
    PROVE  CeremonyInv'
<1> DEFINE step == "mint-root"
<1>1. /\ W!At(step) /\ sitting.pc = step /\ sitting.write = "none"
      /\ UNCHANGED <<carriers, signed, journal, fresh>>
      /\ Placed(sitting)
  BY DEF W!step_mint_root, W!Mint, W!At, CeremonyInv
<1>2. ASSUME W!Skip(step) PROVE CeremonyInv'
  <2>1. W!Onward(step) /\ RestKept /\ sitting.resume /\ step \in DOMAIN sitting.done
    BY <1>1, <1>2 DEF W!step_mint_root, W!Mint, W!Skip, W!Done, RestKept
  <2>2. QED
    BY <1>1, <2>1, OnwardKeeps
<1>3. ASSUME ~W!Skip(step) PROVE CeremonyInv'
  <2> DEFINE m == medium'
             s == sitting'
  <2>1. /\ keys' = keys + 1 /\ medium' = [medium EXCEPT !["root"] = keys + 1]
        /\ sitting' = W!Completed(step, keys + 1)
    BY <1>3 DEF W!step_mint_root, W!Mint, W!NewKey
  <2>2. step \notin DOMAIN sitting.done
    BY <1>1, <1>3 DEF W!Skip, W!Done, W!ALWAYS_RERUN, Placed, Early
  <2>3. m.root = keys + 1 /\ m.inter = medium.inter
        /\ m = [root |-> m.root, inter |-> m.inter] /\ keys \in Nat /\ fresh \in Nat
    BY <2>1 DEF CeremonyInv, Records
  <2>4. /\ s = [pc |-> s.pc, resume |-> s.resume, done |-> s.done,
                mediumOk |-> s.mediumOk, write |-> s.write, carrier |-> s.carrier]
        /\ s.pc = step /\ s.resume = sitting.resume /\ s.mediumOk = sitting.mediumOk
        /\ s.carrier = sitting.carrier
        /\ s.write = IF sitting.mediumOk THEN "medium" ELSE "local"
        /\ DOMAIN s.done = DOMAIN sitting.done \cup {step}
        /\ s.done[step] = keys + 1
        /\ \A x \in DOMAIN sitting.done : x # step => s.done[x] = sitting.done[x]
    BY <1>1, <2>1, CompletedForm
  <2> HIDE DEF m, s
  <2>5. sitting.mediumOk /\ s.write = "medium" /\ sitting.carrier = 0
    BY <1>1, <2>4 DEF Placed, Early, PastRoot, PastInter, PastSign
  <2>6. journal.medium.done = sitting.done /\ journal.local.done = sitting.done
    BY <1>1, <2>5 DEF CeremonyInv, Synced
  <2>7. Borne(sitting.done, m, carriers, signed.by)
    BY <2>2, <2>3 DEF CeremonyInv, Borne
  <2>8. Borne(s.done, m, carriers, signed.by)
    BY <1>1, <2>2, <2>3, <2>4 DEF CeremonyInv, Borne, Placed, PastRoot
  <2>9. Placed(s)
    BY <1>1, <2>4, <2>5 DEF Placed, Early, PastRoot, PastInter, PastSign, PastEdit
  <2>10. Written(s, m, carriers) /\ Synced(s, journal)
    BY <2>4, <2>5 DEF Written, Synced
  <2>11. Published(s, m, carriers, journal, fresh)
    BY <1>1, <2>2 DEF CeremonyInv, Published, Minted
  <2>12. Records'
    BY <1>1, <2>1, <2>3 DEF CeremonyInv, Records, m
  <2>13. QED
    BY <1>1, <2>6, <2>7, <2>8, <2>9, <2>10, <2>11, <2>12 DEF CeremonyInv, m, s
<1>4. QED
  BY <1>2, <1>3

LEMMA MintInterKeeps ==
    ASSUME CeremonyInv, W!step_mint_intermediate
    PROVE  CeremonyInv'
<1> DEFINE step == "mint-intermediate"
<1>1. /\ W!At(step) /\ sitting.pc = step /\ sitting.write = "none"
      /\ UNCHANGED <<carriers, signed, journal, fresh>>
      /\ Placed(sitting)
  BY DEF W!step_mint_intermediate, W!Mint, W!At, CeremonyInv
<1>2. ASSUME W!Skip(step) PROVE CeremonyInv'
  <2>1. W!Onward(step) /\ RestKept /\ sitting.resume /\ step \in DOMAIN sitting.done
    BY <1>1, <1>2 DEF W!step_mint_intermediate, W!Mint, W!Skip, W!Done, RestKept
  <2>2. QED
    BY <1>1, <2>1, OnwardKeeps
<1>3. ASSUME ~W!Skip(step) PROVE CeremonyInv'
  <2> DEFINE m == medium'
             s == sitting'
  <2>1. /\ keys' = keys + 1 /\ medium' = [medium EXCEPT !["inter"] = keys + 1]
        /\ sitting' = W!Completed(step, keys + 1)
    BY <1>3 DEF W!step_mint_intermediate, W!Mint, W!NewKey
  <2>2. step \notin DOMAIN sitting.done
    BY <1>1, <1>3 DEF W!Skip, W!Done, W!ALWAYS_RERUN, Placed, Early
  <2>3. m.inter = keys + 1 /\ m.root = medium.root
        /\ m = [root |-> m.root, inter |-> m.inter] /\ keys \in Nat /\ fresh \in Nat
    BY <2>1 DEF CeremonyInv, Records
  <2>4. /\ s = [pc |-> s.pc, resume |-> s.resume, done |-> s.done,
                mediumOk |-> s.mediumOk, write |-> s.write, carrier |-> s.carrier]
        /\ s.pc = step /\ s.resume = sitting.resume /\ s.mediumOk = sitting.mediumOk
        /\ s.carrier = sitting.carrier
        /\ s.write = IF sitting.mediumOk THEN "medium" ELSE "local"
        /\ DOMAIN s.done = DOMAIN sitting.done \cup {step}
        /\ s.done[step] = keys + 1
        /\ \A x \in DOMAIN sitting.done : x # step => s.done[x] = sitting.done[x]
    BY <1>1, <2>1, CompletedForm
  <2> HIDE DEF m, s
  <2>5. sitting.mediumOk /\ s.write = "medium" /\ sitting.carrier = 0
    BY <1>1, <2>4 DEF Placed, Early, PastRoot, PastInter, PastSign
  <2>6. journal.medium.done = sitting.done /\ journal.local.done = sitting.done
    BY <1>1, <2>5 DEF CeremonyInv, Synced
  <2>7. Borne(sitting.done, m, carriers, signed.by)
    BY <2>2, <2>3 DEF CeremonyInv, Borne
  <2>8. Borne(s.done, m, carriers, signed.by)
    BY <1>1, <2>2, <2>3, <2>4 DEF CeremonyInv, Borne, Placed, PastRoot
  <2>9. Placed(s)
    BY <1>1, <2>4, <2>5 DEF Placed, Early, PastRoot, PastInter, PastSign, PastEdit
  <2>10. Written(s, m, carriers) /\ Synced(s, journal)
    BY <2>4, <2>5 DEF Written, Synced
  <2>11. Published(s, m, carriers, journal, fresh)
    BY <1>1, <2>2 DEF CeremonyInv, Published, Minted
  <2>12. Records'
    BY <1>1, <2>1, <2>3 DEF CeremonyInv, Records, m
  <2>13. QED
    BY <1>1, <2>6, <2>7, <2>8, <2>9, <2>10, <2>11, <2>12 DEF CeremonyInv, m, s
<1>4. QED
  BY <1>2, <1>3

\* The manifest is signed with the intermediate of the medium.
LEMMA SignKeeps ==
    ASSUME CeremonyInv, W!step_sign
    PROVE  CeremonyInv'
<1> DEFINE step == "sign-imprint"
<1>1. /\ W!At(step) /\ sitting.pc = step /\ sitting.write = "none"
      /\ UNCHANGED <<medium, carriers, journal, keys, fresh>>
      /\ Placed(sitting)
  BY DEF W!step_sign, W!At, CeremonyInv
<1>2. ASSUME W!Skip(step) PROVE CeremonyInv'
  <2>1. W!Onward(step) /\ RestKept /\ sitting.resume /\ step \in DOMAIN sitting.done
    BY <1>1, <1>2 DEF W!step_sign, W!Skip, W!Done, RestKept
  <2>2. QED
    BY <1>1, <2>1, OnwardKeeps
<1>3. ASSUME ~W!Skip(step) PROVE CeremonyInv'
  <2> DEFINE g == signed'
             s == sitting'
  <2>1. /\ signed' = [signed EXCEPT !.by = medium.inter, !.over = signed.block]
        /\ sitting' = W!Completed(step, 0)
    BY <1>3 DEF W!step_sign
  <2>3. g.by = medium.inter /\ g = [block |-> g.block, by |-> g.by, over |-> g.over]
    BY <2>1 DEF CeremonyInv, Records
  <2>4. /\ s = [pc |-> s.pc, resume |-> s.resume, done |-> s.done,
                mediumOk |-> s.mediumOk, write |-> s.write, carrier |-> s.carrier]
        /\ s.pc = step /\ s.resume = sitting.resume /\ s.mediumOk = sitting.mediumOk
        /\ s.carrier = sitting.carrier
        /\ s.write = IF sitting.mediumOk THEN "medium" ELSE "local"
        /\ DOMAIN s.done = DOMAIN sitting.done \cup {step}
        /\ \A x \in DOMAIN sitting.done : x # step => s.done[x] = sitting.done[x]
    BY <1>1, <2>1, CompletedForm
  <2> HIDE DEF g, s
  <2>5. sitting.mediumOk /\ s.write = "medium"
    BY <1>1, <2>4 DEF Placed
  <2>6. \A done : Borne(done, medium, carriers, signed.by) => Borne(done, medium, carriers, g.by)
    BY <2>3 DEF Borne
  <2>7. Borne(s.done, medium, carriers, g.by)
    BY <1>1, <2>3, <2>4 DEF CeremonyInv, Borne, Placed, PastRoot, PastInter
  <2>8. Placed(s)
    BY <1>1, <2>4, <2>5 DEF Placed, Early, PastRoot, PastInter, PastSign, PastEdit
  <2>9. Written(s, medium, carriers) /\ Synced(s, journal)
    BY <2>4, <2>5 DEF CeremonyInv, Written, Synced
  <2>10. Published(s, medium, carriers, journal, fresh)
    BY <1>1, <2>4 DEF CeremonyInv, Published, Minted
  <2>11. Records'
    BY <1>1, <2>1, <2>3 DEF CeremonyInv, Records, g
  <2>12. QED
    BY <1>1, <2>6, <2>7, <2>8, <2>9, <2>10, <2>11 DEF CeremonyInv, g, s
<1>4. QED
  BY <1>2, <1>3

\* The carriers are edited, one file after the other.
LEMMA EditKeeps ==
    ASSUME CeremonyInv, W!At("three-carrier-edit"), sitting.carrier < 3,
           carriers' = W!CarrierEdit(sitting.carrier),
           sitting' = [sitting EXCEPT !.carrier = @ + 1],
           UNCHANGED <<medium, signed, journal, keys, fresh>>
    PROVE  CeremonyInv'
<1> DEFINE c == carriers'
           s == sitting'
           n == sitting.carrier
<1>1. /\ sitting.pc = "three-carrier-edit" /\ sitting.write = "none" /\ Placed(sitting)
      /\ n \in 0..2 /\ sitting.mediumOk /\ Minted(sitting.done)
  BY DEF W!At, CeremonyInv, Placed, PastRoot, PastInter, PastSign, Minted
<1>2. /\ sitting.done["mint-root"] = medium.root /\ medium.root # 0
      /\ sitting.done["mint-intermediate"] = medium.inter
  BY <1>1 DEF CeremonyInv, Borne, Minted
<1>3. /\ c = [roots |-> c.roots, inter |-> c.inter, pin |-> c.pin, doc |-> c.doc]
      /\ c.roots = IF n = 0 THEN medium.root ELSE carriers.roots
      /\ c.inter = IF n = 0 THEN medium.inter ELSE carriers.inter
      /\ c.pin = IF n = 1 THEN medium.root ELSE carriers.pin
      /\ c.doc = IF n = 2 THEN medium.root ELSE carriers.doc
  <2>1. CASE n = 0
    <3>1. c = [carriers EXCEPT !.roots = medium.root, !.inter = medium.inter]
      BY <1>2, <2>1 DEF W!CarrierEdit, W!edit_trust_roots
    <3>2. c = [roots |-> medium.root, inter |-> medium.inter, pin |-> carriers.pin,
               doc |-> carriers.doc]
      BY <3>1 DEF CeremonyInv, Records
    <3>3. QED
      BY <2>1, <3>2
  <2>2. CASE n = 1
    <3>1. c = [carriers EXCEPT !.pin = medium.root]
      BY <1>2, <2>2 DEF W!CarrierEdit, W!edit_trust_pin
    <3>2. QED
      BY <2>2, <3>1 DEF CeremonyInv, Records
  <2>3. CASE n = 2
    <3>1. c = [carriers EXCEPT !.doc = medium.root]
      BY <1>2, <2>3 DEF W!CarrierEdit, W!edit_genesis_doc
    <3>2. QED
      BY <2>3, <3>1 DEF CeremonyInv, Records
  <2>4. QED
    BY <1>1, <2>1, <2>2, <2>3
<1>4. /\ s.pc = sitting.pc /\ s.resume = sitting.resume /\ s.done = sitting.done
      /\ s.mediumOk = sitting.mediumOk /\ s.write = sitting.write
      /\ s.carrier = n + 1
      /\ s = [pc |-> s.pc, resume |-> s.resume, done |-> s.done,
              mediumOk |-> s.mediumOk, write |-> s.write, carrier |-> s.carrier]
  <2> DEFINE more == sitting.carrier + 1
  <2>1. sitting' = [sitting EXCEPT !.carrier = more]
    BY <1>1 DEF Placed
  <2> HIDE DEF more
  <2>2. /\ s.pc = sitting.pc /\ s.resume = sitting.resume /\ s.done = sitting.done
        /\ s.mediumOk = sitting.mediumOk /\ s.write = sitting.write
        /\ s.carrier = more
        /\ s = [pc |-> s.pc, resume |-> s.resume, done |-> s.done,
                mediumOk |-> s.mediumOk, write |-> s.write, carrier |-> s.carrier]
    BY <1>1, <2>1 DEF Placed
  <2>3. QED
    BY <2>2 DEF more
<1>5. Written(sitting, medium, carriers)
  BY DEF CeremonyInv
<1>6. journal.medium.done = sitting.done /\ journal.local.done = sitting.done
  BY <1>1 DEF CeremonyInv, Synced
<1> HIDE DEF c, s, n
<1>7. Borne(sitting.done, medium, c, signed.by)
  BY <1>3 DEF CeremonyInv, Borne
<1>8. Placed(s)
  BY <1>1, <1>4 DEF Placed, Early, PastRoot, PastInter, PastSign, PastEdit
<1>9. Written(s, medium, c)
  BY <1>1, <1>3, <1>4, <1>5 DEF Written, n
<1>10. Synced(s, journal)
  BY <1>4 DEF CeremonyInv, Synced
<1>11. Published(s, medium, c, journal, fresh)
  <2>1. c.roots # 0
    BY <1>1, <1>2, <1>3, <1>5 DEF Written, n
  <2>2. fresh # 0
    BY <1>1 DEF CeremonyInv, Published
  <2>3. ASSUME fresh <= 1
        PROVE  c.roots = medium.root /\ c.inter = medium.inter /\ c.pin \in {0, medium.root}
    <3>1. carriers.roots # 0 => /\ carriers.roots = medium.root /\ carriers.inter = medium.inter
                                /\ carriers.pin \in {0, medium.root}
      BY <2>3 DEF CeremonyInv, Published
    <3>2. carriers.roots = 0 => carriers.pin = 0
      BY DEF CeremonyInv, Published
    <3>3. n # 0 => carriers.roots = medium.root /\ carriers.inter = medium.inter
      BY <1>1, <1>5 DEF Written, n
    <3>4. QED
      BY <1>3, <3>1, <3>2, <3>3
  <2>4. QED
    BY <1>1, <1>4, <1>6, <2>1, <2>2, <2>3 DEF Published
<1>12. Records'
  BY <1>3 DEF CeremonyInv, Records, c
<1>13. QED
  BY <1>4, <1>6, <1>7, <1>8, <1>9, <1>10, <1>11, <1>12 DEF CeremonyInv, c, s

LEMMA CarriersKeep ==
    ASSUME CeremonyInv, W!step_carriers
    PROVE  CeremonyInv'
<1> DEFINE step == "three-carrier-edit"
<1>1. /\ W!At(step) /\ sitting.pc = step /\ sitting.write = "none"
      /\ UNCHANGED <<medium, signed, journal, keys, fresh>>
      /\ Placed(sitting)
  BY DEF W!step_carriers, W!At, CeremonyInv
<1>2. ASSUME W!Skip(step) PROVE CeremonyInv'
  <2>1. W!Onward(step) /\ RestKept /\ sitting.resume /\ step \in DOMAIN sitting.done
    BY <1>1, <1>2 DEF W!step_carriers, W!Skip, W!Done, RestKept
  <2>2. QED
    BY <1>1, <2>1, OnwardKeeps
<1>3. ASSUME ~W!Skip(step), sitting.carrier < 3 PROVE CeremonyInv'
  <2>1. carriers' = W!CarrierEdit(sitting.carrier) /\ sitting' = [sitting EXCEPT !.carrier = @ + 1]
    BY <1>3 DEF W!step_carriers
  <2>2. QED
    BY <1>1, <1>3, <2>1, EditKeeps
<1>4. ASSUME ~W!Skip(step), ~(sitting.carrier < 3) PROVE CeremonyInv'
  <2> DEFINE s == sitting'
  <2>1. carriers' = carriers /\ sitting' = W!Completed(step, 0)
    BY <1>4 DEF W!step_carriers
  <2>2. sitting.carrier = 3
    BY <1>1, <1>4 DEF Placed
  <2>3. /\ s = [pc |-> s.pc, resume |-> s.resume, done |-> s.done,
                mediumOk |-> s.mediumOk, write |-> s.write, carrier |-> s.carrier]
        /\ s.pc = step /\ s.resume = sitting.resume /\ s.mediumOk = sitting.mediumOk
        /\ s.carrier = sitting.carrier
        /\ s.write = IF sitting.mediumOk THEN "medium" ELSE "local"
        /\ DOMAIN s.done = DOMAIN sitting.done \cup {step}
        /\ \A x \in DOMAIN sitting.done : x # step => s.done[x] = sitting.done[x]
    BY <1>1, <2>1, CompletedForm
  <2> HIDE DEF s
  <2>4. sitting.mediumOk /\ s.write = "medium" /\ "sign-imprint" \in DOMAIN sitting.done
    BY <1>1, <2>3 DEF Placed, PastRoot, PastInter, PastSign
  <2>5. /\ carriers.roots = medium.root /\ carriers.inter = medium.inter
        /\ carriers.pin = medium.root /\ carriers.doc = medium.root
    BY <2>2 DEF CeremonyInv, Written
  <2>6. Borne(s.done, medium, carriers, signed.by)
    BY <2>3, <2>4, <2>5 DEF CeremonyInv, Borne
  <2>7. Placed(s)
    BY <1>1, <2>3, <2>4 DEF Placed, Early, PastRoot, PastInter, PastSign, PastEdit
  <2>8. Written(s, medium, carriers) /\ Synced(s, journal)
    BY <2>3, <2>4 DEF CeremonyInv, Written, Synced
  <2>9. Published(s, medium, carriers, journal, fresh)
    BY <1>1, <2>3 DEF CeremonyInv, Published, Minted
  <2>10. Records'
    BY <1>1, <2>1 DEF CeremonyInv, Records
  <2>11. QED
    BY <1>1, <2>1, <2>6, <2>7, <2>8, <2>9, <2>10 DEF CeremonyInv, s
<1>5. QED
  BY <1>2, <1>3, <1>4

\* Between two sittings the hands change the manifest or lose a journal.
LEMMA HandsKeep ==
    ASSUME CeremonyInv, W!RebuildManifest \/ W!EmptySignatures \/ W!LoseLocalJournal
    PROVE  CeremonyInv'
<1>1. sitting' = W!Idle /\ UNCHANGED <<medium, carriers, keys, fresh>>
  BY DEF W!RebuildManifest, W!EmptySignatures, W!LoseLocalJournal, W!Hand
<1>2. CASE W!RebuildManifest
  <2> DEFINE block == signed.block + 1
  <2>1. signed' = [signed EXCEPT !.block = block] /\ journal' = journal
    BY <1>2 DEF W!RebuildManifest, CeremonyInv, Records
  <2> HIDE DEF block
  <2>2. Records' /\ signed'.by = signed.by
    BY <1>1, <2>1 DEF CeremonyInv, Records
  <2>3. Published(sitting', medium, carriers, journal, fresh)
    BY <1>1, IdleHolds DEF CeremonyInv, Published
  <2>4. QED
    BY <1>1, <2>1, <2>2, <2>3, IdleHolds DEF CeremonyInv
<1>3. CASE W!EmptySignatures
  <2>1. signed' = [signed EXCEPT !.by = 0, !.over = 0] /\ journal' = journal
    BY <1>3 DEF W!EmptySignatures
  <2>2. Records' /\ signed'.by = 0
    BY <1>1, <2>1 DEF CeremonyInv, Records
  <2>3. Published(sitting', medium, carriers, journal, fresh)
    BY <1>1, IdleHolds DEF CeremonyInv, Published
  <2>4. \A done, by : Borne(done, medium, carriers, by) => Borne(done, medium, carriers, 0)
    BY DEF Borne
  <2>5. QED
    BY <1>1, <2>1, <2>2, <2>3, <2>4, IdleHolds DEF CeremonyInv
<1>4. CASE W!LoseLocalJournal
  <2> DEFINE j == journal'
  <2>1. j = [journal EXCEPT !.local = W!NoJournal] /\ signed' = signed
    BY <1>4 DEF W!LoseLocalJournal
  <2>2. /\ j.medium = journal.medium /\ j.local = W!NoJournal
        /\ j = [medium |-> j.medium, local |-> j.local]
    BY <2>1 DEF CeremonyInv, Records
  <2>3. ~W!NoJournal.there /\ \A m, c, by : Borne(W!NoJournal.done, m, c, by)
    BY DEF W!NoJournal, Borne
  <2> HIDE DEF j
  <2>4. Published(sitting', medium, carriers, j, fresh)
    BY <1>1, <2>2, <2>3, IdleHolds DEF CeremonyInv, Published
  <2>5. Records'
    BY <1>1, <2>1, <2>2 DEF CeremonyInv, Records, j
  <2>6. QED
    BY <1>1, <2>1, <2>2, <2>3, <2>4, <2>5, IdleHolds DEF CeremonyInv, j
<1>5. QED
  BY <1>2, <1>3, <1>4

LEMMA CeremonyStep == CeremonyInv /\ [W!WizardNext]_wVars => CeremonyInv'
<1> SUFFICES ASSUME CeremonyInv, [W!WizardNext]_wVars PROVE CeremonyInv'
  OBVIOUS
<1>1. ASSUME NEW resume \in BOOLEAN, NEW j \in {journal.local, journal.medium, W!NoJournal},
             NEW host, W!Start(resume, j, host)
      PROVE  CeremonyInv'
  BY <1>1, StartKeeps
<1>2. ASSUME W!Stop PROVE CeremonyInv'
  BY <1>2, StopKeeps DEF W!Stop, RestKept
<1>3. ASSUME W!WriteMedium \/ W!WriteLocal PROVE CeremonyInv'
  BY <1>3, WriteMediumKeeps, WriteLocalKeeps
<1>4. ASSUME W!step_preflight PROVE CeremonyInv'
  <2>1. W!At("preflight") /\ RestKept
    BY <1>4 DEF W!step_preflight, RestKept
  <2>2. \/ W!Onward("preflight") /\ sitting.resume /\ "preflight" \in DOMAIN sitting.done
        \/ sitting' = W!Completed("preflight", 0)
    BY <1>4 DEF W!step_preflight, W!Done
  <2>3. QED
    BY <2>1, <2>2, OnwardKeeps, PlainStep DEF Plain
<1>5. ASSUME W!step_medium PROVE CeremonyInv'
  BY <1>5, MediumKeeps
<1>6. ASSUME W!step_passphrase PROVE CeremonyInv'
  <2>1. W!At("passphrase") /\ RestKept /\ sitting' = W!Completed("passphrase", 0)
    BY <1>6 DEF W!step_passphrase, RestKept
  <2>2. QED
    BY <2>1, PlainStep DEF Plain
<1>7. ASSUME W!step_mint_root \/ W!step_mint_intermediate \/ W!step_sign \/ W!step_carriers
      PROVE  CeremonyInv'
  BY <1>7, MintRootKeeps, MintInterKeeps, SignKeeps, CarriersKeep
<1>8. ASSUME W!step_verify PROVE CeremonyInv'
  <2>1. W!At("verify") /\ RestKept
    BY <1>8 DEF W!step_verify, RestKept
  <2>2. \/ W!Onward("verify") /\ sitting.resume /\ "verify" \in DOMAIN sitting.done
        \/ sitting' = W!Completed("verify", 0)
    BY <1>8 DEF W!step_verify, W!Skip, W!Done
  <2>3. QED
    BY <2>1, <2>2, OnwardKeeps, PlainStep DEF Plain
<1>9. ASSUME W!step_record PROVE CeremonyInv'
  <2>1. W!At("record") /\ RestKept
    BY <1>9 DEF W!step_record, RestKept
  <2>2. \/ W!Onward("record") /\ sitting.resume /\ "record" \in DOMAIN sitting.done
        \/ sitting' = W!Completed("record", 0)
    BY <1>9 DEF W!step_record, W!Skip, W!Done
  <2>3. QED
    BY <2>1, <2>2, OnwardKeeps, PlainStep DEF Plain
<1>10. ASSUME W!step_summary PROVE CeremonyInv'
  <2>1. W!At("summary") /\ RestKept /\ sitting' = W!Completed("summary", 0)
    BY <1>10 DEF W!step_summary, RestKept
  <2>2. QED
    BY <2>1, PlainStep DEF Plain
<1>11. ASSUME W!RebuildManifest \/ W!EmptySignatures \/ W!LoseLocalJournal PROVE CeremonyInv'
  BY <1>11, HandsKeep
<1>12. ASSUME UNCHANGED wVars PROVE CeremonyInv'
  BY <1>12 DEF wVars, CeremonyInv, Records
<1>13. QED
  BY <1>1, <1>2, <1>3, <1>4, <1>5, <1>6, <1>7, <1>8, <1>9, <1>10, <1>11, <1>12
     DEF W!WizardNext

LEMMA CeremonyHolds == CeremonyInv => CeremonyAgrees
<1> SUFFICES ASSUME CeremonyInv PROVE CeremonyAgrees
  OBVIOUS
<1>1. W!CompleteMeansAgreed
  <2> SUFFICES ASSUME sitting.pc = "complete"
               PROVE  /\ carriers.roots # 0
                      /\ carriers.roots = carriers.pin /\ carriers.pin = carriers.doc
                      /\ medium = [root |-> carriers.roots, inter |-> carriers.inter]
                      /\ signed.by \in {0, carriers.inter}
    BY DEF W!CompleteMeansAgreed
  <2>1. "three-carrier-edit" \in DOMAIN sitting.done
    BY DEF CeremonyInv, Placed, PastEdit, PastSign, PastInter, PastRoot
  <2>2. /\ carriers.roots = medium.root /\ medium.root # 0 /\ carriers.inter = medium.inter
        /\ carriers.pin = medium.root /\ carriers.doc = medium.root
        /\ signed.by \in {0, medium.inter}
    BY <2>1 DEF CeremonyInv, Borne
  <2>3. medium = [root |-> medium.root, inter |-> medium.inter]
    BY DEF CeremonyInv, Records
  <2>4. QED
    BY <2>2, <2>3
<1>2. W!ResumeKeepsKeys
  <2>1. fresh <= 1 /\ carriers.roots # 0 =>
           /\ carriers.roots = medium.root /\ carriers.inter = medium.inter
           /\ carriers.pin \in {0, medium.root}
    BY DEF CeremonyInv, Published
  <2>2. carriers.roots = 0 => carriers.inter = 0 /\ carriers.pin = 0
    BY DEF CeremonyInv, Published
  <2>3. QED
    BY <2>1, <2>2 DEF W!ResumeKeepsKeys
<1>3. QED
  BY <1>1, <1>2 DEF CeremonyAgrees

\* A sitting of the ceremony that ends leaves one root everywhere, and resuming
\* loses no published key: for any number of sittings, mintings and edits, and
\* wherever a sitting dies.
THEOREM CeremonyIsOne == W!WizardSpec => []CeremonyAgrees
<1>1. W!WizardInit /\ [][W!WizardNext]_wVars => []CeremonyInv
  BY CeremonyInvInit, CeremonyStep, PTL
<1>2. W!WizardSpec => W!WizardInit /\ [][W!WizardNext]_wVars
  BY DEF W!WizardSpec, W!wizardVars, wVars
<1>3. QED
  BY <1>1, <1>2, CeremonyHolds, PTL
----------------------------------------------------------------------------
(* The reading: the ledger, the certificate and the register                *)

STATUSES == {"ANSWERED", "FAILED", "UNPROBEABLE"}
VERDICTS == {"STOOD-DOWN", "NOT-ALIVE", "ALIVE-DEGRADED", "ALIVE"}
LINES    == {"none", "not minted", "disclosed"}
Rows     == [verdict : VERDICTS, by : Readers, answers : Seq(STATUSES), line : LINES, day : Nat]

\* The row a process p of reader r would append.
RowFrom(r, p) == [verdict |-> A!verdict(p.answers, p.stood), by |-> r, answers |-> p.answers,
                  line |-> p.line, day |-> p.day]

\* A process has one answer for every question it has asked, and has not got
\* past the fourth without a birth claim in the register reg, or a failure.
ReaderOK(r, p, reg, rows) ==
    /\ p = [at |-> p.at, ask |-> p.ask, answers |-> p.answers, stood |-> p.stood,
            line |-> p.line, birth |-> p.birth, day |-> p.day, rotation |-> p.rotation,
            value |-> p.value]
    /\ p.answers \in Seq(STATUSES) /\ p.day \in Nat /\ p.line \in LINES
    /\ p.at = "asking" => p.ask \in 1..7 /\ Len(p.answers) = p.ask - 1
    /\ p.at = "filing" => p.ask = 4 /\ Len(p.answers) = 3
    /\ p.at = "certifying" => \E i \in DOMAIN rows : rows[i] = RowFrom(r, p)
    /\ Len(p.answers) > 3 => p.answers[4] = "FAILED" \/ reg # <<>>

\* A row has six answers; one that does not say NOT-ALIVE, no failure.
RowOK(row, reg) ==
    /\ Len(row.answers) = 6
    /\ row.verdict = "ALIVE" => \A i \in 1..6 : row.answers[i] = "ANSWERED"
    /\ row.verdict \in {"ALIVE", "ALIVE-DEGRADED"} => reg # <<>>

RegisterOK(reg) == /\ reg \in Seq(Nat)
                   /\ \A i, j \in DOMAIN reg : reg[i] = reg[j] => i = j

AliveInv ==
    /\ DOMAIN reader = Readers
    /\ \A r \in Readers : ReaderOK(r, reader[r], register, aliveness)
    /\ aliveness \in Seq(Rows)
    /\ \A i \in DOMAIN aliveness : RowOK(aliveness[i], register)
    /\ cert # <<>> => \E i \in DOMAIN aliveness : aliveness[i] = cert
    /\ RegisterOK(register)
    /\ today \in Nat

LEMMA AnswerIsStatus == \A n \in {1, 2, 3, 5, 6} : A!Answer(n) \in STATUSES
<1>1. A!_check_probes(facts.probes) \in STATUSES
  BY DEF A!_check_probes, STATUSES
<1>2. A!_check_belief_currency(facts.beliefs) \in STATUSES
  BY DEF A!_check_belief_currency, STATUSES
<1>3. A!_check_tagouts(facts.tagouts) \in STATUSES
  BY DEF A!_check_tagouts, STATUSES
<1>4. A!_check_gate(facts.gate) \in STATUSES
  BY DEF A!_check_gate, STATUSES
<1>5. A!_check_conformance(facts.estate) \in STATUSES
  BY DEF A!_check_conformance, STATUSES
<1>6. QED
  BY <1>1, <1>2, <1>3, <1>4, <1>5 DEF A!Answer

\* A complete reading that is not NOT-ALIVE has no failure among its answers.
LEMMA VerdictOfAnswers ==
    ASSUME NEW answers \in Seq(STATUSES), Len(answers) = 6, NEW down
    PROVE  /\ A!verdict(answers, down) \in VERDICTS
           /\ A!verdict(answers, down) = "ALIVE" => \A i \in 1..6 : answers[i] = "ANSWERED"
           /\ A!verdict(answers, down) \in {"ALIVE", "ALIVE-DEGRADED"} => answers[4] # "FAILED"
<1>a. DOMAIN answers = 1..Len(answers)
  OBVIOUS
<1>b. \A i \in 1..Len(answers) : answers[i] \in STATUSES
  BY ElementOfSeq
<1>1. DOMAIN answers = 1..6 /\ \A i \in 1..6 : answers[i] \in STATUSES
  BY <1>a, <1>b
<1>2. 4 \in 1..6
  OBVIOUS
<1>3. QED
  BY <1>1, <1>2 DEF A!verdict, STATUSES, VERDICTS

LEMMA AliveInvInit == A!AliveInit => AliveInv
<1> SUFFICES ASSUME A!AliveInit PROVE AliveInv
  OBVIOUS
<1>1. \A r, rows : ReaderOK(r, A!Idle, <<>>, rows)
  BY DEF ReaderOK, A!Idle, LINES
<1>2. QED
  BY <1>1 DEF A!AliveInit, AliveInv, RegisterOK

\* A process that idles, or that keeps its answers, keeps the invariant, when
\* the ledgers stay and the register only grows.
LEMMA ReaderStep ==
    ASSUME AliveInv, NEW r \in Readers, NEW p, A!To(r, p), UNCHANGED <<aliveness, cert>>,
           register' = register \/ (register' # <<>> /\ RegisterOK(register')),
           today' \in Nat, ReaderOK(r, p, register', aliveness)
    PROVE  AliveInv'
<1>1. reader' = [reader EXCEPT ![r] = p]
  BY DEF A!To
<1>2. \A q, row : ReaderOK(q, row, register, aliveness) => ReaderOK(q, row, register', aliveness)
  BY DEF ReaderOK
<1>3. \A row : RowOK(row, register) => RowOK(row, register')
  BY DEF RowOK
<1>4. RegisterOK(register')
  BY DEF AliveInv
<1>5. DOMAIN reader' = Readers /\ \A q \in Readers : ReaderOK(q, reader'[q], register', aliveness)
  BY <1>1, <1>2 DEF AliveInv
<1>6. QED
  BY <1>3, <1>4, <1>5 DEF AliveInv

\* Answering a question adds the answer and asks the next.
LEMMA AnsweredOK ==
    ASSUME AliveInv, NEW r \in Readers, NEW status \in STATUSES,
           \/ reader[r].at = "asking" /\ reader[r].ask \in 1..6
           \/ reader[r].at = "filing",
           NEW reg, register # <<>> => reg # <<>>,
           reader[r].ask = 4 => status = "FAILED" \/ reg # <<>>
    PROVE  ReaderOK(r, A!Answered(r, status), reg, aliveness)
<1> DEFINE p == reader[r]
           more == Append(p.answers, status)
           next == p.ask + 1
           q == A!Answered(r, status)
<1>1. ReaderOK(r, p, register, aliveness)
  BY DEF AliveInv
<1>2. q = [p EXCEPT !.answers = more, !.ask = next, !.at = "asking"]
  BY <1>1 DEF A!Answered, ReaderOK
<1>a. p.answers \in Seq(STATUSES)
      /\ (Len(p.answers) > 3 => p.answers[4] = "FAILED" \/ register # <<>>)
  BY <1>1 DEF ReaderOK
<1>b. p.ask \in 1..6 /\ Len(p.answers) = p.ask - 1
  <2>1. CASE p.at = "asking" /\ p.ask \in 1..6
    BY <1>1, <2>1 DEF ReaderOK
  <2>2. CASE p.at = "filing"
    <3>1. p.ask = 4 /\ Len(p.answers) = 3
      BY <1>1, <2>2 DEF ReaderOK
    <3> HIDE DEF p
    <3>2. QED
      BY <3>1
  <2>3. QED
    BY <2>1, <2>2
<1>3. /\ p.ask \in 1..6 /\ Len(p.answers) = p.ask - 1 /\ p.answers \in Seq(STATUSES)
      /\ (Len(p.answers) > 3 => p.answers[4] = "FAILED" \/ register # <<>>)
  BY <1>a, <1>b
<1>4. /\ more \in Seq(STATUSES) /\ Len(more) = p.ask /\ more[p.ask] = status
      /\ \A i \in 1..(p.ask - 1) : more[i] = p.answers[i]
  BY <1>3
<1>5. next \in 1..7 /\ Len(more) = next - 1
  BY <1>3, <1>4
<1>6. Len(more) > 3 => more[4] = "FAILED" \/ reg # <<>>
  <2>1. CASE p.ask = 4
    BY <1>4, <2>1
  <2>2. CASE p.ask > 4
    BY <1>3, <1>4, <2>2
  <2>3. CASE p.ask < 4
    BY <1>3, <1>4, <2>3
  <2>4. QED
    BY <1>3, <2>1, <2>2, <2>3
<1> HIDE DEF more, next, q
<1>7. /\ q.at = "asking" /\ q.ask = next /\ q.answers = more /\ q.day = p.day /\ q.line = p.line
      /\ q = [at |-> q.at, ask |-> q.ask, answers |-> q.answers, stood |-> q.stood,
              line |-> q.line, birth |-> q.birth, day |-> q.day, rotation |-> q.rotation,
              value |-> q.value]
  BY <1>1, <1>2 DEF ReaderOK
<1>8. QED
  BY <1>1, <1>4, <1>5, <1>6, <1>7 DEF ReaderOK, q

\* A process that does nothing has said nothing.
LEMMA IdleOK == \A r, reg, rows : ReaderOK(r, A!Idle, reg, rows)
BY DEF ReaderOK, A!Idle, LINES

\* So has one that begins to read or to mint.
LEMMA BeginsOK ==
    ASSUME NEW r, NEW reg, NEW rows, NEW at \in {"asking", "minting", "showing"},
           NEW down, NEW filed, NEW line \in LINES, NEW rotation, NEW ask, ask = 1, NEW p,
           \/ p = [A!Idle EXCEPT !.at = at, !.ask = ask, !.stood = down, !.birth = filed,
                                 !.line = line]
           \/ at # "asking" /\ p = [A!Idle EXCEPT !.at = at, !.rotation = rotation]
    PROVE  ReaderOK(r, p, reg, rows)
<1> DEFINE i == A!Idle
<1>1. /\ i = [at |-> i.at, ask |-> i.ask, answers |-> i.answers, stood |-> i.stood,
              line |-> i.line, birth |-> i.birth, day |-> i.day, rotation |-> i.rotation,
              value |-> i.value]
      /\ i.day = 0 /\ i.answers = <<>> /\ i.line = "none"
  BY DEF A!Idle
<1>a. i.day \in Nat /\ i.answers \in Seq(STATUSES) /\ Len(i.answers) = 0 /\ i.line \in LINES
  <2>1. <<>> \in Seq(STATUSES)
    OBVIOUS
  <2>2. Len(<<>>) = 0
    OBVIOUS
  <2>3. i.line \in LINES
    BY <1>1 DEF LINES
  <2>4. QED
    BY <1>1, <2>1, <2>2, <2>3
<1> HIDE DEF i
<1>2. /\ p.at = at /\ p.answers = i.answers /\ p.line \in LINES /\ p.day = i.day
      /\ (at = "asking" => p.ask = 1)
      /\ p = [at |-> p.at, ask |-> p.ask, answers |-> p.answers, stood |-> p.stood,
              line |-> p.line, birth |-> p.birth, day |-> p.day, rotation |-> p.rotation,
              value |-> p.value]
  <2>1. CASE p = [i EXCEPT !.at = at, !.ask = ask, !.stood = down, !.birth = filed,
                           !.line = line]
    BY <1>1, <1>a, <2>1
  <2>2. CASE at # "asking" /\ p = [i EXCEPT !.at = at, !.rotation = rotation]
    BY <1>1, <1>a, <2>2
  <2>3. QED
    BY <2>1, <2>2 DEF i
<1>3. QED
  BY <1>a, <1>2 DEF ReaderOK

\* What a process is once it goes on without an answer.
LEMMA MovesForm ==
    ASSUME NEW q,
           q = [at |-> q.at, ask |-> q.ask, answers |-> q.answers, stood |-> q.stood,
                line |-> q.line, birth |-> q.birth, day |-> q.day, rotation |-> q.rotation,
                value |-> q.value],
           NEW at, NEW day, NEW value, NEW p,
           \/ p = [q EXCEPT !.at = at, !.day = day]
           \/ p = [q EXCEPT !.at = at, !.value = value] /\ day = q.day
           \/ p = [q EXCEPT !.at = at] /\ day = q.day
    PROVE  /\ p.at = at /\ p.ask = q.ask /\ p.answers = q.answers /\ p.stood = q.stood
           /\ p.line = q.line /\ p.day = day
           /\ p = [at |-> p.at, ask |-> p.ask, answers |-> p.answers, stood |-> p.stood,
                   line |-> p.line, birth |-> p.birth, day |-> p.day, rotation |-> p.rotation,
                   value |-> p.value]
<1>1. CASE p = [q EXCEPT !.at = at, !.day = day]
  <2>1. p = [at |-> at, ask |-> q.ask, answers |-> q.answers, stood |-> q.stood,
             line |-> q.line, birth |-> q.birth, day |-> day, rotation |-> q.rotation,
             value |-> q.value]
    BY <1>1
  <2>2. QED
    BY <2>1
<1>2. CASE p = [q EXCEPT !.at = at, !.value = value] /\ day = q.day
  <2>1. p = [at |-> at, ask |-> q.ask, answers |-> q.answers, stood |-> q.stood,
             line |-> q.line, birth |-> q.birth, day |-> q.day, rotation |-> q.rotation,
             value |-> value]
    BY <1>2
  <2>2. QED
    BY <1>2, <2>1
<1>3. CASE p = [q EXCEPT !.at = at] /\ day = q.day
  <2>1. p = [at |-> at, ask |-> q.ask, answers |-> q.answers, stood |-> q.stood,
             line |-> q.line, birth |-> q.birth, day |-> q.day, rotation |-> q.rotation,
             value |-> q.value]
    BY <1>3
  <2>2. QED
    BY <1>3, <2>1
<1>4. QED
  BY <1>1, <1>2, <1>3

LEMMA AliveStep == AliveInv /\ [A!AliveNext]_aVars => AliveInv'
<1> SUFFICES ASSUME AliveInv, [A!AliveNext]_aVars PROVE AliveInv'
  OBVIOUS
<1>t. today \in Nat /\ \A r \in Readers : ReaderOK(r, reader[r], register, aliveness)
  BY DEF AliveInv
<1>l. A!certificate_line_for \in LINES
  BY DEF A!certificate_line_for, LINES
<1>1. ASSUME NEW r \in Readers, NEW filed \in BOOLEAN, A!take_reading(r, filed) PROVE AliveInv'
  <2> DEFINE p == [A!Idle EXCEPT !.at = "asking", !.ask = 1, !.stood = stood, !.birth = filed,
                                 !.line = A!certificate_line_for]
  <2>1. A!To(r, p) /\ UNCHANGED <<register, aliveness, cert, today>>
    BY <1>1 DEF A!take_reading, A!node, A!ledgers
  <2>2. ReaderOK(r, p, register, aliveness)
    BY <1>l, BeginsOK
  <2> HIDE DEF p
  <2>3. QED
    BY <1>t, <2>1, <2>2, ReaderStep
<1>2. ASSUME NEW r \in Readers, A!Ask(r) PROVE AliveInv'
  <2> DEFINE status == A!Answer(reader[r].ask)
  <2>1. /\ reader[r].at = "asking" /\ reader[r].ask \in {1, 2, 3, 5, 6}
        /\ A!To(r, A!Answered(r, status)) /\ UNCHANGED <<register, aliveness, cert, today>>
    BY <1>2 DEF A!Ask, A!node, A!ledgers
  <2>2. status \in STATUSES
    BY <2>1, AnswerIsStatus
  <2> HIDE DEF status
  <2>3. ReaderOK(r, A!Answered(r, status), register, aliveness)
    BY <2>1, <2>2, AnsweredOK
  <2>4. QED
    BY <1>t, <2>1, <2>3, ReaderStep
<1>3. ASSUME NEW r \in Readers, A!_check_witness(r) PROVE AliveInv'
  <2>1. /\ reader[r].at = "asking" /\ reader[r].ask = 4
        /\ UNCHANGED <<register, aliveness, cert, today>>
    BY <1>3 DEF A!_check_witness, A!node, A!ledgers
  <2>2. CASE A!Filed(today)
    <3>1. A!To(r, A!Answered(r, "ANSWERED"))
      BY <1>3, <2>2 DEF A!_check_witness
    <3>2. register # <<>>
      BY <2>2 DEF A!Filed
    <3>3. "ANSWERED" \in STATUSES
      BY DEF STATUSES
    <3>4. ReaderOK(r, A!Answered(r, "ANSWERED"), register, aliveness)
      BY <2>1, <3>2, <3>3, AnsweredOK
    <3>5. QED
      BY <1>t, <2>1, <3>1, <3>4, ReaderStep
  <2>3. CASE ~A!Filed(today)
    <3> DEFINE p == [reader[r] EXCEPT !.at = "filing", !.day = today]
    <3>1. A!To(r, p)
      BY <1>3, <2>3 DEF A!_check_witness
    <3>2. ReaderOK(r, reader[r], register, aliveness)
      BY <1>t
    <3>3. reader[r].ask = 4 /\ Len(reader[r].answers) = 3
      BY <2>1, <3>2 DEF ReaderOK
    <3>4. /\ p.at = "filing" /\ p.ask = reader[r].ask /\ p.answers = reader[r].answers
          /\ p.day = today /\ p.line = reader[r].line
          /\ p = [at |-> p.at, ask |-> p.ask, answers |-> p.answers, stood |-> p.stood,
                  line |-> p.line, birth |-> p.birth, day |-> p.day, rotation |-> p.rotation,
                  value |-> p.value]
      <4> DEFINE q == reader[r]
      <4>1. q = [at |-> q.at, ask |-> q.ask, answers |-> q.answers, stood |-> q.stood,
                 line |-> q.line, birth |-> q.birth, day |-> q.day, rotation |-> q.rotation,
                 value |-> q.value]
        BY <3>2 DEF ReaderOK
      <4>2. p = [q EXCEPT !.at = "filing", !.day = today]
        OBVIOUS
      <4> HIDE DEF p, q
      <4>3. QED
        BY <4>1, <4>2, MovesForm DEF q
    <3> HIDE DEF p
    <3>5. ReaderOK(r, p, register, aliveness)
      BY <1>t, <3>2, <3>3, <3>4 DEF ReaderOK
    <3>6. QED
      BY <1>t, <2>1, <3>1, <3>5, ReaderStep
  <2>4. QED
    BY <2>2, <2>3
<1>4. ASSUME NEW r \in Readers, A!register_claim(r) PROVE AliveInv'
  <2> DEFINE status == IF A!Refused(r) THEN "FAILED" ELSE "ANSWERED"
             day == reader[r].day
  <2>1. /\ reader[r].at = "filing" /\ A!To(r, A!Answered(r, status))
        /\ register' = IF A!Refused(r) THEN register ELSE Append(register, day)
        /\ UNCHANGED <<aliveness, cert, today>>
    BY <1>4 DEF A!register_claim, A!node
  <2>2. register \in Seq(Nat) /\ day \in Nat /\ RegisterOK(register)
    BY <1>t DEF AliveInv, RegisterOK, ReaderOK
  <2>3. ASSUME ~A!Refused(r) PROVE register' # <<>> /\ RegisterOK(register')
    <3>1. \A i \in DOMAIN register : register[i] # day
      BY <2>3 DEF A!Refused, A!Filed
    <3>2. register' = Append(register, day)
      BY <2>1, <2>3
    <3>3. /\ register' \in Seq(Nat) /\ Len(register') = Len(register) + 1
          /\ register'[Len(register) + 1] = day
          /\ \A i \in 1..Len(register) : register'[i] = register[i]
          /\ DOMAIN register' = 1..(Len(register) + 1) /\ DOMAIN register = 1..Len(register)
      BY <2>2, <3>2
    <3>4. register' # <<>>
      BY <2>2, <3>3
    <3>5. \A i, j \in DOMAIN register' : register'[i] = register'[j] => i = j
      <4>1. \A i, j \in DOMAIN register : register[i] = register[j] => i = j
        BY <2>2 DEF RegisterOK
      <4> DEFINE n == Len(register)
      <4>2. n \in Nat
        BY <2>2
      <4> HIDE DEF n
      <4>3. \A i \in 1..n + 1 : i \in 1..n \/ i = n + 1
        BY <4>2
      <4>4. \A i \in 1..n : register'[i] = register[i] /\ register'[i] # day
        BY <3>1, <3>3 DEF n
      <4>5. register'[n + 1] = day
        BY <3>3 DEF n
      <4>6. DOMAIN register' = 1..n + 1 /\ DOMAIN register = 1..n
        BY <3>3 DEF n
      <4>7. QED
        BY <4>1, <4>3, <4>4, <4>5, <4>6
    <3>6. QED
      BY <3>3, <3>4, <3>5 DEF RegisterOK
  <2>4. status \in STATUSES /\ (status = "FAILED" \/ register' # <<>>)
    BY <2>3 DEF STATUSES
  <2>5. register' = register \/ (register' # <<>> /\ RegisterOK(register'))
    BY <2>1, <2>3
  <2> HIDE DEF status
  <2>6. ReaderOK(r, A!Answered(r, status), register', aliveness)
    BY <2>1, <2>4, <2>5, AnsweredOK
  <2>7. QED
    BY <1>t, <2>1, <2>5, <2>6, ReaderStep
<1>5. ASSUME NEW r \in Readers, A!To(r, A!Idle), UNCHANGED <<register, aliveness, cert, today>>
      PROVE  AliveInv'
  BY <1>5, <1>t, IdleOK, ReaderStep
<1>6. ASSUME NEW r \in Readers, A!append_reading(r) PROVE AliveInv'
  <2> DEFINE q == reader[r]
             p == [q EXCEPT !.at = "certifying"]
             row == RowFrom(r, q)
  <2>1. /\ q.at = "asking" /\ q.ask = 7 /\ A!To(r, p)
        /\ aliveness' = Append(aliveness, A!RowOf(r)) /\ UNCHANGED <<register, cert, today>>
    BY <1>6 DEF A!append_reading, A!Complete, A!Write, A!WritesRow, A!node
  <2>2. A!RowOf(r) = row
    BY DEF A!RowOf, RowFrom
  <2>3. ReaderOK(r, q, register, aliveness)
    BY <1>t
  <2>4. /\ q.answers \in Seq(STATUSES) /\ Len(q.answers) = 6 /\ q.day \in Nat /\ q.line \in LINES
        /\ (q.answers[4] = "FAILED" \/ register # <<>>)
    BY <2>1, <2>3 DEF ReaderOK
  <2>5. /\ row.verdict = A!verdict(q.answers, q.stood) /\ row.answers = q.answers
        /\ row.by = r /\ row.line = q.line /\ row.day = q.day
        /\ row = [verdict |-> row.verdict, by |-> row.by, answers |-> row.answers,
                  line |-> row.line, day |-> row.day]
    BY DEF RowFrom
  <2> HIDE DEF q, row
  <2>6. RowOK(row, register) /\ row.verdict \in VERDICTS
    BY <2>4, <2>5, VerdictOfAnswers DEF RowOK
  <2>7. row \in Rows
    BY <2>4, <2>5, <2>6 DEF Rows
  <2>8. /\ aliveness' \in Seq(Rows) /\ Len(aliveness) \in Nat
        /\ aliveness' = Append(aliveness, row) /\ DOMAIN aliveness = 1..Len(aliveness)
        /\ DOMAIN aliveness' = 1..(Len(aliveness) + 1)
        /\ aliveness'[Len(aliveness) + 1] = row
        /\ \A i \in DOMAIN aliveness : aliveness'[i] = aliveness[i]
    BY <2>1, <2>2, <2>7 DEF AliveInv
  <2>9. /\ p.at = "certifying" /\ p.ask = q.ask /\ p.answers = q.answers
        /\ p.stood = q.stood /\ p.line = q.line /\ p.day = q.day
        /\ p = [at |-> p.at, ask |-> p.ask, answers |-> p.answers, stood |-> p.stood,
                line |-> p.line, birth |-> p.birth, day |-> p.day, rotation |-> p.rotation,
                value |-> p.value]
    <3>1. p = [q EXCEPT !.at = "certifying"]
      OBVIOUS
    <3> HIDE DEF p
    <3>2. QED
      BY <2>3, <3>1, MovesForm DEF ReaderOK
  <2> HIDE DEF p
  <2>10. RowFrom(r, p) = row
    BY <2>9 DEF RowFrom, row
  <2>11. ReaderOK(r, p, register, aliveness')
    BY <2>3, <2>4, <2>8, <2>9, <2>10 DEF ReaderOK
  <2>12. \A s, x : ReaderOK(s, x, register, aliveness) => ReaderOK(s, x, register, aliveness')
    BY <2>8 DEF ReaderOK
  <2>13. /\ DOMAIN reader' = Readers
         /\ \A s \in Readers : ReaderOK(s, reader'[s], register, aliveness')
    BY <1>t, <2>1, <2>11, <2>12 DEF A!To, AliveInv
  <2>14. \A i \in DOMAIN aliveness' : RowOK(aliveness'[i], register)
    BY <2>6, <2>8 DEF AliveInv
  <2>15. cert # <<>> => \E i \in DOMAIN aliveness' : aliveness'[i] = cert
    BY <2>8 DEF AliveInv
  <2>16. QED
    BY <2>1, <2>8, <2>13, <2>14, <2>15 DEF AliveInv
<1>7. ASSUME NEW r \in Readers, A!Certify(r) PROVE AliveInv'
  <2>1. /\ reader[r].at = "certifying" /\ A!To(r, A!Idle) /\ cert' = A!RowOf(r)
        /\ UNCHANGED <<register, aliveness, today>>
    BY <1>7 DEF A!Certify, A!Write, A!WritesRow, A!node
  <2>2. \E i \in DOMAIN aliveness : aliveness[i] = RowFrom(r, reader[r])
    BY <1>t, <2>1 DEF ReaderOK
  <2>3. cert' # <<>> => \E i \in DOMAIN aliveness : aliveness[i] = cert'
    BY <2>1, <2>2 DEF A!RowOf, RowFrom
  <2>4. /\ DOMAIN reader' = Readers
        /\ \A s \in Readers : ReaderOK(s, reader'[s], register, aliveness)
    BY <1>t, <2>1, IdleOK DEF A!To, AliveInv
  <2>5. QED
    BY <2>1, <2>3, <2>4 DEF AliveInv
<1>8. ASSUME NEW r \in Readers, NEW dry, NEW attended, NEW yes,
             A!mint_disclosed(r, dry, attended, yes)
      PROVE  AliveInv'
  <2> DEFINE rotation == IF A!read_record = <<>> THEN 1 ELSE A!read_record.rotation + 1
             p == [A!Idle EXCEPT !.at = "minting", !.rotation = rotation]
  <2>1. /\ A!To(r, IF dry \/ ~attended \/ ~yes THEN A!Idle ELSE p)
        /\ UNCHANGED <<register, aliveness, cert, today>>
    BY <1>8 DEF A!mint_disclosed, A!node, A!ledgers
  <2> HIDE DEF rotation
  <2>2. ReaderOK(r, p, register, aliveness)
    <3>1. "none" \in LINES
      BY DEF LINES
    <3>2. QED
      BY <3>1, BeginsOK
  <2> HIDE DEF p
  <2>3. CASE dry \/ ~attended \/ ~yes
    BY <2>1, <2>3, <1>5
  <2>4. CASE ~(dry \/ ~attended \/ ~yes)
    <3>1. A!To(r, p)
      BY <2>1, <2>4
    <3>2. QED
      BY <1>t, <2>1, <2>2, <3>1, ReaderStep
  <2>5. QED
    BY <2>3, <2>4
<1>9. ASSUME NEW r \in Readers, A!bearer_mint(r) PROVE AliveInv'
  <2> DEFINE value == minted'
             p == [reader[r] EXCEPT !.at = "showing", !.value = value]
  <2>1. A!To(r, p) /\ UNCHANGED <<register, aliveness, cert, today>>
    BY <1>9 DEF A!bearer_mint, A!node, A!ledgers
  <2>2. ReaderOK(r, reader[r], register, aliveness)
    BY <1>t
  <2> HIDE DEF value
  <2>3. /\ p.at = "showing" /\ p.answers = reader[r].answers
        /\ p.day = reader[r].day /\ p.line = reader[r].line
        /\ p = [at |-> p.at, ask |-> p.ask, answers |-> p.answers, stood |-> p.stood,
                line |-> p.line, birth |-> p.birth, day |-> p.day, rotation |-> p.rotation,
                value |-> p.value]
    <3> DEFINE q == reader[r]
    <3>1. q = [at |-> q.at, ask |-> q.ask, answers |-> q.answers, stood |-> q.stood,
               line |-> q.line, birth |-> q.birth, day |-> q.day, rotation |-> q.rotation,
               value |-> q.value]
      BY <2>2 DEF ReaderOK
    <3>2. p = [q EXCEPT !.at = "showing", !.value = value]
      OBVIOUS
    <3> HIDE DEF p, q
    <3>3. QED
      BY <3>1, <3>2, MovesForm DEF q
  <2> HIDE DEF p
  <2>4. ReaderOK(r, p, register, aliveness)
    BY <2>2, <2>3 DEF ReaderOK
  <2>5. QED
    BY <1>t, <2>1, <2>4, ReaderStep
<1>10. ASSUME NEW r \in Readers, A!_cmd_doctor(r) \/ A!_render_banner(r) \/ A!Crash(r)
       PROVE  AliveInv'
  <2>1. A!To(r, A!Idle) /\ UNCHANGED <<register, aliveness, cert, today>>
    BY <1>10 DEF A!_cmd_doctor, A!_render_banner, A!Crash, A!node, A!ledgers
  <2>2. QED
    BY <2>1, <1>5
<1>11. ASSUME A!FactsChange \/ A!StandDown \/ A!DamageToken \/ A!Midnight PROVE AliveInv'
  <2>1. UNCHANGED <<register, aliveness, cert, reader>> /\ today' \in Nat
    BY <1>11, <1>t DEF A!FactsChange, A!StandDown, A!DamageToken, A!Midnight, A!ledgers, A!node
  <2>2. QED
    BY <2>1 DEF AliveInv
<1>12. ASSUME UNCHANGED aVars PROVE AliveInv'
  BY <1>12 DEF aVars, AliveInv
<1>13. QED
  BY <1>1, <1>2, <1>3, <1>4, <1>6, <1>7, <1>8, <1>9, <1>10, <1>11, <1>12 DEF A!AliveNext

LEMMA AliveAlways == A!AliveSpec => []AliveInv
<1>1. A!AliveInit /\ [][A!AliveNext]_aVars => []AliveInv
  BY AliveInvInit, AliveStep, PTL
<1>2. A!AliveSpec => A!AliveInit /\ [][A!AliveNext]_aVars
  BY DEF A!AliveSpec, A!aliveVars, A!node, A!ledgers, A!tokens, aVars
<1>3. QED
  BY <1>1, <1>2, PTL

LEMMA CertificateHolds == AliveInv => CertificateOnRecord
BY DEF AliveInv, RowOK, CertificateOnRecord, A!CertificateOnRecord

LEMMA BirthClaimHolds == AliveInv => BirthClaimOnce
BY DEF AliveInv, RowOK, RegisterOK, BirthClaimOnce, A!BirthClaimOnce

\* The certificate is a row of the ledger, and ALIVE six answers: whatever the
\* instruments find, and however many processes read, die or mint at once.
THEOREM CertificateIsARow == A!AliveSpec => []CertificateOnRecord
BY AliveAlways, CertificateHolds, PTL

\* No day's birth claim is filed twice, and no node is called alive without one.
THEOREM OneBirthClaim == A!AliveSpec => []BirthClaimOnce
BY AliveAlways, BirthClaimHolds, PTL

\* The release, the ceremony and the reading side by side, as the run has them.
THEOREM ReleaseHolds ==
    ReleaseSpec => [](VerifiedMeansSigned /\ CleanMeansSigned /\ CeremonyAgrees
                      /\ CertificateOnRecord /\ BirthClaimOnce)
<1> DEFINE Inv == TrustInv /\ CeremonyInv /\ AliveInv
<1>1. MCInit => Inv
  BY TrustInvInit, CeremonyInvInit, AliveInvInit DEF MCInit
<1>2. Inv /\ [MCNext]_MCVars => Inv'
  <2> SUFFICES ASSUME Inv, [MCNext]_MCVars PROVE Inv'
    OBVIOUS
  <2>1. [TrustNext]_trustVars /\ [W!WizardNext]_wVars /\ [A!AliveNext]_aVars
    BY DEF MCNext, MCVars, ReleaseStep
  <2>2. QED
    BY <2>1, TrustStep, CeremonyStep, AliveStep
<1>3. Inv => VerifiedMeansSigned /\ CleanMeansSigned
  BY TrustHolds
<1>4. Inv => CeremonyAgrees /\ CertificateOnRecord /\ BirthClaimOnce
  BY CeremonyHolds, CertificateHolds, BirthClaimHolds
<1>5. QED
  BY <1>1, <1>2, <1>3, <1>4, PTL DEF ReleaseSpec
============================================================================
