----------------------------- MODULE Approvals -----------------------------
(***************************************************************************)
(* intentops_core/approvals/queue.py: the inbox of everything a human must *)
(* rule on.  One file per item, in pending/, approved/ or rejected/; a     *)
(* transition locks the item's file, re-reads it, writes the new record in *)
(* the target directory and only then unlinks the old file.  An append-    *)
(* only history follows, outside the lock.                                 *)
(*                                                                         *)
(* Each process runs one operation at a time and every file-system access  *)
(* is a step of its own, so deciders, commenters, sweepers, readers and    *)
(* submitters interleave freely.  A record keeps the fields the properties *)
(* tell apart; the lock is StoreGuard's, taken and released whole.         *)
(***************************************************************************)
EXTENDS Naturals, FiniteSets

CONSTANTS Procs,        \* the processes using the queue; each decides as itself
          Ids,          \* approval ids, minted fresh (uuid4)
          Slugs,        \* decision slugs (subject_id)
          NoOne,        \* no decider, no lock holder, no item
          MaxPending,   \* MAX_PENDING, 200 in the code
          MaxComments,  \* MAX_COMMENTS, 50 in the code
          MaxFailures   \* bound: process deaths and raised OSErrors

ASSUME NoOneAssumption  == NoOne \notin Procs \cup Ids \cup Slugs
ASSUME BoundsAssumption == MaxPending \in Nat /\ MaxComments \in Nat
                              /\ MaxFailures \in Nat

Dirs     == {"pending", "approved", "rejected"}
Statuses == {"pending", "approved", "rejected", "expired"}
Kinds    == {"approved", "rejected", "commented", "expired", "submitted"}

\* The Approval dataclass.  by is decided_by, lapsed is lapsed_from ("none"
\* while the window has not closed), notes counts the comments.
Record == [slug: Slugs, status: Statuses, by: Procs \cup {NoOne},
           lapsed: Statuses \cup {"none"}, notes: 0..MaxComments]

VARIABLES files,     \* files[d][i]: the records at <d>/<i>.json, at most one
          lock,      \* lock[d][i]: who holds <d>/<i>.json.lock
          closed,    \* the ids whose expires_at has passed
          history,   \* the rows of history.jsonl
          act,       \* what each process is doing
          failures   \* how many failures have happened

vars == <<files, lock, closed, history, act, failures>>

Exists(d, i) == files[d][i] # {}
Rec(d, i)    == CHOOSE r \in files[d][i] : TRUE
Paths        == {"pending", "approved"} \X Ids

\* An operation in progress.  at is the next step; dir/id the path it works
\* on; item the record it holds in memory; todo and due belong to a sweep,
\* due also to a get: what it must not miss.
Op == [at: {"idle", "capacity", "file", "wait", "inside", "write", "unlink",
            "record", "look", "read", "missed", "found", "sweep", "swept"},
       kind: Kinds, dir: Dirs, id: Ids \cup {NoOne},
       slug: Slugs \cup {NoOne}, item: SUBSET Record, todo: SUBSET Ids, due: SUBSET Ids, sweeping: BOOLEAN]

Idle == [at |-> "idle", kind |-> "submitted", dir |-> "pending",
         id |-> NoOne, slug |-> NoOne,
         item |-> {}, todo |-> {}, due |-> {}, sweeping |-> FALSE]

Init ==
    /\ files = [d \in Dirs |-> [i \in Ids |-> {}]]
    /\ lock = [d \in Dirs |-> [i \in Ids |-> NoOne]]
    /\ closed = {}
    /\ history = {}
    /\ act = [p \in Procs |-> Idle]
    /\ failures = 0

Become(p, op) == act' = [act EXCEPT ![p] = op]
Goto(p, step) == Become(p, [act[p] EXCEPT !.at = step])
----------------------------------------------------------------------------
(* Submission                                                              *)

Pending == {i \in Ids : Exists("pending", i)}

\* Bound: the ids still to be minted outnumber the submissions under way.
IdsLeft ==
    Cardinality({q \in Procs : act[q].at \in {"capacity", "file"}})
        < Cardinality({i \in Ids : \A d \in Dirs : ~Exists(d, i)})

\* submit_decision: an item with this slug already pending is returned;
\* otherwise the submission goes on.  Nothing is locked.
Submit(p, s) ==
    /\ act[p].at = "idle"
    /\ IdsLeft
    /\ \A i \in Pending : Rec("pending", i).slug # s
    /\ Become(p, [Idle EXCEPT !.at = "capacity", !.slug = s])
    /\ UNCHANGED <<files, lock, closed, history, failures>>

\* submit_decision: the capacity check.
Capacity(p) ==
    /\ act[p].at = "capacity"
    /\ Become(p, IF Cardinality(Pending) >= MaxPending
                   THEN Idle
                   ELSE [act[p] EXCEPT !.at = "file"])
    /\ UNCHANGED <<files, lock, closed, history, failures>>

\* submit_decision: the record lands under a fresh id.
File(p) ==
    /\ act[p].at = "file"
    /\ \E i \in Ids :
          LET r == [slug |-> act[p].slug, status |-> "pending", by |-> NoOne,
                    lapsed |-> "none", notes |-> 0]
          IN  /\ \A d \in Dirs : ~Exists(d, i)
              /\ files' = [files EXCEPT !["pending"][i] = {r}]
              /\ Become(p, [act[p] EXCEPT !.at = "record", !.kind = "submitted",
                                          !.id = i, !.item = {r}])
    /\ UNCHANGED <<lock, closed, history, failures>>
----------------------------------------------------------------------------
(* The transition shared by _decide, comment and _expire                   *)

\* approve, reject and comment name an id; the file need not exist.
Request(p, i, kind) ==
    /\ act[p].at = "idle"
    /\ Become(p, [Idle EXCEPT !.at = "wait", !.kind = kind, !.id = i])
    /\ UNCHANGED <<files, lock, closed, history, failures>>

\* Mutant: the null context is used instead of the lock.
EnterUnlocked(p) ==
    LET a == act[p] IN
    /\ a.at = "wait"
    /\ lock' = [lock EXCEPT ![a.dir][a.id] = p]
    /\ Goto(p, "inside")
    /\ UNCHANGED <<files, closed, history, failures>>

\* _item_lock(path) is entered.
Enter(p) ==
    LET a == act[p] IN
    /\ a.at = "wait"
    /\ lock[a.dir][a.id] = NoOne
    /\ lock' = [lock EXCEPT ![a.dir][a.id] = p]
    /\ Goto(p, "inside")
    /\ UNCHANGED <<files, closed, history, failures>>

\* StoreLockTimeout: it leaves the whole operation, a sweep included.
Timeout(p) ==
    LET a == act[p] IN
    /\ a.at = "wait"
    /\ lock[a.dir][a.id] # NoOne
    /\ Become(p, Idle)
    /\ UNCHANGED <<files, lock, closed, history, failures>>

\* Mutant: to_dict omits the comments.
RuledDropsComments(r, kind, p) ==
    [r EXCEPT !.status = kind, !.by = p, !.notes = 0]

\* _decide: status, decided_by (decided_at, rejection_reason).
Ruled(r, kind, p) == [r EXCEPT !.status = kind, !.by = p]

\* comment: one more comment, the item stays pending.
Commented(r) == [r EXCEPT !.notes = @ + 1]

\* Mutant: the sweep replaces decided_by, the old expiry wound.
LapsedOverwrites(r) ==
    [r EXCEPT !.lapsed = r.status, !.status = "expired", !.by = NoOne]

\* Mutant: status is set before lapsed_from is taken from it.
LapsedSwapped(r) == [r EXCEPT !.lapsed = "expired", !.status = "expired"]

\* _expire: status and lapsed_from (expired_by, expired_at); decided_by is
\* not touched.
Lapsed(r) == [r EXCEPT !.lapsed = r.status, !.status = "expired"]

\* The checks made on the record re-read inside the lock.
Allowed(kind, i, r) ==
    CASE kind \in {"approved", "rejected"} -> r.status = "pending"
      [] kind = "commented"                -> r.notes < MaxComments
      [] kind = "expired"                  -> i \in closed

Changed(kind, p, r) ==
    CASE kind \in {"approved", "rejected"} -> Ruled(r, kind, p)
      [] kind = "commented"                -> Commented(r)
      [] kind = "expired"                  -> Lapsed(r)

Target(kind) ==
    CASE kind = "approved"  -> "approved"
      [] kind = "commented" -> "pending"
      [] OTHER              -> "rejected"

Release(a) == lock' = [lock EXCEPT ![a.dir][a.id] = NoOne]

\* Where a transition that did nothing leaves its process: _expire returns
\* None to the sweep, the others raise QueueError.
Refused(a) == IF a.sweeping THEN [a EXCEPT !.at = "sweep"] ELSE Idle

\* The item is re-read inside the lock and changed in memory.
Reread(p) ==
    LET a == act[p] IN
    /\ a.at = "inside"
    /\ Exists(a.dir, a.id)
    /\ Allowed(a.kind, a.id, Rec(a.dir, a.id))
    /\ Become(p, [a EXCEPT !.at = "write",
                           !.item = {Changed(a.kind, p, Rec(a.dir, a.id))}])
    /\ UNCHANGED <<files, lock, closed, history, failures>>

\* The item is gone or its state forbids the transition: the lock is released
\* and nothing is written.
Refuse(p) ==
    LET a == act[p] IN
    /\ a.at = "inside"
    /\ Exists(a.dir, a.id) => ~Allowed(a.kind, a.id, Rec(a.dir, a.id))
    /\ Release(a)
    /\ Become(p, Refused(a))
    /\ UNCHANGED <<files, closed, history, failures>>

\* _write_json to the target directory.  A comment is done with this write.
Write(p) ==
    LET a == act[p] IN
    /\ a.at = "write"
    /\ files' = [files EXCEPT ![Target(a.kind)][a.id] = a.item]
    /\ IF a.kind = "commented"
         THEN Release(a) /\ Goto(p, "record")
         ELSE Goto(p, "unlink") /\ UNCHANGED lock
    /\ UNCHANGED <<closed, history, failures>>

\* Mutant: the old file is left in place.
UnlinkSkipped(p) ==
    LET a == act[p] IN
    /\ a.at = "unlink"
    /\ Release(a)
    /\ Goto(p, "record")
    /\ UNCHANGED <<files, closed, history, failures>>

\* The old file is unlinked and the lock released.
Unlink(p) ==
    LET a == act[p] IN
    /\ a.at = "unlink"
    /\ files' = [files EXCEPT ![a.dir][a.id] = {}]
    /\ Release(a)
    /\ Goto(p, "record")
    /\ UNCHANGED <<closed, history, failures>>

\* _record_history, outside the item's lock.
RecordHistory(p) ==
    LET a == act[p] IN
    /\ a.at = "record"
    /\ history' = history \cup {[event |-> a.kind, id |-> a.id, item |-> r] :
                                   r \in a.item}
    /\ Become(p, Refused(a))
    /\ UNCHANGED <<files, lock, closed, failures>>
----------------------------------------------------------------------------
(* Expiry                                                                  *)

\* expire_stale begins with a listing of pending/.
SweepBegin(p) ==
    /\ act[p].at = "idle"
    /\ Become(p, [Idle EXCEPT !.at = "sweep", !.kind = "expired",
                     !.sweeping = TRUE, !.dir = "pending", !.todo = Pending,
                     !.due = {i \in closed : Exists("pending", i)
                                               \/ Exists("approved", i)}])
    /\ UNCHANGED <<files, lock, closed, history, failures>>

\* The next listed file: unreadable or within its window it is passed over,
\* otherwise _expire is called on its path.
SweepNext(p) ==
    LET a == act[p] IN
    /\ a.at = "sweep"
    /\ \E i \in a.todo :
          Become(p, [a EXCEPT !.todo = @ \ {i}, !.id = i,
                              !.at = IF Exists(a.dir, i) /\ i \in closed
                                       THEN "wait" ELSE "sweep"])
    /\ UNCHANGED <<files, lock, closed, history, failures>>

\* Mutant: only pending/ is swept.
SweepDirPendingOnly(p) ==
    LET a == act[p] IN
    /\ a.at = "sweep" /\ a.todo = {}
    /\ Become(p, [a EXCEPT !.at = "swept"])
    /\ UNCHANGED <<files, lock, closed, history, failures>>

\* pending/ is done: approved/ is listed next, and then the sweep returns.
SweepDir(p) ==
    LET a == act[p] IN
    /\ a.at = "sweep" /\ a.todo = {}
    /\ Become(p, IF a.dir = "pending"
                   THEN [a EXCEPT !.dir = "approved",
                            !.todo = {i \in Ids : Exists("approved", i)}]
                   ELSE [a EXCEPT !.at = "swept"])
    /\ UNCHANGED <<files, lock, closed, history, failures>>

\* The clock passes an item's expires_at.
WindowCloses(i) ==
    /\ i \notin closed
    /\ \E d \in Dirs : Exists(d, i)
    /\ closed' = closed \cup {i}
    /\ UNCHANGED <<files, lock, history, act, failures>>
----------------------------------------------------------------------------
(* Reads                                                                   *)

\* Mutant: approved/ is not looked into.
NextDirSkips(d) == "rejected"

\* get looks in pending/, approved/ and rejected/, in this order.
NextDir(d) == IF d = "pending" THEN "approved" ELSE "rejected"

Get(p, i) ==
    /\ act[p].at = "idle"
    /\ Become(p, [Idle EXCEPT !.at = "look", !.id = i, !.dir = "pending",
                     !.due = {j \in {i} : \E d \in Dirs : Exists(d, j)}])
    /\ UNCHANGED <<files, lock, closed, history, failures>>

Look(p) ==
    LET a == act[p] IN
    /\ a.at = "look"
    /\ Become(p, IF Exists(a.dir, a.id) THEN [a EXCEPT !.at = "read"]
                 ELSE IF a.dir = "rejected" THEN [a EXCEPT !.at = "missed"]
                 ELSE [a EXCEPT !.dir = NextDir(a.dir)])
    /\ UNCHANGED <<files, lock, closed, history, failures>>

\* The file may have moved since exists() said yes: then the read raises.
Read(p) ==
    LET a == act[p] IN
    /\ a.at = "read"
    /\ Become(p, IF Exists(a.dir, a.id)
                   THEN [a EXCEPT !.at = "found", !.item = files[a.dir][a.id]]
                   ELSE Idle)
    /\ UNCHANGED <<files, lock, closed, history, failures>>

\* get or expire_stale has returned to its caller.
Return(p) ==
    /\ act[p].at \in {"missed", "found", "swept"}
    /\ Become(p, Idle)
    /\ UNCHANGED <<files, lock, closed, history, failures>>
----------------------------------------------------------------------------
\* The process dies or the file system raises.  The kernel, or the with
\* statement, releases its lock; what was written stays written; a history
\* row that was not appended is only logged as missing.
Fail(p) ==
    /\ act[p].at \notin {"idle", "missed", "found", "swept"}
    /\ failures < MaxFailures
    /\ failures' = failures + 1
    /\ lock' = [d \in Dirs |-> [i \in Ids |->
                  IF lock[d][i] = p THEN NoOne ELSE lock[d][i]]]
    /\ Become(p, Idle)
    /\ UNCHANGED <<files, closed, history>>

Next ==
    \/ \E p \in Procs :
          \/ \E s \in Slugs : Submit(p, s)
          \/ Capacity(p)
          \/ File(p)
          \/ \E i \in Ids, k \in {"approved", "rejected", "commented"} :
                Request(p, i, k)
          \/ Enter(p)
          \/ Timeout(p)
          \/ Reread(p)
          \/ Refuse(p)
          \/ Write(p)
          \/ Unlink(p)
          \/ RecordHistory(p)
          \/ SweepBegin(p)
          \/ SweepNext(p)
          \/ SweepDir(p)
          \/ \E i \in Ids : Get(p, i)
          \/ Look(p)
          \/ Read(p)
          \/ Return(p)
          \/ Fail(p)
    \/ \E i \in Ids : WindowCloses(i)

Spec == Init /\ [][Next]_vars
----------------------------------------------------------------------------
TypeOK ==
    /\ files \in [Dirs -> [Ids -> SUBSET Record]]
    /\ \A d \in Dirs, i \in Ids : Cardinality(files[d][i]) <= 1
    /\ lock \in [Dirs -> [Ids -> Procs \cup {NoOne}]]
    /\ closed \subseteq Ids
    /\ \A row \in history :
          row.event \in Kinds /\ row.id \in Ids /\ row.item \in Record
    /\ act \in [Procs -> Op]
    /\ failures \in 0..MaxFailures

\* Processes that hold the lock of one of item i's files.
Busy(i) == \E d \in Dirs : lock[d][i] # NoOne

Copies(i) == {d \in Dirs : Exists(d, i)}

\* While nothing has failed, an item whose file nobody holds is in at most one
\* directory: no interleaving of approve, reject, comment and sweep duplicates
\* it (the move made by _decide and _expire).
OneHome ==
    failures = 0 => \A i \in Ids : ~Busy(i) => Cardinality(Copies(i)) <= 1

\* However deciders race and die, one ruling is recorded per item: the loser finds
\* the item gone or no longer pending inside the lock (_decide).
OneRuling ==
    \A a, b \in history :
        /\ a.id = b.id
        /\ {a.event, b.event} \subseteq {"approved", "rejected"}
        => a = b

\* Every ruling of item i that some file records is still recorded next.
KeepsRulings(i) ==
    \A d \in Dirs : \A r \in files[d][i] :
        r.by # NoOne => \E e \in Dirs : \E q \in files'[e][i] : q.by = r.by

\* While nothing has failed, a ruling that is on file stays on file through
\* every later transition, with the name of who made it (decided_by).
RulingsStand == [][failures' = 0 => \A i \in Ids : KeepsRulings(i)]_vars

\* "decided_by and decided_at are NEVER overwritten" in _expire: the write of
\* an expiry does not destroy a ruling on file.
ExpiryKeepsRulings ==
    [][\A p \in Procs :
          act[p].at = "write" /\ act[p].kind = "expired" /\ act'[p].at = "unlink"
              => KeepsRulings(act[p].id)]_vars

\* A lapse says what it lapsed: an expired record that was granted still names
\* its decider, and one nobody ruled on names nobody (_expire), failures and
\* all.
LapseKeepsRuling ==
    \A i \in Ids : \A r \in files["rejected"][i] :
        r.status = "expired" =>
            /\ r.lapsed \in {"pending", "approved"}
            /\ (r.lapsed = "approved") <=> (r.by # NoOne)

\* get never answers None for an item that was in the queue when it started,
\* whatever moves meanwhile: the directories are searched in the order items
\* move through them, and a move writes before it unlinks.
GetNeverMisses == \A p \in Procs : act[p].at = "missed" => act[p].due = {}

\* When expire_stale returns, no item whose window had closed when it began is
\* still pending or granted, even if a decider moved it during the sweep.
SweepLeavesNoStaleGrant ==
    \A p \in Procs : act[p].at = "swept" =>
        \A i \in act[p].due : ~Exists("pending", i) /\ ~Exists("approved", i)

\* While nothing has failed, a comment whose caller saw it recorded is in the
\* item for good: a ruling or a lapse that overlaps it carries it along
\* (comment, _decide, _expire).
CommentsTravel ==
    \A row \in history : failures = 0 /\ row.event = "commented" =>
        \A d \in Copies(row.id) : Rec(d, row.id).notes >= row.item.notes

\* What the queue keeps of an item, whoever races and dies over it: one home, one
\* ruling, what a lapse was of, and every comment (approvals/queue.py).
ItemIsKept == OneHome /\ OneRuling /\ LapseKeepsRuling /\ CommentsTravel
=============================================================================
