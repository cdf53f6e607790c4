---------------------------- MODULE StoreGuard -----------------------------
(***************************************************************************)
(* intentops_core/store_guard.py: the write discipline every shared store  *)
(* of the package goes through.  A writer takes an OS lock on the sibling  *)
(* .lock file, re-reads the store inside the lock, writes the new text to  *)
(* a temporary file and renames it over the store.                         *)
(*                                                                         *)
(* One store, any number of processes.  An update adds one entry; the      *)
(* store's text is abstracted to the set of entries it holds, and a file   *)
(* whose text has only partly reached the disk is "torn".  A store that    *)
(* does not exist yet folds to the empty set, as it does for every loader. *)
(*                                                                         *)
(* EarlyReaders are the call sites that read the store BEFORE they take    *)
(* the lock and write what they read under it: genesis/machine.py does so  *)
(* for provenance-record.json (g1_provenance) and consent.yaml             *)
(* (g4_consent).                                                           *)
(***************************************************************************)
EXTENDS Naturals

CONSTANTS Writers,       \* the processes that write this store
          EarlyReaders,  \* those that load it before acquiring the lock
          Backend,       \* lock_backend(): "fcntl", "msvcrt" or "none"
          MaxOps,        \* bound: updates each process asks for
          MaxCrashes     \* bound: process deaths

ASSUME BackendAssumption == Backend \in {"fcntl", "msvcrt", "none"}
ASSUME WritersAssumption == EarlyReaders \subseteq Writers
ASSUME BoundsAssumption  == MaxOps \in Nat /\ MaxCrashes \in Nat

Entries == Writers \X (1..MaxOps)

VARIABLES pc,       \* where each process is in StoreLock / locked_rmw
          op,       \* the number of the update it is working on
          seen,     \* the value its loader returned
          tmp,      \* its temporary file: "none", "torn" or "whole"
          store,    \* the entries in the store file
          shape,    \* whether the store file is "whole" or "torn"
          holders,  \* the processes whose handle holds the OS lock
          acked,    \* history: updates whose caller saw the call return
          crashes   \* how many processes have died

vars == <<pc, op, seen, tmp, store, shape, holders, acked, crashes>>

\* waiting   in StoreLock.__enter__, trying until the deadline
\* holding   inside the lock, nothing read yet
\* loaded    the loader has returned
\* opened    mkstemp has made the temporary file
\* written   its text is complete and closed
\* replaced  os.replace has happened
InLock == {"holding", "loaded", "opened", "written", "replaced"}
PCs    == {"idle", "waiting"} \cup InLock

Entry(w) == <<w, op[w]>>

\* transform: the caller's update of the value it was handed.
Transform(current, e) == current \cup {e}

Init ==
    /\ pc = [w \in Writers |-> "idle"]
    /\ op = [w \in Writers |-> 0]
    /\ seen = [w \in Writers |-> {}]
    /\ tmp = [w \in Writers |-> "none"]
    /\ store = {}
    /\ shape = "whole"
    /\ holders = {}
    /\ acked = {}
    /\ crashes = 0

Goto(w, where) == pc' = [pc EXCEPT ![w] = where]

\* The kernel's answer to a non-blocking exclusive lock; with no backend
\* _try_acquire takes nothing and says yes.
Free == Backend = "none" \/ holders = {}

\* A caller builds StoreLock(lock_for(path)) and enters it.  An early reader
\* has already read the file by then.
Call(w) ==
    /\ pc[w] = "idle"
    /\ op[w] < MaxOps
    /\ op' = [op EXCEPT ![w] = @ + 1]
    /\ seen' = [seen EXCEPT ![w] = IF w \in EarlyReaders THEN store ELSE {}]
    /\ Goto(w, "waiting")
    /\ UNCHANGED <<tmp, store, shape, holders, acked, crashes>>

\* Mutant: the value handed to transform is not re-read inside the lock.
TryAcquireNoFreshRead(w) ==
    /\ pc[w] = "waiting"
    /\ Free
    /\ holders' = holders \cup {w}
    /\ Goto(w, "loaded")
    /\ UNCHANGED <<op, seen, tmp, store, shape, acked, crashes>>

\* __enter__: _try_acquire succeeds and the pid is stamped in the lock file.
TryAcquire(w) ==
    /\ pc[w] = "waiting"
    /\ Free
    /\ holders' = holders \cup {w}
    /\ Goto(w, IF w \in EarlyReaders THEN "loaded" ELSE "holding")
    /\ UNCHANGED <<op, seen, tmp, store, shape, acked, crashes>>

\* Mutant: the deadline passes and the writer goes ahead without the lock.
GiveUpProceeds(w) ==
    /\ pc[w] = "waiting"
    /\ ~Free
    /\ Goto(w, "holding")
    /\ UNCHANGED <<op, seen, tmp, store, shape, holders, acked, crashes>>

\* __enter__: the attempt failed and the deadline has passed, so the caller
\* gets StoreLockTimeout.  Before the deadline a failed attempt only sleeps.
GiveUp(w) ==
    /\ pc[w] = "waiting"
    /\ ~Free
    /\ Goto(w, "idle")
    /\ UNCHANGED <<op, seen, tmp, store, shape, holders, acked, crashes>>

\* locked_rmw: the fresh read inside the lock.
Load(w) ==
    /\ pc[w] = "holding"
    /\ seen' = [seen EXCEPT ![w] = store]
    /\ Goto(w, "loaded")
    /\ UNCHANGED <<op, tmp, store, shape, holders, acked, crashes>>

\* atomic_replace: mkstemp makes an empty file in the store's directory.
MakeTemp(w) ==
    /\ pc[w] = "loaded"
    /\ tmp' = [tmp EXCEPT ![w] = "torn"]
    /\ Goto(w, "opened")
    /\ UNCHANGED <<op, seen, store, shape, holders, acked, crashes>>

\* Mutant: the file is renamed before its buffer is flushed.
WriteTempUnflushed(w) ==
    /\ pc[w] = "opened"
    /\ Goto(w, "written")
    /\ UNCHANGED <<op, seen, tmp, store, shape, holders, acked, crashes>>

\* atomic_replace: the dumped new value is written and the file closed.
WriteTemp(w) ==
    /\ pc[w] = "opened"
    /\ tmp' = [tmp EXCEPT ![w] = "whole"]
    /\ Goto(w, "written")
    /\ UNCHANGED <<op, seen, store, shape, holders, acked, crashes>>

\* atomic_replace: os.replace renames the temporary file over the store.
Replace(w) ==
    /\ pc[w] = "written"
    /\ store' = Transform(seen[w], Entry(w))
    /\ shape' = tmp[w]
    /\ tmp' = [tmp EXCEPT ![w] = "none"]
    /\ Goto(w, "replaced")
    /\ UNCHANGED <<op, seen, holders, acked, crashes>>

\* __exit__ on the normal path; the caller sees the call return.
Exit(w) ==
    /\ pc[w] = "replaced"
    /\ holders' = holders \ {w}
    /\ acked' = acked \cup {Entry(w)}
    /\ Goto(w, "idle")
    /\ UNCHANGED <<op, seen, tmp, store, shape, crashes>>

\* Mutant: an exception leaves the lock held.
RaiseKeepsLock(w) ==
    /\ pc[w] \in InLock \ {"replaced"}
    /\ tmp' = [tmp EXCEPT ![w] = "none"]
    /\ Goto(w, "idle")
    /\ UNCHANGED <<op, seen, store, shape, holders, acked, crashes>>

\* Mutant: the exception is swallowed and the caller sees the call return.
RaiseSwallowed(w) ==
    /\ pc[w] \in InLock \ {"replaced"}
    /\ tmp' = [tmp EXCEPT ![w] = "none"]
    /\ holders' = holders \ {w}
    /\ acked' = acked \cup {Entry(w)}
    /\ Goto(w, "idle")
    /\ UNCHANGED <<op, seen, store, shape, crashes>>

\* The loader, the transform, the dumper or the file system raises before the
\* rename: atomic_replace unlinks its temporary file, __exit__ releases the
\* lock, and the exception reaches the caller.
Raise(w) ==
    /\ pc[w] \in InLock \ {"replaced"}
    /\ tmp' = [tmp EXCEPT ![w] = "none"]
    /\ holders' = holders \ {w}
    /\ Goto(w, "idle")
    /\ UNCHANGED <<op, seen, store, shape, acked, crashes>>

\* The process dies.  The kernel releases its lock; the temporary file is
\* left behind under a name nobody will ever open.
Crash(w) ==
    /\ pc[w] # "idle"
    /\ crashes < MaxCrashes
    /\ crashes' = crashes + 1
    /\ tmp' = [tmp EXCEPT ![w] = "none"]
    /\ holders' = holders \ {w}
    /\ Goto(w, "idle")
    /\ UNCHANGED <<op, seen, store, shape, acked>>

Next ==
    \E w \in Writers :
        \/ Call(w)
        \/ TryAcquire(w)
        \/ GiveUp(w)
        \/ Load(w)
        \/ MakeTemp(w)
        \/ WriteTemp(w)
        \/ Replace(w)
        \/ Exit(w)
        \/ Raise(w)
        \/ Crash(w)

\* A process that is scheduled goes on with the call it is in.  Asking for an
\* update, dying and failing are never owed.
Progress(w) ==
    TryAcquire(w) \/ GiveUp(w) \/ Load(w) \/ MakeTemp(w) \/ WriteTemp(w)
        \/ Replace(w) \/ Exit(w)

Spec == Init /\ [][Next]_vars

FairSpec == Spec /\ \A w \in Writers : WF_vars(Progress(w))
----------------------------------------------------------------------------
TypeOK ==
    /\ pc \in [Writers -> PCs]
    /\ op \in [Writers -> 0..MaxOps]
    /\ seen \in [Writers -> SUBSET Entries]
    /\ tmp \in [Writers -> {"none", "torn", "whole"}]
    /\ store \in SUBSET Entries
    /\ shape \in {"torn", "whole"}
    /\ holders \in SUBSET Writers
    /\ acked \in SUBSET Entries
    /\ crashes \in 0..MaxCrashes

\* Two processes are never inside the critical section of one store, across
\* timeouts, exceptions and process deaths (StoreLock, store_guard.py).
MutualExclusion ==
    \A v, w \in Writers :
        pc[v] \in InLock /\ pc[w] \in InLock => v = w

\* An update whose caller saw the call return is in the store for ever after:
\* the "shared whiteboard" loss the module exists to retire cannot happen.
NoLostUpdate == acked \subseteq store

\* A process that opens the store without the lock, at any instant and after
\* any failure, reads a complete document: "a reader never observes a
\* half-written store" (atomic_replace).
ReaderSeesWholeFile == shape = "whole"

\* What a store behind the lock is: one process at a time inside, no update
\* lost whose caller saw it return, no half-written file (store_guard.py).
StoreIsGuarded == MutualExclusion /\ NoLostUpdate /\ ReaderSeesWholeFile

\* A value read inside the lock is still the store's value when the writer
\* renames its file over it ("a value read before acquisition may already be
\* stale", locked_rmw).
FreshWhenWritten ==
    \A w \in Writers \ EarlyReaders :
        pc[w] \in {"loaded", "opened", "written"} => seen[w] = store

\* Whatever a holder meets (an exception, its own death), the lock is given
\* back, so later writers do not all run into their deadline.
LockReleased == \A w \in Writers : w \in holders ~> w \notin holders

\* Each change of the store is exactly one caller's update, and a caller is told of
\* an update only once it is there: locked_rmw implements AtomicStore.
Atomic == INSTANCE AtomicStore WITH contents <- store

ImplementsAtomicStore == Atomic!Spec
=============================================================================
