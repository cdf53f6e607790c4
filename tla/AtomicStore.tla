---------------------------- MODULE AtomicStore ----------------------------
(***************************************************************************)
(* What a store written through intentops_core.store_guard promises its    *)
(* callers: an update lands whole and at one instant, and nothing a caller *)
(* was told is written ever leaves the store.  StoreGuard implements it.   *)
(***************************************************************************)
CONSTANT Entries     \* every update any caller could ask for

VARIABLES contents,  \* the updates the store file holds
          acked      \* the updates whose caller saw locked_rmw return

Init == contents = {} /\ acked = {}

\* One whole update becomes visible to every reader at once.
Apply(e) ==
    /\ contents' = contents \cup {e}
    /\ UNCHANGED acked

\* A caller is told, and only of an update that is already in the store.
Acknowledge(e) ==
    /\ e \in contents
    /\ acked' = acked \cup {e}
    /\ UNCHANGED contents

Next == \E e \in Entries : Apply(e) \/ Acknowledge(e)

Spec == Init /\ [][Next]_<<contents, acked>>
=============================================================================
