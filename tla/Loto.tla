-------------------------------- MODULE Loto --------------------------------
(***************************************************************************)
(* intentops_core/loto/ledger.py: the tagout ledger, the chain of custody  *)
(* of every control that is switched off, and the posture read from it.    *)
(*                                                                         *)
(* Each writer is one action: the document is loaded, changed and replaced *)
(* inside one StoreLock, which is the discipline StoreGuard shows to       *)
(* implement an atomic update.  A call the code refuses changes nothing    *)
(* and is no step.                                                         *)
(*                                                                         *)
(* Texts are abstracted to what the code distinguishes.  An authority is   *)
(* blank (refused by every writer), named, or negating: a placeholder such *)
(* as "tbd", or a text that says it is no authority (_authority_is_null).  *)
(* A way back is stated or not (_is_null(reenergize_when)).                *)
(***************************************************************************)
EXTENDS Naturals, Sequences

CONSTANTS Ids,       \* entry ids
          DevId,     \* today's LOTO-...-GENESIS-UNSIGNED-DEV
          MaxLinks,  \* bound: chain links of one entry
          MaxMarks   \* bound: status changes of one entry

ASSUME LotoAssumption ==
    DevId \in Ids /\ MaxLinks \in Nat /\ MaxMarks \in Nat

TIERS             == {"T0", "T1", "T2", "T3", "T4"}
SAFETY_TIERS      == {"T3", "T4"}
LinkActions           == {"tagged_out", "tagged_in"}
REENERGIZE_STATES == {"pending", "ready", "done"}
Authorities       == {"named", "negating"}

Link == [action: LinkActions, authority: Authorities, way_back: BOOLEAN]

\* status is "unset" where the entry has no reenergize_status key.
Entry == [tier: TIERS, state: LinkActions, status: REENERGIZE_STATES \cup {"unset"},
          chain: Seq(Link), status_history: Seq(REENERGIZE_STATES)]

VARIABLE ledger   \* the entries of LEDGER.yaml, by id

vars == ledger

\* new_ledger: empty and valid.
Init == ledger = [i \in {} |-> 0]
----------------------------------------------------------------------------
(* The writers                                                             *)

\* create_entry: the new entry, already tagged out.
CreateEntry(i, tier, authority, way_back) ==
    /\ i \notin DOMAIN ledger
    /\ tier \in SAFETY_TIERS => way_back
    /\ ledger' = [j \in DOMAIN ledger \cup {i} |->
          IF j = i
            THEN [tier |-> tier, state |-> "tagged_out", status |-> "unset",
                  chain |-> <<[action |-> "tagged_out", authority |-> authority,
                               way_back |-> way_back]>>,
                  status_history |-> <<>>]
            ELSE ledger[j]]

\* machine._write_dev_tagout: the entry genesis opens under the flag.
DevTagout == CreateEntry(DevId, "T3", "named", TRUE)

\* Mutant of MayLink: no way back asked of a second tagout.
MayLinkUnguarded(e, action, way_back) == way_back \in BOOLEAN

\* append_chain_link's refusal: a safety control needs a way back.
MayLink(e, action, way_back) ==
    action = "tagged_out" /\ e.tier \in SAFETY_TIERS => way_back

\* Mutant of Linked: the state is left as it was.
LinkedForgetsState(e, link) ==
    [e EXCEPT !.chain = Append(@, link),
              !.status = IF link.action = "tagged_in" THEN "unset" ELSE @]

\* What append_chain_link makes of the entry.
Linked(e, link) ==
    [e EXCEPT !.chain = Append(@, link), !.state = link.action,
              !.status = IF link.action = "tagged_in" THEN "unset" ELSE @]

\* append_chain_link: tag in, or tag out again, from either state.
AppendChainLink(i, action, authority, way_back) ==
    /\ i \in DOMAIN ledger
    /\ Len(ledger[i].chain) < MaxLinks
    /\ MayLink(ledger[i], action, way_back)
    /\ ledger' = [ledger EXCEPT ![i] = Linked(@,
          [action |-> action, authority |-> authority, way_back |-> way_back])]

\* set_reenergize_status: only while the control is off.
SetReenergizeStatus(i, status) ==
    /\ i \in DOMAIN ledger
    /\ ledger[i].state = "tagged_out"
    /\ Len(ledger[i].status_history) < MaxMarks
    /\ ledger' = [ledger EXCEPT ![i].status = status,
                                ![i].status_history = Append(@, status)]

Next ==
    \/ \E i \in Ids \ {DevId}, tier \in TIERS, a \in Authorities, w \in BOOLEAN :
          CreateEntry(i, tier, a, w)
    \/ DevTagout
    \/ \E i \in Ids, action \in LinkActions, a \in Authorities, w \in BOOLEAN :
          AppendChainLink(i, action, a, w)
    \/ \E i \in Ids, status \in REENERGIZE_STATES : SetReenergizeStatus(i, status)

Spec == Init /\ [][Next]_vars
----------------------------------------------------------------------------
(* The readers                                                             *)

Off  == {i \in DOMAIN ledger : ledger[i].state = "tagged_out"}
Last(s) == s[Len(s)]

\* Mutant of SafetyOff: a T4 is forgotten.
SafetyOffT3Only == {i \in Off : ledger[i].tier = "T3"}

SafetyOff == {i \in Off : ledger[i].tier \in SAFETY_TIERS}

\* check_schema, as far as the writers could break it: the vocabulary, a chain
\* that is not empty, and the state against the last action of the chain.
SchemaFindings ==
    {i \in DOMAIN ledger :
        \/ ledger[i].status \notin REENERGIZE_STATES \cup {"unset"}
        \/ ledger[i].chain = <<>>
        \/ Last(ledger[i].chain).action # ledger[i].state}

\* The tagged_out links of an entry, and check_tier_rules: a live T3/T4 whose
\* last tagged_out link has no authority or no way back.
OutLinks(i)   == {n \in DOMAIN ledger[i].chain : ledger[i].chain[n].action = "tagged_out"}
IsLastOut(i, n) == n \in OutLinks(i) /\ \A m \in OutLinks(i) : m <= n
Ungoverned ==
    {i \in SafetyOff :
        \/ OutLinks(i) = {}
        \/ \E n \in OutLinks(i) : IsLastOut(i, n)
              /\ \/ ledger[i].chain[n].authority = "negating"
                 \/ ~ledger[i].chain[n].way_back}

\* posture: the oracle.
Posture ==
    IF Ungoverned # {} \/ \E i \in Off : ledger[i].status = "ready" THEN "BLOCKED"
    ELSE IF SafetyOff # {} THEN "ATTENTION"
    ELSE "REMEDIATED"
----------------------------------------------------------------------------
TypeOK ==
    /\ DOMAIN ledger \subseteq Ids
    /\ \A i \in DOMAIN ledger : ledger[i] \in Entry

\* No sequence of creations, taggings and status changes makes a ledger that
\* the ledger's own check_schema would report: the state of each entry is the
\* last action of its chain.
WritersKeepSchema == SchemaFindings = {}

\* A reenergize_status is there only while the control is off, although one
\* writer sets it, another clears it and a third tags the control out again.
StatusOnlyWhileOff ==
    \A i \in DOMAIN ledger : ledger[i].status # "unset" => i \in Off

\* A safety control that is off always has a stated way back, however often it
\* was tagged in and out: the one thing that can leave it ungoverned is an
\* authority that says it is none.
AlwaysAWayBack ==
    \A i \in SafetyOff : \E n \in OutLinks(i) :
        IsLastOut(i, n) /\ ledger[i].chain[n].way_back

\* What the tagout ledger keeps: the schema its readers rely on, and a way back
\* for every safety control that is off (loto/ledger.py).
TagoutsKept == WritersKeepSchema /\ AlwaysAWayBack

\* While a safety control is off the posture does not read REMEDIATED, and it
\* comes to read REMEDIATED only by a step after which every control that was
\* off is tagged in.
RemediatedOnlyByTagIn ==
    [][(\E i \in DOMAIN ledger : ledger[i].state = "tagged_out"
                                 /\ ledger[i].tier \in {"T3", "T4"})
          => Posture # "REMEDIATED"
             /\ (Posture' = "REMEDIATED" =>
                   \A i \in DOMAIN ledger : ledger[i].tier \in {"T3", "T4"} =>
                       ledger'[i].state = "tagged_in")]_vars

\* The chain of custody is append-only: no entry goes, no link changes.
ChainAppendOnly ==
    [][\A i \in DOMAIN ledger :
          /\ i \in DOMAIN ledger'
          /\ ledger'[i].tier = ledger[i].tier
          /\ Len(ledger'[i].chain) >= Len(ledger[i].chain)
          /\ \A n \in DOMAIN ledger[i].chain :
                ledger'[i].chain[n] = ledger[i].chain[n]]_vars
=============================================================================
