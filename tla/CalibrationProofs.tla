------------------------- MODULE CalibrationProofs -------------------------
(***************************************************************************)
(* What the tagout ledger keeps true for every set of ids and every length *)
(* of chain, and what the calibration built on it never gives away.        *)
(*                                                                         *)
(* The invariants of Loto are not inductive one by one: whether an entry   *)
(* keeps its way back depends on its state being its last link's action,   *)
(* and tagging in moves state, status and chain together.  Good is what    *)
(* every writer preserves of one entry.                                    *)
(*                                                                         *)
(* The calibration's invariant says of each of its three journals what the *)
(* step that will append to it has already made sure of (GradesInv, BarInv *)
(* and SittingsInv); all three hold because the journals they look at, and *)
(* the chain of custody, only ever grow.                                   *)
(***************************************************************************)
EXTENDS Calibration, FiniteSetTheorems, WellFoundedInduction, TLAPS

\* One entry, as every writer leaves it.
Good(e) ==
    /\ e \in Entry
    /\ e.chain # <<>>
    /\ Last(e.chain).action = e.state
    /\ e.status # "unset" => e.state = "tagged_out"
    /\ e.tier \in SAFETY_TIERS /\ e.state = "tagged_out" => Last(e.chain).way_back

IInv == DOMAIN ledger \subseteq Ids /\ \A i \in DOMAIN ledger : Good(ledger[i])
----------------------------------------------------------------------------
\* create_entry writes a good entry.
LEMMA CreatedGood ==
    ASSUME NEW tier \in TIERS, NEW a \in Authorities, NEW w \in BOOLEAN,
           tier \in SAFETY_TIERS => w
    PROVE  Good([tier |-> tier, state |-> "tagged_out", status |-> "unset",
                 chain |-> <<[action |-> "tagged_out", authority |-> a,
                              way_back |-> w]>>,
                 status_history |-> <<>>])
<1> DEFINE l == [action |-> "tagged_out", authority |-> a, way_back |-> w]
<1>1. l \in Link
  BY DEF Link, LinkActions
<1>2. <<l>> \in Seq(Link) /\ Len(<<l>>) = 1 /\ <<l>>[1] = l /\ <<l>> # <<>>
  BY <1>1
<1>3. <<>> \in Seq(REENERGIZE_STATES)
  OBVIOUS
<1>4. QED
  BY <1>1, <1>2, <1>3 DEF Good, Entry, LinkActions, Last

\* append_chain_link keeps an entry good.
LEMMA LinkedGood ==
    ASSUME NEW e, Good(e), NEW link \in Link, MayLink(e, link.action, link.way_back)
    PROVE  Good(Linked(e, link))
<1> DEFINE f == Linked(e, link)
<1>1. e \in Entry /\ e.chain \in Seq(Link) /\ e.tier \in TIERS
      /\ e.status \in REENERGIZE_STATES \cup {"unset"}
  BY DEF Good, Entry
<1>2. /\ Append(e.chain, link) \in Seq(Link)
      /\ Len(Append(e.chain, link)) = Len(e.chain) + 1
      /\ Append(e.chain, link)[Len(e.chain) + 1] = link
      /\ Append(e.chain, link) # <<>>
  BY <1>1
<1>3. link.action \in LinkActions
  BY DEF Link
<1>4. /\ f.chain = Append(e.chain, link)
      /\ f.state = link.action
      /\ f.status = IF link.action = "tagged_in" THEN "unset" ELSE e.status
      /\ f.tier = e.tier
      /\ f \in Entry
  BY <1>1, <1>2, <1>3 DEF Linked, Entry
<1>5. Last(f.chain) = link
  BY <1>2, <1>4 DEF Last
<1>6. f.status # "unset" => f.state = "tagged_out"
  BY <1>3, <1>4 DEF LinkActions
<1>7. f.tier \in SAFETY_TIERS /\ f.state = "tagged_out" => Last(f.chain).way_back
  BY <1>4, <1>5 DEF MayLink
<1>8. QED
  BY <1>2, <1>4, <1>5, <1>6, <1>7 DEF Good

\* set_reenergize_status keeps an entry that is off good.
LEMMA MarkedGood ==
    ASSUME NEW e, Good(e), e.state = "tagged_out", NEW s \in REENERGIZE_STATES
    PROVE  Good([e EXCEPT !.status = s, !.status_history = Append(@, s)])
<1> DEFINE f == [e EXCEPT !.status = s, !.status_history = Append(@, s)]
<1>1. e \in Entry /\ e.status_history \in Seq(REENERGIZE_STATES)
  BY DEF Good, Entry
<1>2. Append(e.status_history, s) \in Seq(REENERGIZE_STATES)
  BY <1>1
<1>3. f \in Entry /\ f.chain = e.chain /\ f.state = e.state /\ f.tier = e.tier
  BY <1>1, <1>2 DEF Entry
<1>4. QED
  BY <1>3 DEF Good

\* Every call of a writer keeps every entry good.
LEMMA GoodStep == IInv /\ [Next]_vars => IInv'
<1> SUFFICES ASSUME IInv, [Next]_vars PROVE IInv'
  OBVIOUS
<1>1. ASSUME NEW i \in Ids, NEW tier \in TIERS, NEW a \in Authorities,
             NEW w \in BOOLEAN, CreateEntry(i, tier, a, w)
      PROVE  IInv'
  <2> DEFINE new == [tier |-> tier, state |-> "tagged_out", status |-> "unset",
                     chain |-> <<[action |-> "tagged_out", authority |-> a,
                                  way_back |-> w]>>,
                     status_history |-> <<>>]
  <2>1. Good(new)
    BY <1>1, CreatedGood DEF CreateEntry
  <2>2. ledger' = [j \in DOMAIN ledger \cup {i} |-> IF j = i THEN new ELSE ledger[j]]
    BY <1>1 DEF CreateEntry
  <2> HIDE DEF new
  <2>3. DOMAIN ledger' = DOMAIN ledger \cup {i}
    BY <2>2
  <2>4. \A j \in DOMAIN ledger' : Good(ledger'[j])
    BY <2>1, <2>2, <2>3 DEF IInv
  <2>5. QED
    BY <2>3, <2>4 DEF IInv
<1>2. ASSUME NEW i \in Ids, NEW action \in LinkActions, NEW a \in Authorities,
             NEW w \in BOOLEAN, AppendChainLink(i, action, a, w)
      PROVE  IInv'
  <2> DEFINE link == [action |-> action, authority |-> a, way_back |-> w]
             new  == Linked(ledger[i], link)
  <2>1. link \in Link /\ link.action = action /\ link.way_back = w
    BY DEF Link
  <2>2. i \in DOMAIN ledger /\ MayLink(ledger[i], action, w)
        /\ ledger' = [ledger EXCEPT ![i] = new]
    BY <1>2 DEF AppendChainLink
  <2> HIDE DEF link
  <2>3. Good(new)
    BY <2>1, <2>2, LinkedGood DEF IInv
  <2> HIDE DEF new
  <2>4. QED
    BY <2>2, <2>3 DEF IInv
<1>3. ASSUME NEW i \in Ids, NEW s \in REENERGIZE_STATES, SetReenergizeStatus(i, s)
      PROVE  IInv'
  <2> DEFINE new == [ledger[i] EXCEPT !.status = s, !.status_history = Append(@, s)]
  <2>1. i \in DOMAIN ledger /\ ledger[i].state = "tagged_out"
        /\ ledger' = [ledger EXCEPT ![i] = new]
    BY <1>3 DEF SetReenergizeStatus
  <2>2. Good(new)
    BY <2>1, MarkedGood DEF IInv
  <2> HIDE DEF new
  <2>3. QED
    BY <2>1, <2>2 DEF IInv
<1>4. CASE DevTagout
  BY <1>1, <1>4, LotoAssumption DEF DevTagout, TIERS, Authorities
<1>5. CASE UNCHANGED vars
  BY <1>5 DEF vars, IInv
<1>6. QED
  BY <1>1, <1>2, <1>3, <1>4, <1>5 DEF Next

\* The writers keep IInv in every behaviour.
LEMMA GoodAlways == Spec => []IInv
<1>1. Init => IInv
  BY DEF Init, IInv
<1>2. QED
  BY <1>1, GoodStep, PTL DEF Spec

\* Last(e.chain) is the last tagged_out link of an entry that is off.
LEMMA LastIsLastOut ==
    ASSUME IInv, NEW i \in Off
    PROVE  /\ Len(ledger[i].chain) \in OutLinks(i)
           /\ IsLastOut(i, Len(ledger[i].chain))
<1>1. Good(ledger[i]) /\ ledger[i].state = "tagged_out"
  BY DEF IInv, Off
<1>2. ledger[i].chain \in Seq(Link) /\ ledger[i].chain # <<>>
  BY <1>1 DEF Good, Entry
<1>3. Len(ledger[i].chain) \in DOMAIN ledger[i].chain
      /\ \A m \in DOMAIN ledger[i].chain : m <= Len(ledger[i].chain)
  BY <1>2
<1>4. QED
  BY <1>1, <1>3 DEF Good, Last, OutLinks, IsLastOut
----------------------------------------------------------------------------
\* The ledger is well typed whatever the writers are called with.
THEOREM TypeCorrect == Spec => []TypeOK
<1>1. IInv => TypeOK
  BY DEF IInv, Good, TypeOK
<1>2. QED
  BY <1>1, GoodAlways, PTL

\* The writers never make a ledger check_schema would report.
THEOREM SchemaKept == Spec => []WritersKeepSchema
<1>1. IInv => WritersKeepSchema
  BY DEF IInv, Good, Entry, WritersKeepSchema, SchemaFindings
<1>2. QED
  BY <1>1, GoodAlways, PTL

\* A reenergize_status is there only while the control is off.
THEOREM StatusMeansOff == Spec => []StatusOnlyWhileOff
<1>1. IInv => StatusOnlyWhileOff
  BY DEF IInv, Good, StatusOnlyWhileOff, Off
<1>2. QED
  BY <1>1, GoodAlways, PTL

\* A safety control that is off has a way back stated in its last tagout.
THEOREM WayBackKept == Spec => []AlwaysAWayBack
<1>1. ASSUME IInv, NEW i \in SafetyOff
      PROVE  \E n \in OutLinks(i) : IsLastOut(i, n) /\ ledger[i].chain[n].way_back
  <2>1. i \in Off /\ ledger[i].tier \in SAFETY_TIERS
    BY <1>1 DEF SafetyOff
  <2>2. Last(ledger[i].chain).way_back
    BY <1>1, <2>1 DEF IInv, Good, Off
  <2>3. Len(ledger[i].chain) \in OutLinks(i)
        /\ IsLastOut(i, Len(ledger[i].chain))
    BY <1>1, <2>1, LastIsLastOut
  <2>4. QED
    BY <2>2, <2>3 DEF Last
<1>2. IInv => AlwaysAWayBack
  BY <1>1 DEF AlwaysAWayBack
<1>3. QED
  BY <1>2, GoodAlways, PTL

\* No entry goes, none changes its tier, and no link of a chain changes.
Extended == \A i \in DOMAIN ledger :
                /\ i \in DOMAIN ledger'
                /\ ledger'[i].tier = ledger[i].tier
                /\ Len(ledger'[i].chain) >= Len(ledger[i].chain)
                /\ \A n \in DOMAIN ledger[i].chain :
                      ledger'[i].chain[n] = ledger[i].chain[n]

LEMMA CustodyStep == IInv /\ [Next]_vars => Extended
<1> SUFFICES ASSUME IInv, [Next]_vars, NEW j \in DOMAIN ledger
             PROVE  /\ j \in DOMAIN ledger'
                    /\ ledger'[j].tier = ledger[j].tier
                    /\ Len(ledger'[j].chain) >= Len(ledger[j].chain)
                    /\ \A n \in DOMAIN ledger[j].chain :
                          ledger'[j].chain[n] = ledger[j].chain[n]
  BY DEF Extended
<1>1. ledger[j] \in Entry /\ ledger[j].chain \in Seq(Link)
  BY DEF IInv, Good, Entry
<1>2. ASSUME NEW i \in Ids, NEW tier, NEW a, NEW w, CreateEntry(i, tier, a, w)
      PROVE  ledger'[j] = ledger[j] /\ j \in DOMAIN ledger'
  BY <1>2 DEF CreateEntry
<1>3. ASSUME NEW i \in Ids, NEW action, NEW a, NEW w,
             AppendChainLink(i, action, a, w), j = i
      PROVE  /\ j \in DOMAIN ledger'
             /\ ledger'[j].tier = ledger[j].tier
             /\ \E l : ledger'[j].chain = Append(ledger[j].chain, l)
  BY <1>1, <1>3 DEF AppendChainLink, Linked, Entry
<1>4. ASSUME NEW i \in Ids, NEW action, NEW a, NEW w,
             AppendChainLink(i, action, a, w), j # i
      PROVE  ledger'[j] = ledger[j] /\ j \in DOMAIN ledger'
  BY <1>4 DEF AppendChainLink
<1>5. ASSUME NEW i \in Ids, NEW s, SetReenergizeStatus(i, s)
      PROVE  /\ j \in DOMAIN ledger'
             /\ ledger'[j].tier = ledger[j].tier
             /\ ledger'[j].chain = ledger[j].chain
  BY <1>1, <1>5 DEF SetReenergizeStatus, Entry
<1>6. ASSUME NEW l, ledger'[j].chain = Append(ledger[j].chain, l)
      PROVE  /\ Len(ledger'[j].chain) >= Len(ledger[j].chain)
             /\ \A n \in DOMAIN ledger[j].chain :
                   ledger'[j].chain[n] = ledger[j].chain[n]
  BY <1>1, <1>6
<1>7. CASE DevTagout
  <2>1. CreateEntry(DevId, "T3", "named", TRUE) /\ DevId \in Ids
    BY <1>7, LotoAssumption DEF DevTagout
  <2>2. ledger'[j] = ledger[j] /\ j \in DOMAIN ledger'
    BY <1>2, <2>1
  <2>3. QED
    BY <1>1, <2>2
<1>8. CASE UNCHANGED vars
  BY <1>1, <1>8 DEF vars
<1>9. QED
  BY <1>1, <1>2, <1>3, <1>4, <1>5, <1>6, <1>7, <1>8 DEF Next, vars

\* The chain of custody is append-only.
THEOREM CustodyKept == Spec => ChainAppendOnly
<1>1. IInv /\ [Next]_vars => [Extended]_vars
  BY CustodyStep
<1>2. QED
  BY <1>1, GoodAlways, PTL DEF Spec, ChainAppendOnly, Extended

\* While a safety control is off the posture says so, and it comes to say
\* REMEDIATED only by a step that leaves every such control tagged in.
THEOREM OffIsSeen == Spec => RemediatedOnlyByTagIn
<1> DEFINE Seen == (\E i \in DOMAIN ledger : ledger[i].state = "tagged_out"
                                 /\ ledger[i].tier \in {"T3", "T4"})
          => Posture # "REMEDIATED"
             /\ (Posture' = "REMEDIATED" =>
                   \A i \in DOMAIN ledger : ledger[i].tier \in {"T3", "T4"} =>
                       ledger'[i].state = "tagged_in")
<1>1. SafetyOff # {} => Posture # "REMEDIATED"
  BY DEF Posture
<1>2. (SafetyOff # {})' => Posture' # "REMEDIATED"
  BY DEF Posture
<1>3. IInv' /\ Extended => Seen
  <2> SUFFICES ASSUME IInv', Extended,
                      NEW k \in DOMAIN ledger, ledger[k].state = "tagged_out",
                      ledger[k].tier \in {"T3", "T4"}
               PROVE  /\ Posture # "REMEDIATED"
                      /\ Posture' = "REMEDIATED" =>
                            \A i \in DOMAIN ledger :
                                ledger[i].tier \in {"T3", "T4"} =>
                                    ledger'[i].state = "tagged_in"
    OBVIOUS
  <2>1. k \in SafetyOff
    BY DEF SafetyOff, Off, SAFETY_TIERS
  <2>2. ASSUME Posture' = "REMEDIATED", NEW i \in DOMAIN ledger,
               ledger[i].tier \in {"T3", "T4"}
        PROVE  ledger'[i].state = "tagged_in"
    <3>1. i \in DOMAIN ledger' /\ ledger'[i].tier \in SAFETY_TIERS
      BY <2>2 DEF Extended, SAFETY_TIERS
    <3>2. ledger'[i].state \in LinkActions
      BY <3>1 DEF IInv, Good, Entry
    <3>3. (SafetyOff = {})'
      BY <1>2, <2>2
    <3>4. ledger'[i].state # "tagged_out"
      BY <3>1, <3>3 DEF SafetyOff, Off
    <3>5. QED
      BY <3>2, <3>4 DEF LinkActions
  <2>3. QED
    BY <1>1, <2>1, <2>2
<1>4. QED
  BY <1>3, GoodAlways, CustodyKept, PTL DEF Extended, ChainAppendOnly, RemediatedOnlyByTagIn

\* The two together: whatever writers do, the ledger keeps the schema its
\* readers rely on and a way back for every safety control that is off.
THEOREM LedgerKept == Spec => []TagoutsKept
<1>1. WritersKeepSchema /\ AlwaysAWayBack => TagoutsKept
  BY DEF TagoutsKept
<1>2. QED
  BY <1>1, SchemaKept, WayBackKept, PTL
----------------------------------------------------------------------------
(* The council's half of the gate                                          *)

\* The phrases are finitely many.
LEMMA PhrasesFinite == IsFiniteSet(Phrases)
<1> DEFINE A == {"production", "restore_backup", "irreversible", "undo", "cannot_be_undone"}
           B == {"file_and_line", "untested", "appr_id", "not_verified_by", "this_turn"}
           C == {"operator_asked", "stale"}
<1>1. IsFiniteSet(A)
  <2>1. A = ((({"production"} \cup {"restore_backup"}) \cup {"irreversible"}) \cup {"undo"})
              \cup {"cannot_be_undone"}
    OBVIOUS
  <2> HIDE DEF A
  <2>2. QED
    BY <2>1, FS_Singleton, FS_Union
<1>2. IsFiniteSet(B)
  <2>1. B = ((({"file_and_line"} \cup {"untested"}) \cup {"appr_id"}) \cup {"not_verified_by"})
              \cup {"this_turn"}
    OBVIOUS
  <2> HIDE DEF B
  <2>2. QED
    BY <2>1, FS_Singleton, FS_Union
<1>3. IsFiniteSet(C)
  <2>1. C = {"operator_asked"} \cup {"stale"}
    OBVIOUS
  <2> HIDE DEF C
  <2>2. QED
    BY <2>1, FS_Singleton, FS_Union
<1>4. Phrases = (A \cup B) \cup C
  BY DEF Phrases, Finds
<1> HIDE DEF A, B, C
<1>5. QED
  BY <1>1, <1>2, <1>3, <1>4, FS_Union

\* No member votes to reject.
LEMMA NobodyRejects ==
    ASSUME NEW p
    PROVE  \A m \in DOMAIN Votes(p) : Votes(p)[m] # "REJECT"
BY DEF Votes, VoteReserved, VoteReversible, VoteDecay, AssessEvidence, AssessRulability

\* An item that says q where it said p, and warns of more, gets no vote it had not.
LEMMA WarnedVotes ==
    ASSUME NEW p, p.says \subseteq Phrases, NEW q, q.says \subseteq Phrases,
           q.call = p.call, q.form = p.form,
           p.says \subseteq q.says, q.says \ p.says \subseteq Warnings
    PROVE  /\ DOMAIN Votes(q) = DOMAIN Votes(p)
           /\ \A m \in DOMAIN Votes(p) :
                 /\ Votes(q)[m] = "APPROVE" => Votes(p)[m] = "APPROVE"
                 /\ Votes(p)[m] = "ESCALATE" => Votes(q)[m] = "ESCALATE"
<1>1. \A s \in Warnings : Finds[s] \subseteq {"one_way", "gap", "claim", "decay"}
  BY DEF Warnings
<1>2. /\ \A x : Found(p, x) \subseteq Found(q, x)
      /\ \A x \in {"checkable", "cited", "back"} : Found(q, x) = Found(p, x)
  BY <1>1 DEF Found
<1>3. /\ \A x : IsFiniteSet(Found(q, x)) /\ IsFiniteSet(Found(p, x))
      /\ \A x : Cardinality(Found(p, x)) \in Nat /\ Cardinality(Found(q, x)) \in Nat
      /\ \A x : Cardinality(Found(p, x)) <= Cardinality(Found(q, x))
      /\ \A x : Cardinality(Found(p, x)) = 0 <=> Found(p, x) = {}
      /\ \A x : Cardinality(Found(q, x)) = 0 <=> Found(q, x) = {}
  <2>1. ASSUME NEW x PROVE IsFiniteSet(Found(q, x)) /\ IsFiniteSet(Found(p, x))
    <3>1. Found(q, x) \subseteq Phrases /\ Found(p, x) \subseteq Phrases
      BY DEF Found
    <3>2. QED
      BY <3>1, PhrasesFinite, FS_Subset
  <2>2. QED
    BY <1>2, <2>1, FS_Subset, FS_CardinalityType, FS_EmptySet
<1>4. /\ AssessEvidence(q) = "APPROVE" => AssessEvidence(p) = "APPROVE"
      /\ AssessEvidence(p) = "ESCALATE" => AssessEvidence(q) = "ESCALATE"
  <2> DEFINE pc == Cardinality(Found(p, "checkable"))  pg == Cardinality(Found(p, "gap"))
             qc == Cardinality(Found(q, "checkable"))  qg == Cardinality(Found(q, "gap"))
             pw == Says(p, "claim") /\ ~Says(p, "cited")
             qw == Says(q, "claim") /\ ~Says(q, "cited")
  <2>1. pc \in Nat /\ pg \in Nat /\ qc = pc /\ qg \in Nat /\ pg <= qg /\ (pw => qw)
    BY <1>2, <1>3 DEF Says
  <2>2. /\ AssessEvidence(p) = IF pw THEN "ESCALATE" ELSE IF pc = 0 /\ pg = 0 THEN "ABSTAIN"
                               ELSE IF pg > pc THEN "ESCALATE" ELSE "APPROVE"
        /\ AssessEvidence(q) = IF qw THEN "ESCALATE" ELSE IF qc = 0 /\ qg = 0 THEN "ABSTAIN"
                               ELSE IF qg > qc THEN "ESCALATE" ELSE "APPROVE"
    <3>1. pw \in BOOLEAN /\ qw \in BOOLEAN
      OBVIOUS
    <3>2. QED
      BY <2>1 DEF AssessEvidence
  <2> HIDE DEF pc, pg, qc, qg, pw, qw
  <2>3. QED
    BY <2>1, <2>2
<1>5. /\ VoteReserved(q) = "APPROVE" => VoteReserved(p) = "APPROVE"
      /\ VoteReserved(p) = "ESCALATE" => VoteReserved(q) = "ESCALATE"
  BY DEF VoteReserved, ClassifyItemSurface
<1>6. /\ VoteReversible(q) = "APPROVE" => VoteReversible(p) = "APPROVE"
      /\ VoteReversible(p) = "ESCALATE" => VoteReversible(q) = "ESCALATE"
  BY <1>2 DEF VoteReversible, Says
<1>7. /\ VoteDecay(q) = "APPROVE" => VoteDecay(p) = "APPROVE"
      /\ VoteDecay(p) = "ESCALATE" => VoteDecay(q) = "ESCALATE"
  BY <1>2 DEF VoteDecay, Says
<1>8. AssessRulability(q) = AssessRulability(p)
  BY DEF AssessRulability
<1>9. QED
  BY <1>4, <1>5, <1>6, <1>7, <1>8 DEF Votes

\* The lenses are finitely many.
LEMMA MembersFinite ==
    ASSUME NEW p
    PROVE  IsFiniteSet(DOMAIN Votes(p)) /\ DISPOSITIVE \subseteq DOMAIN Votes(p)
<1> DEFINE A == {"reserved", "reversible", "evidence"}  B == {"clarity", "decay"}
<1>1. A = ({"reserved"} \cup {"reversible"}) \cup {"evidence"} /\ B = {"clarity"} \cup {"decay"}
  OBVIOUS
<1>2. DOMAIN Votes(p) = A \cup B
  BY DEF Votes
<1>3. A = DISPOSITIVE
  BY DEF DISPOSITIVE
<1> HIDE DEF A, B
<1>4. IsFiniteSet(A) /\ IsFiniteSet(B)
  BY <1>1, FS_Singleton, FS_Union
<1>5. QED
  BY <1>2, <1>3, <1>4, FS_Union

\* So it is not approved where it was not.
LEMMA WarnedVerdict ==
    ASSUME NEW p, p.says \subseteq Phrases, NEW q, q.says \subseteq Phrases,
           q.call = p.call, q.form = p.form,
           p.says \subseteq q.says, q.says \ p.says \subseteq Warnings,
           CouncilVote(q) = "APPROVED"
    PROVE  CouncilVote(p) = "APPROVED"
<1> DEFINE Casts(i, v) == {m \in DOMAIN Votes(i) : Votes(i)[m] = v}
           Stops(i) == \E m \in DISPOSITIVE : Votes(i)[m] = "ESCALATE"
<1>1. \A i : /\ Stops(i) \/ Cardinality(Casts(i, "APPROVE")) < 3 => CouncilVote(i) # "APPROVED"
             /\ ~Stops(i) /\ ~(Cardinality(Casts(i, "REJECT")) >= 3)
                  /\ Cardinality(Casts(i, "APPROVE")) >= 3 => CouncilVote(i) = "APPROVED"
  <2> SUFFICES ASSUME NEW i
               PROVE  /\ Stops(i) \/ Cardinality(Casts(i, "APPROVE")) < 3
                            => CouncilVote(i) # "APPROVED"
                      /\ ~Stops(i) /\ ~(Cardinality(Casts(i, "REJECT")) >= 3)
                            /\ Cardinality(Casts(i, "APPROVE")) >= 3
                            => CouncilVote(i) = "APPROVED"
    OBVIOUS
  <2>1. CouncilVote(i) = IF Stops(i) THEN "ESCALATE"
                         ELSE IF Cardinality(Casts(i, "REJECT")) >= 3 THEN "REJECTED"
                         ELSE IF Cardinality(Casts(i, "APPROVE")) >= 3 THEN "APPROVED"
                         ELSE "ESCALATE"
    BY Zenon DEF CouncilVote
  <2> HIDE DEF Stops, Casts
  <2>2. (Cardinality(Casts(i, "APPROVE")) < 3) => ~(Cardinality(Casts(i, "APPROVE")) >= 3)
    BY MembersFinite, FS_Subset, FS_CardinalityType DEF Casts
  <2>3. QED
    BY <2>1, <2>2, Zenon
<1>2. ~Stops(p)
  BY <1>1, MembersFinite, WarnedVotes
<1>3. Casts(p, "REJECT") = {} /\ Casts(q, "APPROVE") \subseteq Casts(p, "APPROVE")
  BY NobodyRejects, WarnedVotes
<1>4. IsFiniteSet(Casts(p, "APPROVE"))
  BY MembersFinite, FS_Subset
<1> DEFINE pa == Cardinality(Casts(p, "APPROVE"))  qa == Cardinality(Casts(q, "APPROVE"))
<1>5. pa \in Nat /\ qa \in Nat /\ qa <= pa
  BY <1>3, <1>4, FS_Subset, FS_CardinalityType
<1>6. Cardinality(Casts(p, "REJECT")) = 0
  BY <1>3, FS_EmptySet
<1>7. ~(qa < 3)
  BY <1>1
<1>8. pa >= 3
  BY <1>5, <1>7
<1>9. QED
  BY <1>1, <1>2, <1>6, <1>8

\* No warning buys the council's approval (approvals/council.py): a fact about
\* the lenses, whatever the item.
THEOREM WarningsBuyNothing == WarningsNeverHelp
<1> SUFFICES ASSUME NEW p \in Proposals, CouncilVote(p) # "APPROVED"
             PROVE  /\ \A s \in Warnings :
                          CouncilVote([p EXCEPT !.says = @ \cup {s}]) # "APPROVED"
                    /\ p.call = "reserved" => \A s \in Phrases :
                          CouncilVote([p EXCEPT !.says = @ \cup {s}]) # "APPROVED"
  BY DEF WarningsNeverHelp
<1> DEFINE With(s) == [p EXCEPT !.says = @ \cup {s}]
<1>1. p.says \subseteq Phrases /\ \A s : /\ With(s).says = p.says \cup {s}
                                         /\ With(s).call = p.call /\ With(s).form = p.form
  <2>1. UNION {kSubset(k, Phrases) : k \in 0..4} \subseteq SUBSET Phrases
    BY DEF kSubset
  <2>2. p \in [call : {"none", "clean", "reserved"},
               says : UNION {kSubset(k, Phrases) : k \in 0..4},
               form : {"missing", "same", "bundled", "single"}]
    BY DEF Proposals
  <2> HIDE DEF With
  <2>3. p.says \subseteq Phrases
    BY <2>1, <2>2
  <2>4. ASSUME NEW s PROVE /\ With(s).says = p.says \cup {s}
                           /\ With(s).call = p.call /\ With(s).form = p.form
    BY <2>2 DEF With
  <2>5. QED
    BY <2>3, <2>4
<1> HIDE DEF With
<1>2. ASSUME NEW s \in Warnings PROVE CouncilVote(With(s)) # "APPROVED"
  <2>1. s \in Phrases
    BY DEF Warnings
  <2>2. QED
    BY <1>1, <2>1, WarnedVerdict
<1>3. ASSUME p.call = "reserved", NEW s \in Phrases PROVE CouncilVote(With(s)) # "APPROVED"
  <2>1. Votes(With(s)).reserved = "ESCALATE"
    BY <1>1, <1>3 DEF Votes, VoteReserved, ClassifyItemSurface
  <2>2. QED
    BY <2>1 DEF CouncilVote, DISPOSITIVE
<1>4. QED
  BY <1>2, <1>3 DEF With
----------------------------------------------------------------------------
(* The journals                                                            *)

\* A bounded set of numbers has a greatest one.
LEMMA GreatestExists ==
    ASSUME NEW S \in SUBSET Nat, NEW m \in Nat, \A x \in S : x <= m, S # {}
    PROVE  \E x \in S : \A y \in S : y <= x
<1> DEFINE Above(x) == {y \in S : y > x}
           T == {Above(x) : x \in S}
<1>1. IsFiniteSet(S)
  BY FS_BoundedSetOfNaturals
<1>2. \A x \in S : Above(x) \in SUBSET S /\ IsFiniteSet(Above(x))
  BY <1>1, FS_Subset
<1>3. T \subseteq FiniteSubsetsOf(S) /\ T # {}
  BY <1>2 DEF FiniteSubsetsOf
<1>4. PICK a \in T : \A b \in T : ~ (<<b, a>> \in StrictSubsetOrdering(S))
  BY <1>1, <1>3, FS_StrictSubsetOrderingWellFounded, WFMin
<1>5. PICK x \in S : a = Above(x)
  OBVIOUS
<1>6. ASSUME NEW y \in S, y > x PROVE FALSE
  <2>1. /\ Above(y) \in T /\ y \in Above(x) /\ y \notin Above(y)
        /\ \A z \in S : z > y => z > x
    BY <1>6
  <2>2. Above(y) \subseteq Above(x)
    BY <2>1
  <2>3. <<Above(y), Above(x)>> \in StrictSubsetOrdering(S)
    BY <2>1, <2>2 DEF StrictSubsetOrdering
  <2> QED
    BY <1>4, <1>5, <2>1, <2>3
<1>7. \A y \in S : y <= x
  BY <1>6
<1>8. QED
  BY <1>7

\* The ids of finitely many rows are finitely many.
LEMMA IdsFinite ==
    ASSUME NEW j, NEW S, IsFiniteSet(S)
    PROVE  IsFiniteSet({j[n].id : n \in S})
<1> DEFINE T == {j[n].id : n \in S}  f == [n \in S |-> j[n].id]
<1>1. f \in Surjection(S, T)
  BY DEF Surjection
<1>2. QED
  BY <1>1, FS_Surjection

\* The rows of the three journals.
Ruling   == [id: Items, by: Actors, at: Nat]
SealRow  == [event: {"sealed"}, id: Items, prediction: Predictions, concurs: BOOLEAN]
GradeRow == [event: {"graded"}, id: Items, outcome: GRADE_OUTCOMES, by: Actors, at: Nat,
             prediction: Predictions]
Answer   == [question: Questions, by: Actors, grade: {"fact", "INFERRED", "OBSERVED"},
             rulings: Nat, revealed: BOOLEAN]

JournalTypes ==
    /\ history \in Seq(Ruling) /\ journal \in Seq(SealRow \cup GradeRow)
    /\ calls \subseteq GradeRow /\ answers \in Seq(Answer)

\* A graded row is of an item the operator ruled on, not before the bar where
\* the ruling is dated, and sealed with that prediction among the first m rows.
EarnedIn(h, j, row, m) ==
    /\ \E k \in DOMAIN h : h[k].id = row.id /\ h[k].by = "operator"
    /\ row.at = 0 \/ row.at >= BarSince
    /\ \E k \in DOMAIN j : /\ k <= m /\ j[k].event = "sealed" /\ j[k].id = row.id
                           /\ j[k].prediction = row.prediction

\* The grades on record are earned, and so are those under way.
GradesInv ==
    /\ \A n \in DOMAIN journal :
          journal[n].event = "graded" => EarnedIn(history, journal, journal[n], n - 1)
    /\ \A row \in calls : EarnedIn(history, journal, row, Len(journal))

\* A safety control was tagged out with a way back.
Tagout == \E i \in DOMAIN ledger : /\ ledger[i].tier \in SAFETY_TIERS
                                   /\ \E n \in OutLinks(i) : ledger[i].chain[n].way_back

\* A lowered bar rests on a tagout, and so does one about to be lowered.
BarInv ==
    /\ floors \in Floors
    /\ IsLower(DefaultFloors, floors) => Tagout
    /\ lowering # <<>> => lowering \in Bars /\ Tagout

\* The different items the operator has ruled on.
RuledIn(h) == {h[k].id : k \in {j \in DOMAIN h : h[j].by = "operator"}}

SittingsInv ==
    \A n \in DOMAIN answers :
        Cardinality(RuledIn(history)) >= Thresholds[answers[n].question.sitting]

CalInv == IInv /\ JournalTypes /\ GradesInv /\ BarInv /\ SittingsInv

\* The prediction a grade is given is that of a seal on record.
LEMMA IndexIsASeal ==
    ASSUME journal \in Seq(SealRow \cup GradeRow), NEW i, Seals(i) # {}
    PROVE  \E k \in DOMAIN journal : /\ journal[k].event = "sealed" /\ journal[k].id = i
                                     /\ journal[k].prediction = SealedIndex(i)
<1>1. Seals(i) \in SUBSET Nat /\ Len(journal) \in Nat /\ \A n \in Seals(i) : n <= Len(journal)
  BY DEF Seals
<1>2. \E n \in Seals(i) : \A k \in Seals(i) : k <= n
  BY <1>1, GreatestExists
<1> DEFINE last == CHOOSE n \in Seals(i) : \A k \in Seals(i) : k <= n
<1>3. last \in Seals(i)
  BY <1>2
<1>4. SealedIndex(i) = journal[last].prediction
  BY DEF SealedIndex
<1> HIDE DEF last
<1>5. QED
  BY <1>3, <1>4 DEF Seals

\* Counting the operator's rulings, by whom they are not made or by whom they are.
LEMMA RulingsCounted ==
    ASSUME NEW h \in Seq(Ruling)
    PROVE  /\ OperatorRulings(h) = Cardinality(RuledIn(h))
           /\ IsFiniteSet(RuledIn(h)) /\ Cardinality(RuledIn(h)) \in Nat
<1> DEFINE S == {k \in DOMAIN h : h[k].by \notin {"", "node", "lane"}}
           R == {j \in DOMAIN h : h[j].by = "operator"}
<1>1. S = R
  <2>1. \A k \in DOMAIN h : h[k].by \in {"operator", "node", "lane", ""}
    <3>1. \A k \in DOMAIN h : h[k] \in Ruling
      OBVIOUS
    <3>2. \A x \in Ruling : x.by \in {"operator", "node", "lane", ""}
      BY DEF Ruling, Actors
    <3>3. QED
      BY <3>1, <3>2
  <2>2. \A k \in DOMAIN h : h[k].by \notin {"", "node", "lane"} <=> h[k].by = "operator"
    BY <2>1
  <2>3. QED
    BY <2>2
<1>2. OperatorRulings(h) = Cardinality({h[n].id : n \in S})
  BY DEF OperatorRulings
<1>3. IsFiniteSet(R)
  BY FS_Interval, FS_Subset
<1>4. RuledIn(h) = {h[n].id : n \in R}
  BY DEF RuledIn
<1>5. IsFiniteSet({h[n].id : n \in R})
  BY <1>3, IdsFinite
<1>6. QED
  BY <1>1, <1>2, <1>4, <1>5, FS_CardinalityType

\* A ruling more never makes them fewer.
LEMMA RulingsGrow ==
    ASSUME NEW h \in Seq(Ruling), NEW r \in Ruling
    PROVE  Cardinality(RuledIn(h)) <= Cardinality(RuledIn(Append(h, r)))
<1>1. Append(h, r) \in Seq(Ruling)
  OBVIOUS
<1>2. RuledIn(h) \subseteq RuledIn(Append(h, r))
  BY DEF RuledIn
<1>3. QED
  BY <1>1, <1>2, RulingsCounted, FS_Subset

\* A tagout with a way back stays in the chain of custody.
LEMMA TagoutStays == IInv /\ [Next]_vars /\ Tagout => Tagout'
<1> SUFFICES ASSUME IInv, [Next]_vars, Tagout PROVE Tagout'
  OBVIOUS
<1>1. Extended /\ IInv'
  BY CustodyStep, GoodStep
<1>2. PICK i \in DOMAIN ledger : /\ ledger[i].tier \in SAFETY_TIERS
                                 /\ \E n \in OutLinks(i) : ledger[i].chain[n].way_back
  BY DEF Tagout
<1>3. PICK n \in OutLinks(i) : ledger[i].chain[n].way_back
  BY <1>2
<1>4. ledger[i].chain \in Seq(Link) /\ i \in DOMAIN ledger' /\ ledger'[i].chain \in Seq(Link)
  BY <1>1 DEF IInv, Good, Entry, Extended
<1>5. n \in DOMAIN ledger[i].chain /\ ledger[i].chain[n].action = "tagged_out"
  BY DEF OutLinks
<1>6. /\ ledger'[i].tier \in SAFETY_TIERS /\ n \in DOMAIN ledger'[i].chain
      /\ ledger'[i].chain[n] = ledger[i].chain[n]
  BY <1>1, <1>2, <1>4, <1>5 DEF Extended
<1>7. n \in OutLinks(i)'
  BY <1>5, <1>6 DEF OutLinks
<1>8. QED
  BY <1>3, <1>4, <1>6, <1>7 DEF Tagout

\* Every question is of a sitting that has a threshold.
LEMMA SittingsKnown == \A q \in Questions : Thresholds[q.sitting] \in Nat
<1>1. \A q \in Questions : q.sitting \in DOMAIN Thresholds
  BY CalibrationAssumption DEF InterviewHolds, QuestionHolds
<1>2. QED
  BY <1>1, CalibrationAssumption

\* A ruling is made: what the operator ruled on he still ruled on.
LEMMA RulingStep ==
    ASSUME CalInv, NEW i \in Items, NEW by \in Actors, NEW at \in Dates, RuleOn(i, by, at)
    PROVE  CalInv'
<1> DEFINE r == [id |-> i, by |-> by, at |-> at]
<1>1. r \in Ruling /\ history \in Seq(Ruling)
  BY CalibrationAssumption DEF Ruling, CalInv, JournalTypes
<1>2. /\ history' = Append(history, r)
      /\ UNCHANGED <<ledger, calls, journal, floors, lowering, answers>>
  BY DEF RuleOn
<1> HIDE DEF r
<1>3. /\ history' \in Seq(Ruling)
      /\ \A k \in DOMAIN history : k \in DOMAIN history' /\ history'[k] = history[k]
  BY <1>1, <1>2
<1>4. IInv' /\ JournalTypes' /\ BarInv'
  BY <1>2, <1>3 DEF CalInv, IInv, JournalTypes, BarInv, IsLower, Tagout, OutLinks
<1>5. \A row, m : EarnedIn(history, journal, row, m) => EarnedIn(history', journal', row, m)
  BY <1>2, <1>3 DEF EarnedIn
<1>6. GradesInv'
  BY <1>2, <1>5 DEF CalInv, GradesInv
<1>7. /\ Cardinality(RuledIn(history)) <= Cardinality(RuledIn(history'))
      /\ Cardinality(RuledIn(history)) \in Nat /\ Cardinality(RuledIn(history')) \in Nat
  BY <1>1, <1>2, <1>3, RulingsGrow, RulingsCounted
<1>8. \A n \in DOMAIN answers : Thresholds[answers[n].question.sitting] \in Nat
  <2>1. \A n \in DOMAIN answers : answers[n] \in Answer
    BY DEF CalInv, JournalTypes
  <2>2. \A x \in Answer : x.question \in Questions
    BY DEF Answer
  <2>3. QED
    BY <2>1, <2>2, SittingsKnown
<1>9. SittingsInv'
  BY <1>2, <1>7, <1>8 DEF CalInv, SittingsInv
<1>10. QED
  BY <1>4, <1>6, <1>9 DEF CalInv

\* A row is appended to the journal: a seal, or a grade that was earned.
LEMMA JournalStep ==
    ASSUME CalInv, NEW row \in SealRow \cup GradeRow, journal' = Append(journal, row),
           row.event = "graded" => EarnedIn(history, journal, row, Len(journal)),
           calls' \subseteq calls,
           UNCHANGED <<ledger, history, floors, scale, lowering, answers>>
    PROVE  CalInv'
<1>1. journal \in Seq(SealRow \cup GradeRow)
  BY DEF CalInv, JournalTypes
<1>2. /\ journal' \in Seq(SealRow \cup GradeRow) /\ Len(journal') = Len(journal) + 1
      /\ \A k \in DOMAIN journal : k \in DOMAIN journal' /\ journal'[k] = journal[k]
      /\ \A k \in DOMAIN journal' : k \in DOMAIN journal \/ k = Len(journal) + 1
      /\ journal'[Len(journal) + 1] = row
      /\ Len(journal) \in Nat /\ Len(journal) + 1 - 1 = Len(journal)
  BY <1>1
<1>3. IInv' /\ JournalTypes' /\ BarInv' /\ SittingsInv'
  BY <1>2 DEF CalInv, IInv, JournalTypes, BarInv, IsLower, Tagout, OutLinks, SittingsInv
<1>4. \A w, m : EarnedIn(history, journal, w, m) => EarnedIn(history, journal', w, m)
  BY <1>2 DEF EarnedIn
<1>5. \A w : EarnedIn(history, journal', w, Len(journal))
               => EarnedIn(history, journal', w, Len(journal) + 1)
  BY <1>2 DEF EarnedIn
<1>6. \A w \in calls' : EarnedIn(history, journal', w, Len(journal) + 1)
  BY <1>4, <1>5 DEF CalInv, GradesInv
<1>7. ASSUME NEW n \in DOMAIN journal', journal'[n].event = "graded"
      PROVE  EarnedIn(history, journal', journal'[n], n - 1)
  <2>1. CASE n \in DOMAIN journal
    BY <1>2, <1>4, <1>7, <2>1 DEF CalInv, GradesInv
  <2>2. CASE n = Len(journal) + 1
    BY <1>2, <1>4, <1>7, <2>2
  <2>3. QED
    BY <1>2, <2>1, <2>2
<1>8. GradesInv'
  BY <1>2, <1>6, <1>7 DEF GradesInv
<1>9. QED
  BY <1>3, <1>8 DEF CalInv

\* A grade is taken up: its ruling is the operator's, on or after the bar, and
\* its item was sealed.
LEMMA CheckStep ==
    ASSUME CalInv, NEW n \in DOMAIN history, NEW o \in GRADE_OUTCOMES, CheckGrade(n, o)
    PROVE  CalInv'
<1> DEFINE h == history[n]
           row == [event |-> "graded", id |-> h.id, outcome |-> o, by |-> h.by, at |-> h.at,
                   prediction |-> SealedIndex(h.id)]
<1>1. h \in Ruling /\ journal \in Seq(SealRow \cup GradeRow)
  BY DEF CalInv, JournalTypes
<1>2. /\ MayGrade(h.id, h.by, h.at) /\ calls' = calls \cup {row}
      /\ UNCHANGED <<ledger, history, journal, floors, scale, lowering, answers>>
  BY DEF CheckGrade
<1>3. /\ h.id \in Items /\ h.by \in Actors /\ h.at \in Nat
      /\ h.by = "operator" /\ (h.at = 0 \/ h.at >= BarSince) /\ Seals(h.id) # {}
  <2>1. h.id \in Items /\ h.by \in Actors /\ h.at \in Nat
    BY <1>1 DEF Ruling
  <2>2. h.by \notin {"", "node", "lane"} /\ Seals(h.id) # {}
    BY <1>2 DEF MayGrade
  <2>3. ~(BarSince # 0 /\ h.at # 0 /\ h.at < BarSince)
    BY <1>2 DEF MayGrade
  <2> HIDE DEF h
  <2>4. h.by = "operator"
    BY <2>1, <2>2 DEF Actors
  <2>5. BarSince \in Nat
    BY CalibrationAssumption
  <2>6. ASSUME NEW x \in Nat, NEW b \in Nat, ~(b # 0 /\ x # 0 /\ x < b)
        PROVE  x = 0 \/ x >= b
    BY <2>6
  <2>7. h.at = 0 \/ h.at >= BarSince
    BY <2>1, <2>3, <2>5, <2>6
  <2>8. QED
    BY <2>1, <2>2, <2>4, <2>7
<1>4. PICK k \in DOMAIN journal : /\ journal[k].event = "sealed" /\ journal[k].id = h.id
                                  /\ journal[k].prediction = SealedIndex(h.id)
  BY <1>1, <1>3, IndexIsASeal
<1>5. SealedIndex(h.id) \in Predictions
  <2>1. journal[k] \in SealRow \cup GradeRow
    BY <1>1
  <2>2. QED
    BY <1>4, <2>1 DEF SealRow, GradeRow
<1>6. row \in GradeRow
  BY <1>3, <1>5 DEF GradeRow
<1>7. EarnedIn(history, journal, row, Len(journal))
  <2>1. \E m \in DOMAIN history : history[m].id = row.id /\ history[m].by = "operator"
    BY <1>3
  <2>2. k <= Len(journal) /\ row.id = h.id /\ row.prediction = SealedIndex(h.id) /\ row.at = h.at
    BY <1>1
  <2> HIDE DEF row, h
  <2>3. QED
    BY <1>3, <1>4, <2>1, <2>2 DEF EarnedIn
<1> HIDE DEF row, h
<1>8. JournalTypes' /\ GradesInv'
  BY <1>2, <1>6, <1>7 DEF CalInv, JournalTypes, GradesInv
<1>9. IInv' /\ BarInv' /\ SittingsInv'
  BY <1>2 DEF CalInv, IInv, BarInv, IsLower, Tagout, OutLinks, SittingsInv
<1>10. QED
  BY <1>8, <1>9 DEF CalInv

\* Rulings, seals and grades keep the invariant.
LEMMA GradingStep == CalInv /\ GradingNext => CalInv'
<1> SUFFICES ASSUME CalInv, GradingNext PROVE CalInv'
  OBVIOUS
<1>1. ASSUME NEW i \in Items, NEW p \in Predictions, SealPrediction(i, p) PROVE CalInv'
  <2> DEFINE row == [event |-> "sealed", id |-> i, prediction |-> p,
                     concurs |-> RendersAsConcurrence(p)]
  <2>1. RendersAsConcurrence(p) \in BOOLEAN
    BY DEF RendersAsConcurrence
  <2>2. row \in SealRow /\ row.event # "graded"
    BY <2>1 DEF SealRow
  <2>3. journal' = Append(journal, row)
        /\ UNCHANGED <<ledger, history, calls, floors, scale, lowering, answers>>
    BY <1>1 DEF SealPrediction
  <2> HIDE DEF row
  <2>4. QED
    BY <2>2, <2>3, JournalStep
<1>2. ASSUME NEW row \in calls, AppendGrade(row) PROVE CalInv'
  <2>1. row \in GradeRow /\ EarnedIn(history, journal, row, Len(journal))
    BY DEF CalInv, JournalTypes, GradesInv
  <2>2. journal' = Append(journal, row) /\ calls' \subseteq calls
        /\ UNCHANGED <<ledger, history, floors, scale, lowering, answers>>
    BY <1>2 DEF AppendGrade
  <2>3. QED
    BY <2>1, <2>2, JournalStep
<1>3. QED
  BY <1>1, <1>2, RulingStep, CheckStep DEF GradingNext

\* A bar that is no lower than the one in force is below the first bar only
\* where that one is.
LEMMA NoLower ==
    ASSUME NEW c \in Floors, NEW f \in Floors, NEW d \in Floors,
           ~IsLower(c, f), IsLower(d, f)
    PROVE  IsLower(d, c)
<1>1. /\ c.minimum_rulings \in Nat /\ f.minimum_rulings \in Nat /\ d.minimum_rulings \in Nat
      /\ c.minimum_accuracy \in Nat /\ f.minimum_accuracy \in Nat /\ d.minimum_accuracy \in Nat
  BY DEF Floors
<1>2. /\ SigmaOf[c.council_level] \in Nat /\ SigmaOf[f.council_level] \in Nat
      /\ SigmaOf[d.council_level] \in Nat
  BY CalibrationAssumption DEF Floors
<1>3. QED
  BY <1>1, <1>2 DEF IsLower

\* The bar in force comes below the first one only on a tagout.
LEMMA BarStep == CalInv /\ BarNext => CalInv'
<1> SUFFICES ASSUME CalInv, BarNext PROVE CalInv'
  OBVIOUS
<1>1. UNCHANGED <<ledger, history, calls, journal, answers>>
  BY DEF BarNext, LoadCouncilFloor, RaiseFloors, LowerRead, LowerReturn
<1>2. IInv' /\ JournalTypes' /\ GradesInv' /\ SittingsInv'
  BY <1>1 DEF CalInv, IInv, JournalTypes, GradesInv, SittingsInv
<1>3. Tagout' <=> Tagout
  BY <1>1 DEF Tagout, OutLinks
<1>4. \A f \in Bars \cup {DefaultFloors} : f \in Floors
  BY CalibrationAssumption
<1>5. BarInv
  BY DEF CalInv
<1>7. ASSUME LoadCouncilFloor PROVE BarInv'
  <2>1. floors' = floors /\ lowering' = lowering
    BY <1>7 DEF LoadCouncilFloor
  <2>2. QED
    BY <1>3, <1>5, <2>1 DEF BarInv, IsLower
<1>8. ASSUME NEW f \in Bars, RaiseFloors(f) PROVE BarInv'
  <2>1. ~IsLower(floors, f) /\ floors' = f /\ lowering' = lowering
    BY <1>8 DEF RaiseFloors
  <2>2. IsLower(DefaultFloors, f) => Tagout
    BY <1>4, <1>5, <2>1, NoLower DEF BarInv
  <2>3. QED
    BY <1>3, <1>4, <1>5, <2>1, <2>2 DEF BarInv, IsLower
<1>9. ASSUME NEW f \in Bars, NEW i \in Ids, LowerRead(f, i) PROVE BarInv'
  <2>1. i \in DOMAIN ledger /\ LowersOn(ledger[i]) /\ lowering' = f /\ floors' = floors
    BY <1>9 DEF LowerRead
  <2>2. i \in Off /\ ledger[i].tier \in SAFETY_TIERS /\ Last(ledger[i].chain).way_back
    BY <2>1 DEF LowersOn, Off, SAFETY_TIERS
  <2>3. Len(ledger[i].chain) \in OutLinks(i)
    BY <2>2, LastIsLastOut DEF CalInv
  <2>4. Tagout
    BY <2>1, <2>2, <2>3 DEF Tagout, Last
  <2>5. QED
    BY <1>3, <1>5, <2>1, <2>4 DEF BarInv, IsLower
<1>10. ASSUME LowerReturn PROVE BarInv'
  <2>1. floors' = lowering /\ lowering' = <<>> /\ lowering # <<>>
    BY <1>10 DEF LowerReturn
  <2>2. lowering \in Bars /\ Tagout
    BY <1>5, <2>1 DEF BarInv
  <2>3. floors' \in Floors /\ Tagout'
    BY <1>3, <1>4, <2>1, <2>2
  <2>4. QED
    BY <2>1, <2>3 DEF BarInv
<1>11. BarInv'
  BY <1>7, <1>8, <1>9, <1>10 DEF BarNext
<1>12. QED
  BY <1>2, <1>11 DEF CalInv

\* An answer is recorded once its sitting is open.
LEMMA InterviewStep == CalInv /\ InterviewNext => CalInv'
<1> SUFFICES ASSUME CalInv, NEW q \in Questions, NEW by \in Actors, AnswerQuestion(q, by)
             PROVE  CalInv'
  BY DEF InterviewNext
<1> DEFINE n == OperatorRulings(history)
           a == [question |-> q, by |-> by, grade |-> GradeFor(q.sitting), rulings |-> n,
                 revealed |-> q.kind = "replay"]
<1>1. n = Cardinality(RuledIn(history)) /\ n \in Nat
  BY RulingsCounted DEF CalInv, JournalTypes
<1>2. n >= Thresholds[q.sitting] /\ answers' = Append(answers, a)
      /\ UNCHANGED <<ledger, history, calls, journal, floors, lowering>>
  BY DEF AnswerQuestion, StageOpen
<1> HIDE DEF n
<1>3. a \in Answer /\ a.question = q
  <2>1. GradeFor(q.sitting) \in {"fact", "INFERRED", "OBSERVED"}
    BY DEF GradeFor
  <2>2. QED
    BY <1>1, <2>1 DEF Answer
<1> HIDE DEF a
<1>4. answers \in Seq(Answer)
  BY DEF CalInv, JournalTypes
<1>5. /\ answers' \in Seq(Answer)
      /\ \A k \in DOMAIN answers' : \/ k \in DOMAIN answers /\ answers'[k] = answers[k]
                                   \/ answers'[k] = a
  BY <1>2, <1>3, <1>4
<1>6. SittingsInv'
  <2>1. RuledIn(history)' = RuledIn(history)
    BY <1>2 DEF RuledIn
  <2>2. QED
    BY <1>1, <1>2, <1>3, <1>5, <2>1 DEF CalInv, SittingsInv
<1>7. JournalTypes'
  BY <1>2, <1>5 DEF CalInv, JournalTypes
<1>8. IInv' /\ GradesInv' /\ BarInv'
  BY <1>2 DEF CalInv, IInv, GradesInv, BarInv, IsLower, Tagout, OutLinks
<1>9. QED
  BY <1>6, <1>7, <1>8 DEF CalInv

\* Every step keeps the invariant.
LEMMA CalStep == CalInv /\ [CalNext]_<<vars, calVars>> => CalInv'
<1> SUFFICES ASSUME CalInv, [CalNext]_<<vars, calVars>> PROVE CalInv'
  OBVIOUS
<1>1. CASE [Next]_vars /\ UNCHANGED calVars
  <2>1. UNCHANGED <<history, calls, journal, floors, scale, lowering, answers>>
    BY <1>1 DEF calVars
  <2>2. IInv' /\ (Tagout => Tagout')
    BY <1>1, GoodStep, TagoutStays DEF CalInv
  <2>3. QED
    BY <2>1, <2>2 DEF CalInv, JournalTypes, GradesInv, BarInv, IsLower, SittingsInv
<1>2. QED
  BY <1>1, GradingStep, BarStep, InterviewStep DEF CalNext

LEMMA CalAlways == CalSpec => []CalInv
<1>1. CalInit => CalInv
  <2> SUFFICES ASSUME CalInit PROVE CalInv
    OBVIOUS
  <2>1. IInv /\ JournalTypes /\ GradesInv /\ SittingsInv
    BY DEF CalInit, Init, IInv, JournalTypes, GradesInv, SittingsInv
  <2>2. floors \in Floors /\ floors = DefaultFloors /\ lowering = <<>>
    BY CalibrationAssumption DEF CalInit
  <2>3. ~IsLower(floors, floors)
    <3>1. floors.minimum_rulings \in Nat /\ floors.minimum_accuracy \in Nat
          /\ SigmaOf[floors.council_level] \in Nat
      BY <2>2, CalibrationAssumption DEF Floors
    <3>2. QED
      BY <3>1 DEF IsLower
  <2>4. QED
    BY <2>1, <2>2, <2>3 DEF BarInv, CalInv
<1>2. QED
  BY <1>1, CalStep, PTL DEF CalSpec

\* The graded items are as many as the ids the operator ruled on and somebody
\* predicted: a repeated or overlapped grade adds none.
LEMMA GradedAreItems ==
    ASSUME journal \in Seq(SealRow \cup GradeRow),
           NEW S, \A n \in DOMAIN journal : journal[n].event = "graded" => n \in S,
           S \subseteq DOMAIN journal
    PROVE  Cardinality(Graded(journal)) <= Cardinality({journal[n].id : n \in S})
<1> DEFINE G == Graded(journal)
           T == {journal[n].id : n \in S}
           f == [n \in G |-> journal[n].id]
<1>1. IsFiniteSet(S) /\ IsFiniteSet(T)
  <2>1. IsFiniteSet(DOMAIN journal)
    BY FS_Interval
  <2>2. IsFiniteSet(S)
    BY <2>1, FS_Subset
  <2>3. QED
    BY <2>2, IdsFinite
<1>2. G \subseteq S /\ \A n \in G, k \in G : journal[n].id = journal[k].id => n = k
  BY DEF Graded
<1>3. f \in Injection(G, T)
  BY <1>2 DEF Injection, IsInjective
<1>4. QED
  BY <1>1, <1>3, FS_Injection

\* What the two-bar gate opens over was earned (alignment/calibration.py): as
\* many different items as the bar asks, each ruled on by the operator, on or
\* after the bar's date, each predicted before it was graded.
LEMMA GateIsEarned == CalInv => CalibratedIsEarned
<1> SUFFICES ASSUME CalInv PROVE CalibratedIsEarned
  OBVIOUS
<1> DEFINE earned == {n \in DOMAIN journal:
                        /\ journal[n].event = "graded"
                        /\ \E k \in DOMAIN history: history[k].id = journal[n].id
                                                     /\ history[k].by = "operator"
                        /\ journal[n].at = 0 \/ journal[n].at >= BarSince
                        /\ \E k \in 1..(n - 1): journal[k].event = "sealed"
                             /\ journal[k].id = journal[n].id
                             /\ journal[k].prediction = journal[n].prediction}
<1>1. journal \in Seq(SealRow \cup GradeRow) /\ floors \in Floors
  BY DEF CalInv, JournalTypes, BarInv
<1>2. ASSUME NEW n \in DOMAIN journal, journal[n].event = "graded" PROVE n \in earned
  <2>1. EarnedIn(history, journal, journal[n], n - 1)
    BY <1>2 DEF CalInv, GradesInv
  <2>2. \A k \in DOMAIN journal : k <= n - 1 => k \in 1..(n - 1)
    BY <1>1
  <2>3. QED
    BY <1>2, <2>1, <2>2 DEF EarnedIn
<1>3. earned \subseteq DOMAIN journal
  OBVIOUS
<1>4. Cardinality(Graded(journal)) <= Cardinality({journal[n].id : n \in earned})
  <2> HIDE DEF earned
  <2>1. QED
    BY <1>1, <1>2, <1>3, GradedAreItems
<1>5. /\ Cardinality(Graded(journal)) \in Nat /\ floors.minimum_rulings \in Nat
      /\ Cardinality({journal[n].id : n \in earned}) \in Nat
  <2>1. IsFiniteSet(earned) /\ IsFiniteSet(Graded(journal))
    BY <1>1, FS_Interval, FS_Subset DEF Graded
  <2> HIDE DEF earned
  <2>2. IsFiniteSet({journal[n].id : n \in earned})
    BY <2>1, IdsFinite
  <2>3. QED
    BY <1>1, <2>1, <2>2, FS_CardinalityType DEF Floors
<1>6. ASSUME NEW level, NEW v, TwoBarGate(floors, <<v, level>>)
      PROVE  Cardinality({journal[n].id : n \in earned}) >= floors.minimum_rulings
  <2>1. Cardinality(Graded(journal)) >= floors.minimum_rulings
    BY <1>6 DEF TwoBarGate, TwinMet
  <2> HIDE DEF earned
  <2>2. QED
    BY <1>4, <1>5, <2>1
<1>7. ~TwoBarGate(floors, <<>>)
  BY DEF TwoBarGate, CouncilFloorMet
<1>8. QED
  BY <1>6, <1>7 DEF CalibratedIsEarned

\* Nothing the calibration grants is given away, whatever rulings, grades,
\* seals, bars, tagouts and sittings came in whatever order: the delegation,
\* the council's half of it, a lower bar and a sitting are each earned.
THEOREM CalibrationEarned == CalSpec => []CalibrationIsEarned
<1>1. CalInv => LoweredOnATagout
  BY DEF CalInv, BarInv, Tagout, LoweredOnATagout
<1>2. CalInv => SittingsEarned
  BY DEF CalInv, SittingsInv, RuledIn, SittingsEarned
<1>3. CalInv => CalibrationIsEarned
  BY <1>1, <1>2, GateIsEarned, WarningsBuyNothing DEF CalibrationIsEarned
<1>4. QED
  BY <1>3, CalAlways, PTL
=============================================================================
