------------------------------ MODULE MCRelease ------------------------------
(* From the ceremony to a birth, for TLC: the wizard's sittings, the release *)
(* and what a clone and a node check of it, and the reading that calls the   *)
(* node alive.  The three share no file that all of them write, so a         *)
(* behaviour is about one of them while the others rest.                     *)
(*                                                                           *)
(* The release has one rule file and one other, two keys, and the clones     *)
(* below: a sound one, one whose signing root lacks the scope, one with a    *)
(* root still proposed, one with a root that is not legal, and ones with a   *)
(* carrier missing or broken.                                                *)
EXTENDS Trust

CONSTANTS MaxMintings, MaxSittings, MaxHands, Readers, Facts, MaxReadings, MaxChanges, MaxDay

VARIABLES
  part,      \* what this behaviour is about
  medium, carriers, signed, journal, sitting, keys, fresh, sittings, hands,
  facts, stood, today, register, aliveness, cert, token, shown, minted, reader,
  readings, changes

W == INSTANCE Wizard WITH manifest <- signed, minted <- keys
A == INSTANCE Aliveness

wVars == <<medium, carriers, signed, journal, sitting, keys, fresh, sittings, hands>>
aVars == <<facts, stood, today, register, aliveness, cert, token, shown, minted, reader,
           readings, changes>>

Root(id, key, signs) ==
  [id |-> id, key |-> key, role |-> "release_root", issued_by |-> "self",
   status |-> "active", signs |-> signs, material |-> "agrees"]

Signing == Root("R1", "k1", {"imprint_manifest"})
Other   == Root("R2", "k2", {"alignment_record"})

Sound == [roots |-> [form |-> "doc", list |-> {Signing, Other}], pinned |-> "k1",
          revocation |-> [form |-> "ok", sequence |-> 1], catalogue |-> "ok",
          hasher |-> TRUE]

WithRoots(s) == [Sound EXCEPT !.roots.list = s]

MCClones ==
  {Sound, WithRoots({[Other EXCEPT !.key = "k1"]}),
   WithRoots({Signing, [Other EXCEPT !.status = "proposed"]}),
   WithRoots({Signing, [Other EXCEPT !.role = "operator_root"]}),
   WithRoots({Signing, [Other EXCEPT !.material = "disagrees"]}),
   WithRoots({[Signing EXCEPT !.material = "placeholder"]}),
   [Sound EXCEPT !.roots.form = "broken"],
   [Sound EXCEPT !.revocation.form = "absent", !.catalogue = "broken"],
   [Sound EXCEPT !.hasher = FALSE, !.pinned = "k2"]}

Well == [probes |-> [suite |-> "ran", total |-> 2, passed |-> 2, absent |-> 0],
         beliefs |-> [binding |-> "read", unreadable |-> FALSE, open |-> 0, population |-> 1],
         tagouts |-> "reads", gate |-> [refuses |-> TRUE, allows |-> TRUE],
         estate |-> [bound |-> TRUE, estate_ok |-> TRUE, repo_ok |-> TRUE, rejects |-> TRUE]]
MCFacts == {Well, [Well EXCEPT !.probes.passed = 1, !.probes.absent = 1],
            [Well EXCEPT !.beliefs.binding = "none"],
            [Well EXCEPT !.probes.passed = 1, !.beliefs.open = 1],
            [Well EXCEPT !.gate.refuses = FALSE, !.estate.bound = FALSE]}

\* Two questions about the release: what the carriers of a clone do to a
\* verification nobody disturbs, and what builder, signer, hands, birth and
\* session starts do to each other on a sound clone.  Verifier and session
\* start only read what both read, so one runs at a time.
Releases == {"carriers", "release"}

MCInit ==
  /\ part \in Releases \cup {"ceremony", "reading"}
  /\ TrustInit /\ W!WizardInit /\ A!AliveInit
  /\ bundle = [f \in Files |-> "a"]
  /\ part # "carriers" => clone = Sound
  /\ part # "reading" => facts = Well

ReleaseStep ==
  /\ part \in Releases
  /\ TrustNext /\ UNCHANGED <<part, wVars, aVars>>
  /\ part = "carriers" => /\ edits' <= 1 /\ gate'.step = "never" /\ ~rules'.born
                          /\ verifier'.step # "idle" => builder' = <<>> /\ signer' = <<>>
  /\ part = "release" => /\ verifier'.crypto /\ ~verifier'.dev
                         /\ signer' = <<>> \/ signer'.key_id = "k1"
                         /\ manifest'.claimed = Files /\ manifest'.form = "ok"
                         /\ bundle'["IMPRINT"] = "a"
                         /\ rules'.born => verifier'.step = "idle"
                         /\ gate'.step # "never" => rules'.born
                         /\ verifier'.step = "idle" \/ gate'.step \notin {"artifacts", "bundle"}

MCNext ==
  \/ ReleaseStep
  \/ part = "ceremony" /\ W!WizardNext /\ UNCHANGED <<part, trustVars, aVars>>
  \/ part = "reading"  /\ A!AliveNext  /\ UNCHANGED <<part, trustVars, wVars>>

MCVars == <<part, trustVars, wVars, aVars>>
ReleaseSpec == MCInit /\ [][MCNext]_MCVars

----------------------------------------------------------------------------
\* The ceremony: a sitting that ends leaves one root everywhere, and resuming
\* never mints over a published key (ceremony/wizard.py).
CeremonyAgrees == W!CompleteMeansAgreed /\ W!ResumeKeepsKeys

\* The reading: the certificate is a row of the ledger, and ALIVE is six
\* answers, whoever reads at the same time (genesis/aliveness.py).
CertificateOnRecord == A!CertificateOnRecord

\* The birth claim of a day is filed once, however two readings overlap
\* (genesis/aliveness.py, _check_witness).
BirthClaimOnce == A!BirthClaimOnce
=============================================================================
