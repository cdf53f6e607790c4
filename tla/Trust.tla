------------------------------- MODULE Trust -------------------------------
(***************************************************************************)
(* The release ceremony and what a clone and a node check of it:           *)
(*                                                                         *)
(*   - scripts/genesis/build_manifest.py: the builder, which rewrites the  *)
(*     block of hashes of IMPRINT-MANIFEST.yaml;                           *)
(*   - scripts/genesis/mint_release_root.py: the signer, which signs that  *)
(*     block and writes the signature into the same file, under a lock of  *)
(*     its own;                                                            *)
(*   - genesis/provenance.py and genesis/trust_pin.py: the G1 checks;      *)
(*   - genesis/organs.py: the copy of the rules a node is born with;       *)
(*   - genesis/integrity.py: the re-hash at every session start.           *)
(*                                                                         *)
(* A file's bytes are a value of Contents and its hash is that value (a    *)
(* collision is not modelled).  A signature is the triple (key id written  *)
(* beside it, key that made it, block it is over).  Whoever edits files by *)
(* hand is part of the environment.                                        *)
(***************************************************************************)
EXTENDS Naturals, Sequences, FiniteSets

CONSTANTS
  Files,          \* the members of genesis/imprint/
  RuleFiles,      \* those under genesis/imprint/rules/
  Contents,       \* what a file may hold
  Absent,         \* a file that is not there
  Keys,           \* signing keys: a key stands for its key id and fingerprint
  Pin,            \* the compiled ROOT_FINGERPRINT: a key, or a placeholder
  Clones,         \* the carriers a clone may ship (see CloneType)
  Cached,         \* cached_revocation_sequence: 0 is None
  MaxEdits,       \* bound on what the hands do
  MaxRows         \* bound on the integrity ledger

ASSUME TrustAssumption == /\ RuleFiles \subseteq Files
                          /\ Absent \notin Contents
                          /\ {MaxEdits, MaxRows} \cup Cached \subseteq Nat

VARIABLES
  clone,     \* [roots, pinned, revocation, catalogue, hasher]: the carriers
  bundle,    \* genesis/imprint/: [Files -> Contents or Absent]
  manifest,  \* [form, block, claimed, sigs]: IMPRINT-MANIFEST.yaml
  builder,   \* <<>>, or the text build_manifest.write read inside its lock
  signer,    \* <<>>, or [text, key, key_id] of sign_manifest inside its lock
  verifier,  \* a verify_provenance call: [step, dev, cached, crypto, ...]
  record,    \* <<>>, or the ProvenanceRecord it returned, with what it read
  rules,     \* the node's .intentops-rules/, and whether the node was born
  birth,     \* <<>>, or the block and the record at birth
  gate,      \* a verify_imprint call: [step, ...] or the report it returned
  ledger,    \* the verdicts of the integrity ledger
  edits,     \* what the hands did so far
  touched    \* a manifest or bundle was written while a verifier ran

trustVars == <<clone, bundle, manifest, builder, signer, verifier, record,
               rules, birth, gate, ledger, edits, touched>>

----------------------------------------------------------------------------
(* build_manifest.py                                                       *)

ROOT_ROLES == {"release_root", "release_intermediate", "attribution"}

SIGNS_VOCABULARY == {"invariant_bundle", "imprint_manifest", "archetype_catalogue",
                     "release_artifact", "trust_roots_file", "revocation_list",
                     "node_identity_cert", "alignment_record", "ordering_ruling",
                     "core_mechanic_change"}

\* compute_artifacts: the files that are there, each with its hash.
Present(files) == {f \in DOMAIN files : files[f] # Absent}

compute_artifacts(files) == [f \in Present(files) |-> files[f]]

\* check: what differs between the block and the bundle, by kind.
Findings(text, files) ==
  LET recorded == DOMAIN text.block
      actual   == Present(files)
  IN  (IF actual \ recorded # {} THEN {"UNTRACKED"} ELSE {})
      \cup (IF recorded \ actual # {} THEN {"MISSING"} ELSE {})
      \cup (IF \E f \in recorded \cap actual : text.block[f] # files[f]
            THEN {"CHANGED"} ELSE {})
      \cup (IF actual \ text.claimed # {} THEN {"UNCLAIMED"} ELSE {})

\* parse_block and compute_artifacts raise on a file without a block, and on
\* a bundle without a file.
CanHash(text, files) == text.form \in {"ok", "not yaml"} /\ Present(files) # {}

\* write, first half: the lock, the read inside it.
BuildRead ==
  /\ builder = <<>>
  /\ manifest.form \in {"ok", "not yaml"}
  /\ builder' = manifest
  /\ UNCHANGED <<clone, bundle, manifest, signer, verifier, record, rules, birth,
                 gate, ledger, edits, touched>>

\* write, second half: the hashes of the bundle as it is now put between the
\* head and the tail of the text that was read.
BuildReplace ==
  /\ builder # <<>>
  /\ Present(bundle) # {}
  /\ manifest' = [builder EXCEPT !.block = compute_artifacts(bundle)]
  /\ builder' = <<>>
  /\ touched' = TRUE
  /\ UNCHANGED <<clone, bundle, signer, verifier, record, rules, birth, gate,
                 ledger, edits>>

----------------------------------------------------------------------------
(* mint_release_root.py                                                    *)

\* sign_manifest, first half: under the signer's own lock, not the builder's.
\* _with_signature refuses a text without an empty `signatures: []`, and the
\* payload needs the block.
SignRead(key, key_id) ==
  /\ signer = <<>>
  /\ manifest.form \in {"ok", "not yaml"}
  /\ manifest.sigs = <<>>
  /\ signer' = [text |-> manifest, key |-> key, key_id |-> key_id]
  /\ UNCHANGED <<clone, bundle, manifest, builder, verifier, record, rules, birth,
                 gate, ledger, edits, touched>>

WithSignature(s) ==
  [s.text EXCEPT !.sigs = <<[key_id |-> s.key_id, by |-> s.key, over |-> s.text.block]>>]

SignReplace ==
  /\ signer # <<>>
  /\ manifest' = WithSignature(signer)
  /\ signer' = <<>>
  /\ touched' = TRUE
  /\ UNCHANGED <<clone, bundle, builder, verifier, record, rules, birth, gate,
                 ledger, edits>>

\* A builder or a signer that dies inside its lock leaves the file as it was,
\* and the kernel releases the lock.
CeremonyDies ==
  /\ builder # <<>> \/ signer # <<>>
  /\ \/ builder' = <<>> /\ UNCHANGED signer
     \/ signer' = <<>> /\ UNCHANGED builder
  /\ <<builder', signer'>> # <<builder, signer>>
  /\ UNCHANGED <<clone, bundle, manifest, verifier, record, rules, birth, gate,
                 ledger, edits, touched>>

----------------------------------------------------------------------------
(* The hands: whoever edits the tree, reverts the signatures to an empty   *)
(* list so that a new one can be added, or edits the node's copy.          *)

EditBundle(f, c) ==
  /\ edits < MaxEdits
  /\ bundle' = [bundle EXCEPT ![f] = c]
  /\ edits' = edits + 1
  /\ touched' = TRUE
  /\ UNCHANGED <<clone, manifest, builder, signer, verifier, record, rules, birth,
                 gate, ledger>>

EditManifest(m) ==
  /\ edits < MaxEdits
  /\ manifest' = m
  /\ edits' = edits + 1
  /\ touched' = TRUE
  /\ UNCHANGED <<clone, bundle, builder, signer, verifier, record, rules, birth,
                 gate, ledger>>

EditRules(f, c) ==
  /\ edits < MaxEdits
  /\ rules.there
  /\ rules' = [rules EXCEPT !.files[f] = c]
  /\ edits' = edits + 1
  /\ UNCHANGED <<clone, bundle, manifest, builder, signer, verifier, record, birth,
                 gate, ledger, touched>>

LoseRules ==
  /\ edits < MaxEdits
  /\ rules.there
  /\ rules' = [rules EXCEPT !.there = FALSE,
                            !.files = [f \in RuleFiles |-> Absent]]
  /\ edits' = edits + 1
  /\ UNCHANGED <<clone, bundle, manifest, builder, signer, verifier, record, birth,
                 gate, ledger, touched>>

----------------------------------------------------------------------------
(* provenance.py: the nine checks of G1.                                   *)

Check(id, outcome, contradiction) ==
  [id |-> id, outcome |-> outcome, contradiction |-> contradiction,
   downgraded |-> FALSE]

\* G1.1.  A roots file that is absent or holds no root is missing evidence; one
\* that does not parse contradicts itself.
check_roots_file(c) ==
  Check("G1.1", IF c.roots.form = "doc" /\ c.roots.list # {} THEN "PASS" ELSE "HALT",
        c.roots.form = "broken")

HasRoots(c) == check_roots_file(c).outcome = "PASS"

\* G1.2b: roles, issuers, signing scopes, and nothing declared twice.
RootIsLegal(r) ==
  /\ r.role \in ROOT_ROLES
  /\ r.role = "release_root" => r.issued_by \in {"none", "self", r.id}
  /\ r.role # "release_root" => r.issued_by \notin {"none", "self"}
  /\ r.signs \subseteq SIGNS_VOCABULARY

check_root_policy(c) ==
  LET legal == /\ \A r \in c.roots.list : RootIsLegal(r)
               /\ \A r, s \in c.roots.list : r.id = s.id \/ r.key = s.key => r = s
  IN  Check("G1.2b", IF legal THEN "PASS" ELSE "HALT", ~legal)

check_status(c) ==
  Check("G1.2", IF \A r \in c.roots.list : r.status = "active" THEN "PASS"
                ELSE "REFUSE", FALSE)

\* G1.3, trust_pin.compare: the compiled pin against the one the file declares.
pin_is_minted == Pin \in Keys

check_pin(c) ==
  Check("G1.3", IF pin_is_minted /\ c.pinned = Pin THEN "PASS" ELSE "HALT", FALSE)

\* G1.4.  A placeholder key is missing evidence, key material that disagrees
\* with its fingerprint a contradiction; a host that cannot do the arithmetic
\* halts at the first real key, before it could find either.
check_representations(c, crypto) ==
  LET material == {r.material : r \in c.roots.list}
  IN  IF material \subseteq {"placeholder"} \/ crypto
      THEN Check("G1.4", IF material = {"agrees"} THEN "PASS" ELSE "HALT",
                 "disagrees" \in material)
      ELSE Check("G1.4", "HALT", FALSE)

\* G1.5.  The entries of the list are counted, not applied.
check_revocation(c, cached) ==
  LET rev == c.revocation
  IN  Check("G1.5", CASE rev.form = "absent" -> "REFUSE"
                      [] rev.form = "broken" -> "HALT"
                      [] OTHER -> IF cached # 0 /\ rev.sequence < cached
                                  THEN "REFUSE" ELSE "PASS", FALSE)

\* G1.6: the hasher of the clone, and what it finds.
check_imprint_hashes(found) ==
  Check("G1.6", IF found = {} THEN "PASS" ELSE "HALT",
        found \cap {"CHANGED", "MISSING"} # {})

\* Active roots entitled to sign the imprint.
\* Mutant of signing_roots: any active root may sign.
signing_roots_any(c) == {r \in c.roots.list : r.status = "active"}

signing_roots(c) ==
  {r \in c.roots.list : r.status = "active" /\ "imprint_manifest" \in r.signs}

\* Ed25519: a signature verifies under the key that made it, over the payload
\* it was made of.
verify_ed25519(sig, root, text) ==
  /\ sig.by = root.key
  /\ sig.over = text.block
  /\ root.material = "agrees"

\* G1.7.  Every signature has to be by a signing root and to verify; one that
\* does not is a contradiction, no signature at all a refusal.
check_imprint_signature(text, c, crypto) ==
  LET signers == IF HasRoots(c) THEN signing_roots(c) ELSE {}
      sound(s) == \E r \in signers : s.key_id = r.key /\ verify_ed25519(s, r, text)
  IN  IF text.form = "absent" THEN Check("G1.7", "HALT", FALSE)
      ELSE IF text.form = "not yaml" THEN Check("G1.7", "HALT", TRUE)
      ELSE IF text.form = "ok" /\ text.sigs = <<>> THEN Check("G1.7", "REFUSE", FALSE)
      ELSE IF text.sigs # <<>> /\ (~pin_is_minted \/ signers = {})
        THEN Check("G1.7", "REFUSE", FALSE)
      ELSE IF text.sigs # <<>> /\ ~crypto THEN Check("G1.7", "HALT", FALSE)
      ELSE IF text.form = "ok" /\ \A i \in DOMAIN text.sigs : sound(text.sigs[i])
        THEN Check("G1.7", "PASS", FALSE)
      ELSE Check("G1.7", "HALT", TRUE)

\* G1.8: the catalogue is there, parses, and has its `entries`.
check_archetypes(c) ==
  Check("G1.8", CASE c.catalogue = "absent" -> "REFUSE"
                  [] c.catalogue \in {"broken", "no entries"} -> "HALT"
                  [] OTHER -> "PASS", c.catalogue = "broken")

\* The development flag turns missing evidence into a warning that stays
\* marked; it never opens a contradiction.
Downgraded(checks, dev) ==
  {IF dev /\ k.outcome \in {"REFUSE", "HALT"} /\ ~k.contradiction
   THEN [k EXCEPT !.outcome = "WARN", !.downgraded = TRUE] ELSE k : k \in checks}

Verified(checks) == \A k \in checks : k.outcome = "PASS" /\ ~k.downgraded

Blocking(checks) == {k \in checks : k.outcome \in {"REFUSE", "HALT"}}

IdleVerifier == [step |-> "idle", dev |-> FALSE, crypto |-> TRUE, text |-> <<>>,
                 checks |-> {}]

\* verify_provenance reads the roots file first (its document is kept for G1.7)
\* and the revocation list,
VerifyRoots(dev, cached, crypto) ==
  /\ verifier.step = "idle"
  /\ verifier' = [step |-> "roots", dev |-> dev, crypto |-> crypto, text |-> <<>>,
                  checks |-> {check_roots_file(clone), check_revocation(clone, cached)}
                    \cup (IF HasRoots(clone)
                          THEN {check_status(clone), check_root_policy(clone),
                                check_pin(clone),
                                check_representations(clone, crypto)}
                          ELSE {})]
  /\ touched' = FALSE
  /\ UNCHANGED <<clone, bundle, manifest, builder, signer, record, rules, birth,
                 gate, ledger, edits>>

\* then the manifest's text, if the clone carries a hasher;
VerifyText ==
  /\ verifier.step = "roots"
  /\ verifier' = [verifier EXCEPT !.step = "text", !.text = manifest]
  /\ UNCHANGED <<clone, bundle, manifest, builder, signer, record, rules, birth,
                 gate, ledger, edits, touched>>

\* then the bytes of the bundle.  A hasher that is absent is a halt of the
\* check; one that raises ManifestError ends the call without a record.
VerifyHash ==
  /\ verifier.step = "text"
  /\ IF ~clone.hasher
     THEN verifier' = [verifier EXCEPT !.step = "hash",
                         !.checks = @ \cup {Check("G1.6", "HALT", FALSE)}]
     ELSE IF CanHash(verifier.text, bundle)
     THEN verifier' = [verifier EXCEPT !.step = "hash",
            !.checks = @ \cup {check_imprint_hashes(Findings(verifier.text, bundle))}]
     ELSE verifier' = IdleVerifier
  /\ UNCHANGED <<clone, bundle, manifest, builder, signer, record, rules, birth,
                 gate, ledger, edits, touched>>

\* then the manifest once more for its signatures, and the catalogue.
VerifySign ==
  /\ verifier.step = "hash"
  /\ LET all == verifier.checks \cup
                  {check_imprint_signature(manifest, clone, verifier.crypto),
                   check_archetypes(clone)}
     IN  record' = [checks |-> Downgraded(all, verifier.dev), text |-> manifest,
                    quiet |-> ~touched]
  /\ verifier' = IdleVerifier
  /\ UNCHANGED <<clone, bundle, manifest, builder, signer, rules, birth, gate,
                 ledger, edits, touched>>

----------------------------------------------------------------------------
(* organs.py: birth, after a record nothing of which blocks.  The markers  *)
(* are made first, then the rules are copied one by one; a crash leaves    *)
(* some of them.                                                           *)

CopyRules(copied) ==
  /\ record # <<>> /\ Blocking(record.checks) = {}
  /\ ~rules.born
  /\ copied \subseteq RuleFiles \cap Present(bundle)
  /\ rules' = [born |-> TRUE, there |-> TRUE,
               files |-> [f \in RuleFiles |-> IF f \in copied THEN bundle[f] ELSE Absent]]
  /\ birth' = [text |-> record.text, verified |-> Verified(record.checks),
               quiet |-> record.quiet]
  /\ UNCHANGED <<clone, bundle, manifest, builder, signer, verifier, record, gate,
                 ledger, edits, touched>>

----------------------------------------------------------------------------
(* integrity.py: verify_imprint, three reads and one appended row.         *)

\* check_rules_copy.  A node with no corpus is unborn or has lost it.
\* Mutant of RuleDrifts: what the bundle does not carry is not looked at.
RuleDriftsExpectedOnly(block) ==
  IF ~rules.there THEN IF rules.born THEN {"RULES-ABSENT"} ELSE {}
  ELSE LET expected == RuleFiles \cap DOMAIN block
       IN  {"RULES-CHANGED" : f \in {g \in expected : rules.files[g] # block[g]}}

RuleDrifts(block) ==
  IF ~rules.there THEN IF rules.born THEN {"RULES-ABSENT"} ELSE {}
  ELSE LET expected == RuleFiles \cap DOMAIN block
           onDisk   == {f \in RuleFiles : rules.files[f] # Absent}
       IN  (IF expected \ onDisk # {} THEN {"RULES-MISSING"} ELSE {})
           \cup (IF \E f \in expected \cap onDisk : rules.files[f] # block[f]
                 THEN {"RULES-CHANGED"} ELSE {})
           \cup (IF onDisk \ expected # {} THEN {"RULES-EXTRA"} ELSE {})

\* _load_hasher and _manifest_artifacts: a check that cannot run is a HALT,
\* which gate_session_start reports and nothing records.
GateArtifacts ==
  /\ gate.step # "artifacts" /\ gate.step # "bundle"
  /\ Len(ledger) < MaxRows
  /\ gate' = IF clone.hasher /\ manifest.form \in {"ok", "not yaml"}
                /\ DOMAIN manifest.block # {}
             THEN [step |-> "artifacts", block |-> manifest.block, drifts |-> {},
                   files |-> rules.files, scope |-> "none"]
             ELSE [gate EXCEPT !.step = "HALT"]
  /\ UNCHANGED <<clone, bundle, manifest, builder, signer, verifier, record, rules,
                 birth, ledger, edits, touched>>

\* check_bundle: the hasher's own check, which reads the manifest again.
GateBundle ==
  /\ gate.step = "artifacts"
  /\ gate' = IF CanHash(manifest, bundle)
             THEN [gate EXCEPT !.step = "bundle", !.drifts = Findings(manifest, bundle)]
             ELSE [gate EXCEPT !.step = "HALT"]
  /\ UNCHANGED <<clone, bundle, manifest, builder, signer, verifier, record, rules,
                 birth, ledger, edits, touched>>

\* IntegrityLedger.append: one row, under the ledger's lock.
Recorded(verdict) == ledger' = Append(ledger, verdict)

\* IntegrityReport: the verdict, the drifts and how far the rules were read.
IntegrityReport(drifts) ==
  [verdict |-> IF drifts = {} THEN "CLEAN" ELSE "DRIFTED", drifts |-> drifts,
   rules_files |-> rules.files,
   rules_scope |-> IF rules.there THEN "checked"
                   ELSE IF rules.born THEN "absent" ELSE "unborn-node"]

\* check_rules_copy against the artifacts read first, the verdict, the row.
GateRules ==
  /\ gate.step = "bundle"
  /\ LET report == IntegrityReport(gate.drifts \cup RuleDrifts(gate.block))
     IN  /\ gate' = [gate EXCEPT !.step = report.verdict, !.drifts = report.drifts,
                                 !.files = report.rules_files, !.scope = report.rules_scope]
         /\ Recorded(report.verdict)
  /\ UNCHANGED <<clone, bundle, manifest, builder, signer, verifier, record, rules,
                 birth, edits, touched>>

\* LedgerState.posture over fold.
posture(rows) ==
  IF rows = <<>> THEN "ATTENTION"
  ELSE IF rows[Len(rows)] = "DRIFTED" THEN "DEGRADED" ELSE "READING"

----------------------------------------------------------------------------
EmptySigs(m) == [m EXCEPT !.sigs = <<>>]

TrustInit ==
  /\ clone \in Clones
  /\ bundle \in [Files -> Contents \cup {Absent}]
  /\ manifest = [form |-> "ok", block |-> compute_artifacts(bundle),
                 claimed |-> Files, sigs |-> <<>>]
  /\ builder = <<>> /\ signer = <<>> /\ record = <<>> /\ birth = <<>>
  /\ verifier = IdleVerifier
  /\ rules = [born |-> FALSE, there |-> FALSE, files |-> [f \in RuleFiles |-> Absent]]
  /\ gate = [step |-> "never", block |-> <<>>, drifts |-> {}, files |-> rules.files,
             scope |-> "none"]
  /\ ledger = <<>>
  /\ edits = 0
  /\ touched = FALSE

TrustNext ==
  \/ BuildRead \/ BuildReplace
  \/ \E k, id \in Keys : SignRead(k, id)
  \/ SignReplace \/ CeremonyDies
  \/ \E f \in Files, c \in Contents \cup {Absent} : EditBundle(f, c)
  \/ EditManifest(EmptySigs(manifest))
  \/ \E f \in Files : EditManifest([manifest EXCEPT !.claimed = @ \ {f}])
  \/ \E form \in {"absent", "no block", "not yaml"} :
       manifest.form = "ok" /\ EditManifest([manifest EXCEPT !.form = form])
  \/ \E f \in RuleFiles, c \in Contents \cup {Absent} : EditRules(f, c)
  \/ LoseRules
  \/ \E dev, crypto \in BOOLEAN, cached \in Cached : VerifyRoots(dev, cached, crypto)
  \/ VerifyText \/ VerifyHash \/ VerifySign
  \/ \E copied \in SUBSET RuleFiles : CopyRules(copied)
  \/ GateArtifacts \/ GateBundle \/ GateRules

TrustSpec == TrustInit /\ [][TrustNext]_trustVars

----------------------------------------------------------------------------
\* A signature by a root of the clone that may sign the imprint.
SignedBy(text, c) ==
  \E i \in DOMAIN text.sigs, r \in c.roots.list :
    /\ text.sigs[i].by = r.key /\ text.sigs[i].over = text.block
    /\ r.status = "active" /\ "imprint_manifest" \in r.signs

\* A record reads `verified` only if the block whose hashes it compared with
\* the bundle carries a signature an active, entitled root of the clone made
\* over that very block, and the compiled pin is the file's.  The four reads
\* of verify_provenance are separate; the claim is for a call during which
\* nobody wrote the manifest or the bundle (touched).
VerifiedMeansSigned ==
  record # <<>> /\ record.quiet /\ Verified(record.checks) =>
    /\ SignedBy(record.text, clone)
    /\ Pin \in Keys /\ clone.pinned = Pin

\* From the release to the window: a session start that reads CLEAN on a node
\* born of a verified record, with the manifest still the one of its birth,
\* read as the node's rules exactly the rules a release root signed: none
\* changed, none missing, none added, whatever was edited in between; and the
\* ledger's posture says as much.
CleanMeansSigned ==
  (/\ gate.step = "CLEAN" /\ gate.scope = "checked"
   /\ birth # <<>> /\ birth.verified /\ birth.quiet
   /\ gate.block = birth.text.block) =>
      /\ posture(ledger) = "READING"
      /\ SignedBy(birth.text, clone)
      /\ \A f \in RuleFiles :
           gate.files[f] = IF f \in DOMAIN birth.text.block
                           THEN birth.text.block[f] ELSE Absent
=============================================================================
