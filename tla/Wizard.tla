------------------------------- MODULE Wizard -------------------------------
(***************************************************************************)
(* ceremony/wizard.py: `intentops ceremony`, the attended and resumable    *)
(* sitting that mints the release root and its intermediate on a medium,   *)
(* signs the imprint manifest, writes the three carriers of the            *)
(* fingerprint, verifies, and writes the record.                           *)
(*                                                                         *)
(* Every step ends by journalling itself in two files, first beside the    *)
(* keys and then in the repository; a sitting may be refused, interrupted  *)
(* or die between any two writes, and the next one is fresh or resumes.    *)
(* A key is the number of the minting that made it; 0 stands for a         *)
(* placeholder.  Prompts, screens and the stated facts are left out: they  *)
(* decide nothing but whether a step is refused.                           *)
(***************************************************************************)
EXTENDS Naturals, Sequences, FiniteSets

CONSTANTS
  MaxMintings,   \* bound on the keys minted
  MaxSittings,   \* bound on the runs of the wizard
  MaxHands       \* bound on the edits made between them

VARIABLES
  medium,     \* [root, inter]: the private keys in the output directory
  carriers,   \* [roots, inter, pin, doc]: trust-roots.yaml, trust_pin, GENESIS.md
  manifest,   \* [block, by, over]: the block, who signed it (0: nobody), what
  journal,    \* [medium, local]: each [there, done]: the ceremony-state.json files
  sitting,    \* the running wizard: [pc, resume, done, mediumOk, write, carrier]
  minted,     \* keys minted so far
  fresh,      \* sittings started without --resume
  sittings,   \* all sittings
  hands       \* edits by hand

wizardVars == <<medium, carriers, manifest, journal, sitting, minted, fresh,
                sittings, hands>>

----------------------------------------------------------------------------
STEPS == <<"preflight", "medium", "passphrase", "mint-root", "mint-intermediate",
           "sign-imprint", "three-carrier-edit", "verify", "record", "summary">>

ALWAYS_RERUN == {"preflight", "medium", "passphrase", "summary"}

After(step) ==
  LET i == CHOOSE j \in 1 .. Len(STEPS) : STEPS[j] = step
  IN  IF i = Len(STEPS) THEN "complete" ELSE STEPS[i + 1]

NoJournal == [there |-> FALSE, done |-> <<>>]

Idle == [pc |-> "idle", resume |-> FALSE, done |-> <<>>, mediumOk |-> FALSE,
         write |-> "none", carrier |-> 0]

\* _done: the journal in memory holds the step.
Done(step) == step \in DOMAIN sitting.done

\* _skip: only a resumed sitting skips, and never the steps always run again.
\* Mutant of Skip: a carrier edit whose first file is written counts as done.
SkipApplied(step) ==
  /\ sitting.resume /\ step \notin ALWAYS_RERUN
  /\ \/ Done(step)
     \/ step = "three-carrier-edit" /\ carriers.roots = sitting.done["mint-root"]

Skip(step) == sitting.resume /\ step \notin ALWAYS_RERUN /\ Done(step)

\* _complete: the step and its data enter the state, which is then written to
\* every state path: the medium's copy first if step_medium accepted one.
Completed(step, data) ==
  [sitting EXCEPT !.done = [s \in DOMAIN @ \cup {step} |-> IF s = step THEN data ELSE @[s]],
                  !.write = IF sitting.mediumOk THEN "medium" ELSE "local"]

At(step) == sitting.pc = step /\ sitting.write = "none"

Onward(step) == sitting' = [sitting EXCEPT !.pc = After(step)]

----------------------------------------------------------------------------
\* execute, up to the first step: screen_0_gate and the journal.  A resumed
\* sitting reads the repository's copy, or the medium's if it is told where
\* that is; with neither it is refused.
Load(resume, j) ==
  IF resume THEN /\ j.there
                 /\ j = IF journal.local.there THEN journal.local ELSE journal.medium
  ELSE j = NoJournal

\* Console.attendance: a human at a console.  CI set is refused first, then a
\* stdin that is no terminal, then Windows' NUL dressed as one.
Hosts == [ci: BOOLEAN, tty: BOOLEAN, null: BOOLEAN]
attendance(host) == ~host.ci /\ host.tty /\ ~host.null

\* screen_0_gate: without one the sitting is refused before it reads anything.
screen_0_gate(host) == attendance(host)

Start(resume, j, host) ==
  /\ sitting.pc \in {"idle", "complete"}
  /\ sittings < MaxSittings
  /\ screen_0_gate(host)
  /\ Load(resume, j)
  /\ sitting' = [Idle EXCEPT !.pc = "preflight", !.resume = resume, !.done = j.done]
  /\ sittings' = sittings + 1
  /\ fresh' = IF resume THEN fresh ELSE fresh + 1
  /\ UNCHANGED <<medium, carriers, manifest, journal, minted, hands>>

\* A CeremonyRefused, an exception, the end of stdin or the death of the
\* process: the sitting and what it holds in memory are gone.
Stop ==
  /\ sitting.pc \notin {"idle", "complete"}
  /\ sitting' = Idle
  /\ UNCHANGED <<medium, carriers, manifest, journal, minted, fresh, sittings, hands>>

\* _write_state: one file after the other, each replaced atomically.
WriteMedium ==
  /\ sitting.write = "medium"
  /\ journal' = [journal EXCEPT !.medium = [there |-> TRUE, done |-> sitting.done]]
  /\ sitting' = [sitting EXCEPT !.write = "local"]
  /\ UNCHANGED <<medium, carriers, manifest, minted, fresh, sittings, hands>>

WriteLocal ==
  /\ sitting.write = "local"
  /\ journal' = [journal EXCEPT !.local = [there |-> TRUE, done |-> sitting.done]]
  /\ sitting' = [sitting EXCEPT !.write = "none", !.pc = After(sitting.pc)]
  /\ UNCHANGED <<medium, carriers, manifest, minted, fresh, sittings, hands>>

\* step_preflight: a resumed sitting takes the recorded one and checks nothing
\* again; a fresh one needs the tools' selftests and an undrifted manifest.
step_preflight ==
  /\ At("preflight")
  /\ IF sitting.resume /\ Done("preflight") THEN Onward("preflight")
     ELSE sitting' = Completed("preflight", 0)
  /\ UNCHANGED <<medium, carriers, manifest, journal, minted, fresh, sittings, hands>>

\* step_medium: outside any repository and writable, or refused.
step_medium ==
  /\ At("medium")
  /\ sitting' = [Completed("medium", 0) EXCEPT !.mediumOk = TRUE, !.write = "medium"]
  /\ UNCHANGED <<medium, carriers, manifest, journal, minted, fresh, sittings, hands>>

\* step_passphrase: the one that opens the key on the medium, or a new one.
step_passphrase ==
  /\ At("passphrase")
  /\ sitting' = Completed("passphrase", 0)
  /\ UNCHANGED <<medium, carriers, manifest, journal, minted, fresh, sittings, hands>>

\* mint: a new key pair, its private half over the file that is there.
NewKey(key) == [medium EXCEPT ![key] = minted + 1]

\* _mint_one: unless skipped, a new key is written over whatever file of that
\* name the medium holds, and only then is the step journalled.
Mint(step, key) ==
  /\ At(step)
  /\ IF Skip(step)
     THEN Onward(step) /\ UNCHANGED <<medium, minted>>
     ELSE /\ minted < MaxMintings
          /\ minted' = minted + 1
          /\ medium' = NewKey(key)
          /\ sitting' = Completed(step, minted')
  /\ UNCHANGED <<carriers, manifest, journal, fresh, sittings, hands>>

step_mint_root == Mint("mint-root", "root")

step_mint_intermediate == Mint("mint-intermediate", "inter")

\* step_sign: build_manifest --check, then sign_manifest with the key file of
\* the intermediate, which refuses a manifest that carries a signature.
step_sign ==
  /\ At("sign-imprint")
  /\ IF Skip("sign-imprint")
     THEN Onward("sign-imprint") /\ UNCHANGED manifest
     ELSE /\ manifest.by = 0
          /\ medium.inter # 0
          /\ manifest' = [manifest EXCEPT !.by = medium.inter, !.over = manifest.block]
          /\ sitting' = Completed("sign-imprint", 0)
  /\ UNCHANGED <<medium, carriers, journal, minted, fresh, sittings, hands>>

\* step_carriers: after the phrase is typed, the three files are written one
\* after the other with the keys of the mint steps, and staged.
\* The editors replace the declared fields whatever they hold; a file without
\* one of them is refused before anything is written.
edit_trust_roots(c) == [c EXCEPT !.roots = sitting.done["mint-root"],
                                 !.inter = sitting.done["mint-intermediate"]]

edit_trust_pin(c) == [c EXCEPT !.pin = sitting.done["mint-root"]]

edit_genesis_doc(c) == [c EXCEPT !.doc = sitting.done["mint-root"]]

CarrierEdit(n) == CASE n = 0 -> edit_trust_roots(carriers)
                    [] n = 1 -> edit_trust_pin(carriers)
                    [] n = 2 -> edit_genesis_doc(carriers)

step_carriers ==
  /\ At("three-carrier-edit")
  /\ IF Skip("three-carrier-edit")
     THEN Onward("three-carrier-edit") /\ UNCHANGED carriers
     ELSE IF sitting.carrier < 3
     THEN /\ carriers' = CarrierEdit(sitting.carrier)
          /\ sitting' = [sitting EXCEPT !.carrier = @ + 1]
     ELSE sitting' = Completed("three-carrier-edit", 0) /\ UNCHANGED carriers
  /\ UNCHANGED <<medium, manifest, journal, minted, fresh, sittings, hands>>

\* step_verify: G1.7 over the edited tree, then a throwaway genesis without
\* the development flag, which also needs G1.3: the pin the file declares.
Accepted ==
  /\ manifest.by # 0 /\ manifest.by = carriers.inter /\ manifest.over = manifest.block
  /\ carriers.pin # 0 /\ carriers.pin = carriers.roots

step_verify ==
  /\ At("verify")
  /\ IF Skip("verify") THEN Onward("verify")
     ELSE Accepted /\ sitting' = Completed("verify", 0)
  /\ UNCHANGED <<medium, carriers, manifest, journal, minted, fresh, sittings, hands>>

\* step_record: skipped only if the file of today's date is there.
step_record ==
  /\ At("record")
  /\ \/ Skip("record") /\ Onward("record")
     \/ sitting' = Completed("record", 0)
  /\ UNCHANGED <<medium, carriers, manifest, journal, minted, fresh, sittings, hands>>

step_summary ==
  /\ At("summary")
  /\ sitting' = Completed("summary", 0)
  /\ UNCHANGED <<medium, carriers, manifest, journal, minted, fresh, sittings, hands>>

----------------------------------------------------------------------------
(* Between two sittings: the bundle is edited and the manifest rebuilt, its *)
(* signatures are emptied again, the node's directory is deleted.          *)

Hand ==
  /\ sitting.pc \in {"idle", "complete"}
  /\ hands < MaxHands
  /\ hands' = hands + 1
  /\ UNCHANGED <<medium, carriers, minted, fresh, sittings>>

RebuildManifest ==
  /\ Hand
  /\ manifest' = [manifest EXCEPT !.block = @ + 1]
  /\ sitting' = Idle
  /\ UNCHANGED journal

EmptySignatures ==
  /\ Hand
  /\ manifest.by # 0
  /\ manifest' = [manifest EXCEPT !.by = 0, !.over = 0]
  /\ sitting' = Idle
  /\ UNCHANGED journal

LoseLocalJournal ==
  /\ Hand
  /\ journal.local.there
  /\ journal' = [journal EXCEPT !.local = NoJournal]
  /\ sitting' = Idle
  /\ UNCHANGED manifest

----------------------------------------------------------------------------
WizardInit ==
  /\ medium = [root |-> 0, inter |-> 0]
  /\ carriers = [roots |-> 0, inter |-> 0, pin |-> 0, doc |-> 0]
  /\ manifest = [block |-> 1, by |-> 0, over |-> 0]
  /\ journal = [medium |-> NoJournal, local |-> NoJournal]
  /\ sitting = Idle
  /\ minted = 0 /\ fresh = 0 /\ sittings = 0 /\ hands = 0

WizardNext ==
  \/ \E resume \in BOOLEAN, j \in {journal.local, journal.medium, NoJournal},
        host \in Hosts : Start(resume, j, host)
  \/ Stop \/ WriteMedium \/ WriteLocal
  \/ step_preflight \/ step_medium \/ step_passphrase \/ step_mint_root
  \/ step_mint_intermediate \/ step_sign \/ step_carriers \/ step_verify
  \/ step_record \/ step_summary
  \/ RebuildManifest \/ EmptySignatures \/ LoseLocalJournal

WizardSpec == WizardInit /\ [][WizardNext]_wizardVars

----------------------------------------------------------------------------
\* A sitting that runs to the end leaves one root in all three carriers, whose
\* private key the medium holds together with the intermediate's, and any
\* signature on the manifest is the declared intermediate's: whatever earlier
\* sittings died in the middle of, and whichever copy of the journal was read.
CompleteMeansAgreed ==
  sitting.pc = "complete" =>
    /\ carriers.roots # 0
    /\ carriers.roots = carriers.pin /\ carriers.pin = carriers.doc
    /\ medium = [root |-> carriers.roots, inter |-> carriers.inter]
    /\ manifest.by \in {0, carriers.inter}

\* While only the first sitting was fresh and every later one resumed, no key
\* a carrier names is minted over: resuming never loses the private half of
\* what was published.
ResumeKeepsKeys ==
  fresh <= 1 => /\ carriers.roots \in {0, medium.root}
                /\ carriers.inter \in {0, medium.inter}
                /\ carriers.pin \in {0, medium.root}
=============================================================================
