------------------------------ MODULE Genesis ------------------------------
(***************************************************************************)
(* intentops_core/genesis/machine.py: the driver that turns a clone into a *)
(* node, one phase after another (G0 .. G7), each phase's verdict appended *)
(* to a journal that --resume and --rollback fold.  With it the stand-down *)
(* (genesis/standdown.py), the organs (genesis/organs.py) and the token    *)
(* ceremony (genesis/token_ceremony.py) as far as the driver calls them.   *)
(*                                                                         *)
(* One node, one genesis command at a time, any sequence of commands with  *)
(* any flags; a command may die between any two of its writes, and the     *)
(* operator may stand the node down, delete the marker or close a tagout   *)
(* while it runs.  Two commands at once meet in the stores they write:     *)
(* that is StoreGuard's EarlyReaders.                                      *)
(*                                                                         *)
(* Operator answers and the host are inputs.  Every text is abstracted to  *)
(* whether a real run or a dry run wrote it.                               *)
(***************************************************************************)
EXTENDS Naturals, Sequences, FiniteSets

CONSTANTS MaxRuns,     \* bound: genesis commands
          MaxCrashes,  \* bound: commands that die
          MaxEpochs    \* bound: stand-downs recorded

ASSUME BoundsAssumption ==
    MaxRuns \in Nat /\ MaxCrashes \in Nat /\ MaxEpochs \in Nat

Phases   == 0..7              \* G0 .. G7
Outcomes == {"PASS", "WARN", "REFUSE", "HALT"}
Blocking == {"REFUSE", "HALT"}

VARIABLES
    host,       \* what the clone and the machine are like; never changes
    journal,    \* .intentops/genesis/journal.jsonl
    marker,     \* .intentops/halt.marker exists
    rootPub,    \* .intentops/trust/operator-root.pub.json: {} or one record
    cfgBound,   \* .intentops/config/node.yaml names an identity repository
    token,      \* .intentops/.../gateway token record exists
    tagout,     \* the unsigned-development entry of the tagout ledger
    keys,       \* ~/.intentops/keys: the private keys on disk
    identity,   \* the identity repository: {} or one record
    run,        \* the genesis command in progress
    minted,     \* key pairs minted so far
    runs,       \* commands started so far
    crashes     \* commands that died

nodeFiles == <<journal, marker, rootPub, cfgBound, token, tagout>>
counters  == <<minted, runs, crashes>>
vars      == <<host, nodeFiles, keys, identity, run, counters>>

\* provenance.verify_provenance: what G1 finds in this clone.
\*   signed         every check passes
\*   unsigned       nothing to verify against; the flag downgrades it
\*   contradiction  carriers disagree; the flag does not open it
Host == [provenance: {"signed", "unsigned", "contradiction"},
         saddle: BOOLEAN,     \* _detect_saddle binds a host adapter
         rules: BOOLEAN,      \* the imprint rules bundle is in the clone
         healthy: BOOLEAN]    \* templates load, probes answer, node is ALIVE

\* operator-root.pub.json: whose key, and status "active" or "dry-run".
RootPub == [key: 1..MaxRuns, status: {"active", "dry-run"}]

\* The identity repository.  epochs counts stand-down epochs after the birth;
\* consent holds one event per G4; founding is {} or who answered G5.
Consent  == [real: BOOLEAN, given: BOOLEAN, attended: BOOLEAN]
Identity == [node: 0..MaxRuns, epochs: 0..MaxEpochs, consent: Seq(Consent),
             founding: SUBSET [real: BOOLEAN, run: 1..MaxRuns]]

\* A row; from is 8 where the code writes "-".
Row == [from: Phases \cup {8}, to: Phases, verdict: Outcomes, real: BOOLEAN]

NoRun == [at |-> "off", phase |-> 0, done |-> {}, prev |-> 8,
          verdict |-> "HALT", dry |-> FALSE, dev |-> FALSE,
          attended |-> FALSE, bound |-> FALSE, key |-> 0]

Init ==
    /\ host \in Host
    /\ journal = <<>> /\ marker = FALSE /\ rootPub = {} /\ cfgBound = FALSE
    /\ token = FALSE /\ tagout = "none"
    /\ keys = {} /\ identity = {}
    /\ run = NoRun
    /\ minted = 0 /\ runs = 0 /\ crashes = 0

\* Mutant of Completed: any row counts.
CompletedAny == {k \in Phases : \E n \in DOMAIN journal : journal[n].to = k}

\* Journal.completed: the phases with a row that is not blocking.
Completed ==
    {k \in Phases : \E n \in DOMAIN journal :
        journal[n].to = k /\ journal[n].verdict \notin Blocking}

\* Mutant of Later: the loop ends one phase early.
LaterOffByOne(k, done) == {j \in Phases : j >= k /\ j < 7 /\ j \notin done}

\* The phases the driver has still to run, from k on.
Later(k, done) == {j \in Phases : j >= k /\ j \notin done}
First(S)       == CHOOSE j \in S : \A i \in S : j <= i

\* A phase function returns a verdict, or raises Halt.
Verdict(v) == run' = [run EXCEPT !.at = "journal", !.verdict = v]
Running(k) == run.at = "phase" /\ run.phase = k
----------------------------------------------------------------------------
(* The command                                                             *)

\* run_genesis: the flags are read, the identity repository resolved, the
\* journal folded when resuming; a stood-down node starts nothing.
Start(dry, resume, dev, attended, arg) ==
    /\ run.at = "off"
    /\ runs < MaxRuns
    /\ runs' = runs + 1
    /\ LET done == IF resume THEN Completed ELSE {}
           todo == Later(0, done)
       IN  run' = IF marker THEN NoRun
                  ELSE IF todo = {} THEN [NoRun EXCEPT !.at = "over", !.done = done,
                                                       !.dry = dry]
                  ELSE [NoRun EXCEPT !.at = "phase", !.phase = First(todo),
                           !.done = done, !.dry = dry, !.dev = dev,
                           !.attended = attended, !.bound = arg \/ cfgBound,
                           !.prev = IF done = {} THEN 8
                                    ELSE CHOOSE j \in done : \A i \in done : i <= j]
    /\ UNCHANGED <<host, nodeFiles, keys, identity, minted, crashes>>

\* The driver appends the transition and goes on, or stops on a blocking one.
AppendRow ==
    /\ run.at = "journal"
    /\ journal' = Append(journal, [from |-> run.prev, to |-> run.phase,
                                   verdict |-> run.verdict, real |-> ~run.dry])
    /\ run' = IF run.verdict \in Blocking THEN NoRun
              ELSE IF Later(run.phase + 1, run.done) = {}
                THEN [run EXCEPT !.at = "over", !.prev = run.phase]
              ELSE [run EXCEPT !.at = "phase", !.prev = run.phase,
                               !.phase = First(Later(run.phase + 1, run.done))]
    /\ UNCHANGED <<host, marker, rootPub, cfgBound, token, tagout, keys,
                   identity, counters>>

\* The command has printed its final state.
Finish ==
    /\ run.at = "over"
    /\ run' = NoRun
    /\ UNCHANGED <<host, nodeFiles, keys, identity, counters>>

\* The command dies between two of its writes.
Crash ==
    /\ run.at \in {"phase", "passphrase", "journal"}
    /\ crashes < MaxCrashes
    /\ crashes' = crashes + 1
    /\ run' = NoRun
    /\ UNCHANGED <<host, nodeFiles, keys, identity, minted, runs>>
----------------------------------------------------------------------------
(* The phases                                                              *)

\* Mutant of GateOpens: nobody checks the terminal.
GateOpensAlways == TRUE

\* _gate: a dry run is answered for; a real run needs an attended terminal.
GateOpens == run.dry \/ run.attended

\* Mutant of Blocks: the flag opens a contradiction too.
BlocksDevOpens == host.provenance # "signed" /\ ~run.dev

\* ProvenanceRecord.blocking.
Blocks == \/ host.provenance = "contradiction"
          \/ host.provenance = "unsigned" /\ ~run.dev

\* A gate that cannot be answered (unattended, EOF) or is answered with
\* something the phase refuses: OperatorGateRequired or Halt.
GateHalts(k) ==
    /\ Running(k)
    /\ ~run.dry
    /\ k = 1 => run.dev /\ ~Blocks
    /\ Verdict("HALT")
    /\ UNCHANGED <<host, nodeFiles, keys, identity, counters>>

\* g0_substrate.
G0 ==
    /\ Running(0)
    /\ Verdict(IF host.saddle THEN "PASS" ELSE IF run.dry THEN "WARN" ELSE "HALT")
    /\ UNCHANGED <<host, nodeFiles, keys, identity, counters>>

\* _write_dev_tagout: the entry's id carries the date; create_entry refuses an
\* id that exists (the same day), and the refusal is only a note.
DevTagout == tagout' \in IF tagout = "none" THEN {"out"} ELSE {tagout, "out"}

\* g1_provenance.  The flag asks for the typed phrase, opens the tagout and
\* turns the verdict into WARN, on a signed clone too.
G1 ==
    /\ Running(1)
    /\ IF Blocks THEN Verdict("HALT") /\ UNCHANGED tagout
       ELSE IF run.dev THEN GateOpens /\ Verdict("WARN") /\ DevTagout
       ELSE Verdict("PASS") /\ UNCHANGED tagout
    /\ UNCHANGED <<host, journal, marker, rootPub, cfgBound, token, keys,
                   identity, counters>>

\* g2_keys up to the passphrase: the key pair is minted, the storage and the
\* label asked, and the public records written.
G2Publish ==
    /\ Running(2)
    /\ GateOpens
    /\ minted' = minted + 1
    /\ rootPub' = {[key |-> minted', status |-> IF run.dry THEN "dry-run" ELSE "active"]}
    /\ run' = [run EXCEPT !.at = IF run.dry THEN "journal" ELSE "passphrase",
                          !.verdict = "PASS", !.key = minted']
    /\ UNCHANGED <<host, journal, marker, cfgBound, token, tagout, keys,
                   identity, runs, crashes>>

\* g2_keys on a real run: the passphrase is read, the private key written,
\* and the gateway token minted if the operator says yes.
G2Persist ==
    /\ run.at = "passphrase"
    /\ keys' = keys \cup {run.key}
    /\ token' \in {token, TRUE}
    /\ Verdict("PASS")
    /\ UNCHANGED <<host, journal, marker, rootPub, cfgBound, tagout, identity,
                   counters>>

\* _read_passphrase: end of input, a mismatch or an empty passphrase.
G2NoPassphrase ==
    /\ run.at = "passphrase"
    /\ Verdict("HALT")
    /\ UNCHANGED <<host, nodeFiles, keys, identity, counters>>

\* create_identity_skeleton: every call writes MANIFEST.yaml, identity.yaml and
\* epochs.yaml anew; the other members only when they are missing.
Skeleton ==
    LET kept == IF identity = {}
                  THEN [consent |-> <<>>, founding |-> {}]
                  ELSE CHOOSE d \in {[consent |-> i.consent,
                                      founding |-> i.founding] : i \in identity} : TRUE
    IN  {[node |-> run.key, epochs |-> 0, consent |-> kept.consent,
          founding |-> kept.founding]}

\* create_organs halts with no identity repository bound, or with no rules
\* bundle to copy; the organs themselves are only made where they are missing.
OrgansHalt == ~run.bound \/ ~host.rules

\* g3_organs.
G3 ==
    /\ Running(3)
    /\ IF OrgansHalt THEN Verdict("HALT") /\ UNCHANGED <<identity, cfgBound>>
       ELSE /\ identity' = Skeleton
            /\ cfgBound' = TRUE
            /\ Verdict(IF host.healthy THEN "PASS" ELSE "WARN")
    /\ UNCHANGED <<host, journal, marker, rootPub, token, tagout, keys, counters>>

\* The repository the phases after G3 write in.
Repo == CHOOSE i \in identity : TRUE

\* g4_consent: the event, given or withheld, is appended to the prior ones.
G4 ==
    /\ Running(4)
    /\ GateOpens
    /\ \E given \in (IF run.dry THEN {TRUE} ELSE BOOLEAN) :
          identity' = {[Repo EXCEPT !.consent = Append(@,
              [real |-> ~run.dry, given |-> given, attended |-> run.attended])]}
    /\ Verdict("PASS")
    /\ UNCHANGED <<host, nodeFiles, keys, counters>>

\* g5_founding: the file is replaced by this run's answers.
G5 ==
    /\ Running(5)
    /\ GateOpens
    /\ identity' = {[Repo EXCEPT !.founding = {[real |-> ~run.dry, run |-> runs]}]}
    /\ Verdict("PASS")
    /\ UNCHANGED <<host, nodeFiles, keys, counters>>

\* g6_alignment: the stage plan at zero rulings; the twin directory is made.
G6 ==
    /\ Running(6)
    /\ identity' = {Repo}
    /\ Verdict(IF host.healthy THEN "PASS" ELSE "WARN")
    /\ UNCHANGED <<host, nodeFiles, keys, counters>>

\* g7_online: the certificate's verdict decides the phase's.
G7 ==
    /\ Running(7)
    /\ \/ Verdict(IF marker \/ ~host.healthy THEN "WARN" ELSE "PASS")
       \/ ~marker /\ ~host.healthy /\ Verdict("REFUSE")
    /\ UNCHANGED <<host, nodeFiles, keys, identity, counters>>
----------------------------------------------------------------------------
(* The other commands and the operator's own acts                          *)

\* stand_down: the marker first, then, if it was not there and an identity
\* repository is configured, one epoch.
StandDown ==
    /\ \E i \in identity : i.epochs < MaxEpochs
    /\ marker' = TRUE
    /\ identity' = IF marker \/ ~cfgBound THEN identity
                   ELSE {[i EXCEPT !.epochs = @ + 1] : i \in identity}
    /\ UNCHANGED <<host, journal, rootPub, cfgBound, token, tagout, keys, run,
                   counters>>

\* stand_down before there is an identity repository, or dying before it
\* records the epoch.
StandDownMarkerOnly ==
    /\ ~marker
    /\ marker' = TRUE
    /\ UNCHANGED <<host, journal, rootPub, cfgBound, token, tagout, keys,
                   identity, run, counters>>

\* The operator deletes the marker file: not a command.
DeleteMarker ==
    /\ marker
    /\ marker' = FALSE
    /\ UNCHANGED <<host, journal, rootPub, cfgBound, token, tagout, keys,
                   identity, run, counters>>

\* The operator closes the unsigned-development tagout.
CloseTagout ==
    /\ tagout = "out"
    /\ tagout' = "in"
    /\ UNCHANGED <<host, journal, marker, rootPub, cfgBound, token, keys,
                   identity, run, counters>>

\* Mutant of Rollback: the consent record is not looked for.
RollbackUnchecked(named) ==
    /\ run.at = "off"
    /\ 4 \notin Completed
    /\ journal' = <<>> /\ marker' = FALSE /\ rootPub' = {} /\ cfgBound' = FALSE
    /\ token' = FALSE /\ tagout' = "none"
    /\ identity' = IF named THEN {} ELSE identity
    /\ UNCHANGED <<host, keys, run, counters>>

\* genesis --rollback G3.  .intentops goes, with everything in it; the identity
\* repository goes if it is named and holds no consent record.
Rollback(named) ==
    /\ run.at = "off"
    /\ 4 \notin Completed
    /\ journal' = <<>> /\ marker' = FALSE /\ rootPub' = {} /\ cfgBound' = FALSE
    /\ token' = FALSE /\ tagout' = "none"
    /\ identity' = IF named THEN {i \in identity : i.consent # <<>>} ELSE identity
    /\ UNCHANGED <<host, keys, run, counters>>

Next ==
    \/ \E dry, resume, dev, attended, arg \in BOOLEAN :
          Start(dry, resume, dev, attended, arg)
    \/ AppendRow
    \/ Finish
    \/ Crash
    \/ \E k \in {1, 2, 4, 5} : GateHalts(k)
    \/ G0
    \/ G1
    \/ G2Publish
    \/ G2Persist
    \/ G2NoPassphrase
    \/ G3
    \/ G4
    \/ G5
    \/ G6
    \/ G7
    \/ StandDown
    \/ StandDownMarkerOnly
    \/ DeleteMarker
    \/ CloseTagout
    \/ \E named \in BOOLEAN : Rollback(named)

Spec == Init /\ [][Next]_vars
----------------------------------------------------------------------------
TypeOK ==
    /\ host \in Host
    /\ \A n \in DOMAIN journal : journal[n] \in Row
    /\ marker \in BOOLEAN /\ cfgBound \in BOOLEAN /\ token \in BOOLEAN
    /\ rootPub \subseteq RootPub /\ Cardinality(rootPub) <= 1
    /\ tagout \in {"none", "out", "in"}
    /\ keys \subseteq 1..MaxRuns
    /\ identity \subseteq Identity /\ Cardinality(identity) <= 1
    /\ run.at \in {"off", "phase", "passphrase", "journal", "over"}
    /\ run.phase \in Phases /\ run.done \subseteq Phases
    /\ minted \in 0..MaxRuns /\ runs \in 0..MaxRuns /\ crashes \in 0..MaxCrashes

\* Whatever commands were run, interrupted and resumed, a phase is on record as
\* passed only after every earlier phase was ("No phase silently degrades into
\* the next", run_genesis).
PhasesInOrder ==
    \A n \in DOMAIN journal : journal[n].verdict \notin Blocking =>
        \A k \in 0..(journal[n].to - 1) :
            \E m \in 1..(n - 1) :
                journal[m].to = k /\ journal[m].verdict \notin Blocking

\* A contradiction in the clone is never opened by the development flag, by a
\* dry run, by resuming or by rolling back: nothing after G1 ever happens.
ContradictionMintsNothing ==
    host.provenance = "contradiction" =>
        minted = 0 /\ keys = {} /\ identity = {} /\ ~token

\* A private key or a token reaches the disk, and a consent is recorded as the
\* operator's, only from a real run at an attended terminal, although only the
\* gate before them asks (_gate, g2_keys, g4_consent).
OperatorPresent ==
    [][/\ keys' # keys \/ (token' /\ ~token) => run.attended /\ ~run.dry
       /\ \A i \in identity' : \A n \in DOMAIN i.consent :
              i.consent[n].real => i.consent[n].attended]_vars

\* A command that reports its final state as G7 leaves a journal in which every
\* phase is complete.
OnlineMeansComplete == run.at = "over" => Completed = Phases

\* Consent events are never lost or rewritten: by a second run, a resume, a
\* rollback, or a command that died between the record and its journal row
\* (g4_consent, rollback).
ConsentKept ==
    [][\A i \in identity : i.consent # <<>> =>
          \E j \in identity' :
              /\ Len(j.consent) >= Len(i.consent)
              /\ SubSeq(j.consent, 1, Len(i.consent)) = i.consent]_vars

\* A birth goes phase by phase: none is on record before the ones under it, none
\* after a contradiction in the clone, and a node that reports G7 has them all.
BirthInOrder == PhasesInOrder /\ ContradictionMintsNothing /\ OnlineMeansComplete
=============================================================================
