--------------------------- MODULE GenesisProofs ----------------------------
(***************************************************************************)
(* Genesis for every number of commands, deaths and stand-downs: the       *)
(* journal's order, what a contradiction in the clone keeps from ever      *)
(* being made, and what only an operator at a terminal makes.              *)
(***************************************************************************)
EXTENDS Genesis, FiniteSetTheorems, SequenceTheorems, TLAPS

Places  == {"off", "phase", "passphrase", "journal", "over"}
Working == {"phase", "passphrase", "journal"}

Command == [at: Places, phase: Phases, done: SUBSET Phases, prev: Phases \cup {8},
            verdict: Outcomes, dry: BOOLEAN, dev: BOOLEAN, attended: BOOLEAN,
            bound: BOOLEAN, key: 0..MaxRuns]

\* At most one member.
One(S) == \A x, y \in S : x = y

Types ==
    /\ host \in Host
    /\ journal \in Seq(Row)
    /\ marker \in BOOLEAN /\ cfgBound \in BOOLEAN /\ token \in BOOLEAN
    /\ rootPub \subseteq RootPub /\ One(rootPub)
    /\ tagout \in {"none", "out", "in"}
    /\ keys \subseteq 1..MaxRuns
    /\ identity \subseteq Identity /\ One(identity)
    /\ run \in Command
    /\ minted \in 0..MaxRuns /\ runs \in 0..MaxRuns /\ crashes \in 0..MaxCrashes

\* The phases below the one at work are on record, and so are those a resumed
\* command took from the journal; a command at work has been counted.
RunInv ==
    /\ run.at \in Working =>
          /\ \A k \in Phases : k < run.phase => k \in Completed
          /\ run.done \subseteq Completed
    /\ run.at = "over" => Completed = Phases
    /\ run.at # "off" => runs >= 1

\* A command that has not published its root key yet has a key left to mint.
MintInv ==
    /\ minted <= runs
    /\ \/ run.at = "phase" /\ run.phase <= 2
       \/ run.at = "journal" /\ run.phase <= 1
       => minted < runs

\* A passphrase is only ever read by a real G2 at an attended terminal.
PassphraseInv ==
    run.at = "passphrase" =>
        run.phase = 2 /\ ~run.dry /\ run.attended /\ run.key \in 1..MaxRuns

\* G3 on record, or about to be, means that the identity repository is there.
OrgansInv ==
    /\ 3 \in Completed => identity # {}
    /\ run.at = "journal" /\ run.phase = 3 /\ run.verdict \notin Blocking => identity # {}

\* In a contradictory clone G1 is never on record, nor about to be.
ContradictionInv ==
    host.provenance = "contradiction" =>
        /\ minted = 0 /\ keys = {} /\ identity = {} /\ ~token
        /\ 1 \notin Completed
        /\ run.at = "journal" /\ run.phase = 1 => run.verdict = "HALT"

\* A consent recorded as the operator's was given at an attended terminal.
ConsentInv ==
    \A i \in identity : \A n \in DOMAIN i.consent :
        i.consent[n].real => i.consent[n].attended

IInv == Types /\ RunInv /\ PhasesInOrder /\ MintInv /\ PassphraseInv /\ OrgansInv
          /\ ContradictionInv /\ ConsentInv
----------------------------------------------------------------------------
\* The least of the phases a command has still to run (First), and the last of
\* those it has done.
LEMMA FirstIsLeast ==
    ASSUME NEW S \in SUBSET Phases, S # {}
    PROVE  First(S) \in S /\ \A i \in S : First(S) <= i
<1> USE DEF Phases
<1>1. ASSUME \A j \in S : \E i \in S : i < j
      PROVE  FALSE
    <2>1. 0 \notin S
        BY <1>1
    <2>2. 1 \notin S
        BY <1>1, <2>1
    <2>3. 2 \notin S
        BY <1>1, <2>1, <2>2
    <2>4. 3 \notin S
        BY <1>1, <2>1, <2>2, <2>3
    <2>5. 4 \notin S
        BY <1>1, <2>1, <2>2, <2>3, <2>4
    <2>6. 5 \notin S
        BY <1>1, <2>1, <2>2, <2>3, <2>4, <2>5
    <2>7. 6 \notin S /\ 7 \notin S
        BY <1>1, <2>1, <2>2, <2>3, <2>4, <2>5, <2>6
    <2>8. PICK x \in 0..7 : x \in S
        OBVIOUS
    <2> QED BY <2>1, <2>2, <2>3, <2>4, <2>5, <2>6, <2>7, <2>8
<1>2. \E j \in S : \A i \in S : j <= i
    BY <1>1
<1> QED BY <1>2 DEF First

LEMMA LastIsThere ==
    ASSUME NEW S \in SUBSET Phases, S # {}
    PROVE  (CHOOSE j \in S : \A i \in S : i <= j) \in S
<1> USE DEF Phases
<1>1. ASSUME \A j \in S : \E i \in S : i > j
      PROVE  FALSE
    <2>1. 7 \notin S
        BY <1>1
    <2>2. 6 \notin S
        BY <1>1, <2>1
    <2>3. 5 \notin S
        BY <1>1, <2>1, <2>2
    <2>4. 4 \notin S
        BY <1>1, <2>1, <2>2, <2>3
    <2>5. 3 \notin S
        BY <1>1, <2>1, <2>2, <2>3, <2>4
    <2>6. 2 \notin S
        BY <1>1, <2>1, <2>2, <2>3, <2>4, <2>5
    <2>7. 1 \notin S /\ 0 \notin S
        BY <1>1, <2>1, <2>2, <2>3, <2>4, <2>5, <2>6
    <2>8. PICK x \in 0..7 : x \in S
        OBVIOUS
    <2> QED BY <2>1, <2>2, <2>3, <2>4, <2>5, <2>6, <2>7, <2>8
<1>2. \E j \in S : \A i \in S : i <= j
    BY <1>1
<1> QED BY <1>2

\* What a resumed command starts with, and goes on to after a phase: the first
\* phase that is not done, with every phase in between done.
LEMMA NextPhase ==
    ASSUME NEW k \in 0..8, NEW done \in SUBSET Phases
    PROVE  /\ Later(k, done) \subseteq Phases
           /\ Later(k, done) # {} =>
                 /\ First(Later(k, done)) \in Phases \ done
                 /\ First(Later(k, done)) >= k
                 /\ \A j \in Phases : j >= k /\ j < First(Later(k, done)) => j \in done
           /\ Later(k, done) = {} => \A j \in Phases : j >= k => j \in done
<1>1. Later(k, done) \in SUBSET Phases
    BY DEF Later
<1>2. ASSUME Later(k, done) # {}
      PROVE  /\ First(Later(k, done)) \in Phases \ done
             /\ First(Later(k, done)) >= k
             /\ \A j \in Phases : j >= k /\ j < First(Later(k, done)) => j \in done
    <2> DEFINE f == First(Later(k, done))
    <2>1. f \in Later(k, done) /\ \A i \in Later(k, done) : f <= i
        BY <1>1, <1>2, FirstIsLeast
    <2> HIDE DEF f
    <2>2. f \in Phases \ done /\ f >= k /\ \A j \in Phases : j >= k /\ j < f => j \in done
        BY <2>1 DEF Later, Phases
    <2> QED BY <2>2 DEF f
<1>3. Later(k, done) = {} => \A j \in Phases : j >= k => j \in done
    BY DEF Later
<1> QED BY <1>1, <1>2, <1>3

\* The journal's fold: unchanged with the journal, and one phase more with a row
\* that is not blocking (Journal.completed, Journal.append).
LEMMA FoldKept == UNCHANGED journal => Completed' = Completed
BY DEF Completed

LEMMA FoldGrows ==
    ASSUME Types, AppendRow
    PROVE  Completed' = IF run.verdict \in Blocking THEN Completed ELSE Completed \cup {run.phase}
<1> DEFINE row == [from |-> run.prev, to |-> run.phase, verdict |-> run.verdict, real |-> ~run.dry]
<1>1. /\ run.prev \in Phases \cup {8} /\ run.phase \in Phases /\ run.verdict \in Outcomes
      /\ run.dry \in BOOLEAN
    BY DEF Types, Command
<1>2. row \in Row
    BY <1>1 DEF Row
<1>3. journal' = Append(journal, row)
    BY DEF AppendRow
<1>4. row.to = run.phase /\ row.verdict = run.verdict
    OBVIOUS
<1> HIDE DEF row
<1>5. /\ Len(journal) \in Nat /\ DOMAIN journal = 1..Len(journal)
      /\ DOMAIN journal' = 1..(Len(journal) + 1)
      /\ \A n \in DOMAIN journal : journal'[n] = journal[n]
      /\ journal'[Len(journal) + 1] = row
    BY <1>2, <1>3, AppendProperties DEF Types
<1>6. \A k \in Phases : k \in Completed' <=>
          k \in Completed \/ (k = run.phase /\ run.verdict \notin Blocking)
    BY <1>4, <1>5 DEF Completed
<1>7. Completed \subseteq Phases /\ Completed' \subseteq Phases
    BY DEF Completed
<1> QED BY <1>1, <1>6, <1>7

\* The commands the steps make of a well-formed one.
LEMMA CommandsTyped ==
    ASSUME NEW c \in Command
    PROVE  /\ \A at \in Places : [c EXCEPT !.at = at] \in Command
           /\ \A at \in Places, done \in SUBSET Phases, dry \in BOOLEAN :
                 [c EXCEPT !.at = at, !.done = done, !.dry = dry] \in Command
           /\ \A at \in Places, prev \in Phases \cup {8} : [c EXCEPT !.at = at, !.prev = prev] \in Command
           /\ \A at \in Places, prev \in Phases \cup {8}, phase \in Phases :
                 [c EXCEPT !.at = at, !.prev = prev, !.phase = phase] \in Command
           /\ \A at \in Places, v \in Outcomes, key \in 0..MaxRuns :
                 [c EXCEPT !.at = at, !.verdict = v, !.key = key] \in Command
<1> USE DEF Command
<1>1. \A at \in Places : [c EXCEPT !.at = at] \in Command
    OBVIOUS
<1>2. \A at \in Places, done \in SUBSET Phases, dry \in BOOLEAN :
         [c EXCEPT !.at = at, !.done = done, !.dry = dry] \in Command
    OBVIOUS
<1>3. \A at \in Places, prev \in Phases \cup {8} : [c EXCEPT !.at = at, !.prev = prev] \in Command
    OBVIOUS
<1>4. \A at \in Places, prev \in Phases \cup {8}, phase \in Phases :
         [c EXCEPT !.at = at, !.prev = prev, !.phase = phase] \in Command
    OBVIOUS
<1>5. \A at \in Places, v \in Outcomes, key \in 0..MaxRuns :
         [c EXCEPT !.at = at, !.verdict = v, !.key = key] \in Command
    OBVIOUS
<1> QED BY <1>1, <1>2, <1>3, <1>4, <1>5

\* A phase that gives its verdict leaves a command.
LEMMA VerdictTyped ==
    ASSUME run \in Command, NEW v \in Outcomes, Verdict(v)
    PROVE  run' \in Command
<1>1. run' = [run EXCEPT !.at = "journal", !.verdict = v]
    BY DEF Verdict
<1> QED BY <1>1 DEF Command, Places

\* create_identity_skeleton writes one repository, and from G4 on there is one.
LEMMA SkeletonTyped ==
    ASSUME Types
    PROVE  Skeleton \subseteq Identity /\ One(Skeleton)
<1> USE BoundsAssumption DEF Types
<1>1. CASE identity = {}
    BY <1>1 DEF Skeleton, Identity, Command, One
<1>2. CASE identity # {}
    <2> DEFINE S == {[consent |-> i.consent, founding |-> i.founding] : i \in identity}
               d == CHOOSE x \in S : TRUE
    <2>1. d \in S
        BY <1>2
    <2> HIDE DEF d
    <2>2. d.consent \in Seq(Consent) /\ d.founding \in SUBSET [real: BOOLEAN, run: 1..MaxRuns]
        BY <2>1 DEF Identity
    <2>3. Skeleton = {[node |-> run.key, epochs |-> 0, consent |-> d.consent, founding |-> d.founding]}
        BY <1>2 DEF Skeleton, d
    <2> QED BY <2>2, <2>3 DEF Identity, Command, One
<1> QED BY <1>1, <1>2

LEMMA RepoThere ==
    ASSUME Types, RunInv, OrgansInv, \E k \in 4..7 : Running(k)
    PROVE  Repo \in identity /\ Repo \in Identity /\ identity = {Repo}
<1>1. 3 \in Completed
    BY DEF Running, RunInv, Working, Phases
<1>2. identity # {}
    BY <1>1 DEF OrgansInv
<1>3. Repo \in identity
    BY <1>2 DEF Repo
<1> QED BY <1>3 DEF Types, One

LEMMA TypesStep == IInv /\ [Next]_vars => Types'
<1> SUFFICES ASSUME IInv, [Next]_vars
             PROVE  Types'
    OBVIOUS
<1> USE DEF Types, nodeFiles, counters
<1>. Types /\ RunInv /\ MintInv /\ PassphraseInv /\ OrgansInv
    BY DEF IInv
<1>a. run \in Command /\ cfgBound \in BOOLEAN
    OBVIOUS
<1>b. NoRun \in Command
    BY BoundsAssumption DEF NoRun, Command, Places, Phases, Outcomes
<1>c. \A v \in Outcomes : Verdict(v) => run' \in Command
    BY <1>a, VerdictTyped
<1>1. CASE UNCHANGED vars
    BY <1>1 DEF vars
<1>2. ASSUME NEW dry \in BOOLEAN, NEW resume \in BOOLEAN, NEW dev \in BOOLEAN, NEW attended \in BOOLEAN,
             NEW arg \in BOOLEAN, Start(dry, resume, dev, attended, arg)
      PROVE  Types'
    <2> DEFINE done == IF resume THEN Completed ELSE {}
               todo == Later(0, done)
               prev == IF done = {} THEN 8 ELSE CHOOSE j \in done : \A i \in done : i <= j
    <2>1. done \in SUBSET Phases
        BY DEF Completed
    <2>2. prev \in Phases \cup {8}
        BY <2>1, LastIsThere
    <2>3. todo # {} => First(todo) \in Phases
        BY <2>1, NextPhase
    <2>4. \/ run' = NoRun
          \/ run' = [NoRun EXCEPT !.at = "over", !.done = done, !.dry = dry]
          \/ /\ todo # {}
             /\ run' = [NoRun EXCEPT !.at = "phase", !.phase = First(todo), !.done = done,
                           !.dry = dry, !.dev = dev, !.attended = attended,
                           !.bound = arg \/ cfgBound, !.prev = prev]
        BY <1>2 DEF Start
    <2> HIDE DEF done, todo, prev
    <2>5. run' \in Command
        <3>1. CASE run' = NoRun
            BY <3>1, <1>b
        <3>2. CASE run' = [NoRun EXCEPT !.at = "over", !.done = done, !.dry = dry]
            BY <3>2, <2>1, <1>b, CommandsTyped DEF Places
        <3>3. CASE todo # {} /\ run' = [at |-> "phase", phase |-> First(todo), done |-> done, prev |-> prev,
                                        verdict |-> "HALT", dry |-> dry, dev |-> dev,
                                        attended |-> attended, bound |-> arg \/ cfgBound, key |-> 0]
            BY <3>3, <2>1, <2>2, <2>3, <1>a, BoundsAssumption DEF Command, Places, Outcomes
        <3> QED BY <2>4, <3>1, <3>2, <3>3 DEF NoRun
    <2>6. runs' \in 0..MaxRuns
        BY <1>2, BoundsAssumption DEF Start
    <2> QED BY <2>5, <2>6, <1>2 DEF Start
<1>3. ASSUME AppendRow
      PROVE  Types'
    <2> DEFINE row == [from |-> run.prev, to |-> run.phase, verdict |-> run.verdict, real |-> ~run.dry]
               next == Later(run.phase + 1, run.done)
    <2>1. row \in Row
        BY <1>a DEF Row, Command
    <2>2. journal' = Append(journal, row)
        BY <1>3 DEF AppendRow
    <2> HIDE DEF row
    <2>3. journal' \in Seq(Row)
        BY <2>1, <2>2, AppendProperties
    <2>a. run.phase + 1 \in 0..8 /\ run.done \in SUBSET Phases
        BY <1>a DEF Command, Phases
    <2>4. next # {} => First(next) \in Phases
        BY <2>a, NextPhase
    <2>5. \/ run' = NoRun
          \/ run' = [run EXCEPT !.at = "over", !.prev = run.phase]
          \/ next # {} /\ run' = [run EXCEPT !.at = "phase", !.prev = run.phase, !.phase = First(next)]
        BY <1>3 DEF AppendRow
    <2> HIDE DEF next
    <2>6. run' \in Command
        <3>1. CASE run' = NoRun
            BY <3>1, <1>b
        <3>2. CASE run' = [run EXCEPT !.at = "over", !.prev = run.phase]
            <4>1. run.phase \in Phases \cup {8} /\ "over" \in Places
                BY <1>a DEF Command, Places
            <4> QED BY <3>2, <4>1, <1>a, CommandsTyped
        <3>3. CASE next # {} /\ run' = [run EXCEPT !.at = "phase", !.prev = run.phase, !.phase = First(next)]
            <4>1. run.phase \in Phases \cup {8} /\ "phase" \in Places
                BY <1>a DEF Command, Places
            <4> QED BY <3>3, <4>1, <2>4, <1>a, CommandsTyped
        <3> QED BY <2>5, <3>1, <3>2, <3>3
    <2> QED BY <2>3, <2>6, <1>3 DEF AppendRow
<1>4. ASSUME Finish
      PROVE  Types'
    <2>1. NoRun \in Command
        BY <1>b
    <2> QED BY <2>1, <1>4, BoundsAssumption DEF Finish
<1>5. ASSUME Crash
      PROVE  Types'
    <2>1. NoRun \in Command
        BY <1>b
    <2> QED BY <2>1, <1>5, BoundsAssumption DEF Crash
<1>6. ASSUME NEW k \in {1, 2, 4, 5}, GateHalts(k)
      PROVE  Types'
    <2>1. run' \in Command
        BY <1>c, <1>6 DEF GateHalts, Outcomes
    <2> QED BY <2>1, <1>6 DEF GateHalts
<1>7. ASSUME G0
      PROVE  Types'
    <2>1. run' \in Command
        BY <1>c, <1>7 DEF G0, Outcomes
    <2> QED BY <2>1, <1>7 DEF G0
<1>8. ASSUME G1
      PROVE  Types'
    <2>1. run' \in Command
        BY <1>c, <1>8 DEF G1, Outcomes
    <2> QED BY <2>1, <1>8 DEF G1, DevTagout
<1>9. ASSUME G2Publish
      PROVE  Types'
    <2>1. minted' \in 1..MaxRuns /\ minted' = minted + 1
        BY <1>9, BoundsAssumption DEF G2Publish, Running, MintInv
    <2>2. run' \in Command
        <3> DEFINE at == IF run.dry THEN "journal" ELSE "passphrase"
        <3>1. run' = [run EXCEPT !.at = at, !.verdict = "PASS", !.key = minted']
            BY <1>9 DEF G2Publish
        <3>2. at \in Places /\ minted' \in 0..MaxRuns
            BY <2>1 DEF Places
        <3> HIDE DEF at
        <3> QED BY <3>1, <3>2, <1>a, CommandsTyped DEF Outcomes
    <2>3. rootPub' \subseteq RootPub /\ One(rootPub')
        BY <2>1, <1>9 DEF G2Publish, RootPub, One
    <2> QED BY <2>1, <2>2, <2>3, <1>9 DEF G2Publish
<1>10. ASSUME G2Persist
      PROVE  Types'
    <2>1. run' \in Command
        BY <1>c, <1>10 DEF G2Persist, Outcomes
    <2> QED BY <2>1, <1>10 DEF G2Persist, PassphraseInv
<1>11. ASSUME G2NoPassphrase
      PROVE  Types'
    <2>1. run' \in Command
        BY <1>c, <1>11 DEF G2NoPassphrase, Outcomes
    <2> QED BY <2>1, <1>11 DEF G2NoPassphrase
<1>12. ASSUME G3
      PROVE  Types'
    <2>1. run' \in Command
        BY <1>c, <1>12 DEF G3, Outcomes
    <2>2. Skeleton \subseteq Identity /\ One(Skeleton)
        BY SkeletonTyped
    <2> QED BY <2>1, <2>2, <1>12 DEF G3
<1>13. ASSUME G4
      PROVE  Types'
    <2>1. PICK given \in BOOLEAN :
             identity' = {[Repo EXCEPT !.consent = Append(@,
                 [real |-> ~run.dry, given |-> given, attended |-> run.attended])]}
        BY <1>13 DEF G4
    <2> DEFINE event == [real |-> ~run.dry, given |-> given, attended |-> run.attended]
               consent == Append(Repo.consent, event)
    <2>2. Repo \in Identity
        BY <1>13, RepoThere DEF G4
    <2>3. event \in Consent /\ Repo.consent \in Seq(Consent)
        BY <2>2, <1>a DEF Consent, Command, Identity
    <2> HIDE DEF event
    <2>4. consent \in Seq(Consent)
        BY <2>3, AppendProperties
    <2>5. identity' = {[Repo EXCEPT !.consent = consent]}
        BY <2>1 DEF event
    <2> HIDE DEF consent
    <2>6. [Repo EXCEPT !.consent = consent] \in Identity
        BY <2>2, <2>4 DEF Identity
    <2>7. run' \in Command
        BY <1>c, <1>13 DEF G4, Outcomes
    <2> QED BY <2>5, <2>6, <2>7, <1>13 DEF G4, One
<1>14. ASSUME G5
      PROVE  Types'
    <2>1. Repo \in Identity
        BY <1>14, RepoThere DEF G5
    <2>2. runs \in 1..MaxRuns
        BY <1>14, BoundsAssumption DEF G5, Running, RunInv
    <2> DEFINE f == {[real |-> ~run.dry, run |-> runs]}
    <2>3. f \in SUBSET [real: BOOLEAN, run: 1..MaxRuns]
        BY <2>2, <1>a DEF Command
    <2> HIDE DEF f
    <2>5. [Repo EXCEPT !.founding = f] \in Identity
        BY <2>1, <2>3 DEF Identity
    <2>6. identity' = {[Repo EXCEPT !.founding = f]}
        BY <1>14 DEF G5, f
    <2>4. run' \in Command
        BY <1>c, <1>14 DEF G5, Outcomes
    <2> QED BY <2>4, <2>5, <2>6, <1>14 DEF G5, One
<1>15. ASSUME G6
      PROVE  Types'
    <2>1. Repo \in Identity
        BY <1>15, RepoThere DEF G6
    <2>2. run' \in Command
        BY <1>c, <1>15 DEF G6, Outcomes
    <2> QED BY <2>1, <2>2, <1>15 DEF G6, One
<1>16. ASSUME G7
      PROVE  Types'
    <2>1. run' \in Command
        BY <1>c, <1>16 DEF G7, Outcomes
    <2> QED BY <2>1, <1>16 DEF G7
<1>17. ASSUME StandDown
      PROVE  Types'
    <2>1. \A i \in identity : i.epochs < MaxEpochs
        BY <1>17 DEF StandDown, One
    <2>2. \A i \in identity : [i EXCEPT !.epochs = @ + 1] \in Identity
        <3>1. ASSUME NEW i \in identity
              PROVE  [i EXCEPT !.epochs = @ + 1] \in Identity
            <4>1. i \in Identity /\ i.epochs + 1 \in 0..MaxEpochs
                BY <2>1, BoundsAssumption DEF Identity
            <4>2. \A e \in 0..MaxEpochs : [i EXCEPT !.epochs = e] \in Identity
                BY <4>1 DEF Identity
            <4> QED BY <4>1, <4>2
        <3> QED BY <3>1
    <2>3. identity' = identity \/ identity' = {[i EXCEPT !.epochs = @ + 1] : i \in identity}
        BY <1>17 DEF StandDown
    <2>4. identity' \subseteq Identity /\ One(identity')
        BY <2>2, <2>3 DEF One
    <2> QED BY <2>4, <1>17 DEF StandDown
<1>18. ASSUME StandDownMarkerOnly
      PROVE  Types'
    BY <1>18 DEF StandDownMarkerOnly
<1>19. ASSUME DeleteMarker
      PROVE  Types'
    BY <1>19 DEF DeleteMarker
<1>20. ASSUME CloseTagout
      PROVE  Types'
    BY <1>20 DEF CloseTagout
<1>21. ASSUME NEW named \in BOOLEAN, Rollback(named)
      PROVE  Types'
    <2>1. identity' \subseteq identity /\ journal' = <<>>
        BY <1>21 DEF Rollback
    <2>2. <<>> \in Seq(Row)
        OBVIOUS
    <2>3. One({})
        BY DEF One
    <2> QED BY <2>1, <2>2, <2>3, <1>21 DEF Rollback, One
<1> QED BY <1>1, <1>2, <1>3, <1>4, <1>5, <1>6, <1>7, <1>8, <1>9, <1>10, <1>11, <1>12, <1>13,
           <1>14, <1>15, <1>16, <1>17, <1>18, <1>19, <1>20, <1>21 DEF Next

\* A command goes on to a phase only over phases on record (run_genesis).
LEMMA RunStep == IInv /\ [Next]_vars => RunInv'
<1> SUFFICES ASSUME IInv, [Next]_vars
             PROVE  RunInv'
    OBVIOUS
<1> USE DEF nodeFiles, counters
<1>. IInv
    OBVIOUS
<1>a. run \in Command /\ Completed \in SUBSET Phases
    BY DEF IInv, Types, Completed
\* A step that touches neither the journal nor the command's place in it.
<1>d. ASSUME UNCHANGED <<journal, runs>>,
             \/ run'.at = "off"
             \/ /\ run'.phase = run.phase /\ run'.done = run.done
                /\ run.at \in Working /\ run'.at \in Working
             \/ run' = run
      PROVE  RunInv'
    BY <1>d, FoldKept DEF IInv, RunInv, Working
<1>1. CASE UNCHANGED vars
    BY <1>1, <1>d DEF vars
<1>2. ASSUME NEW dry \in BOOLEAN, NEW resume \in BOOLEAN, NEW dev \in BOOLEAN, NEW attended \in BOOLEAN,
             NEW arg \in BOOLEAN, Start(dry, resume, dev, attended, arg)
      PROVE  RunInv'
    <2> DEFINE done == IF resume THEN Completed ELSE {}
               todo == Later(0, done)
    <2>1. done \in SUBSET Completed /\ done \in SUBSET Phases
        BY <1>a
    <2>2. /\ todo # {} => First(todo) \in Phases /\ \A j \in Phases : j < First(todo) => j \in done
          /\ todo = {} => \A j \in Phases : j \in done
        BY <2>1, NextPhase DEF Phases
    <2>3. \/ run'.at = "off"
          \/ run'.at = "over" /\ run'.done = done /\ todo = {}
          \/ run'.at = "phase" /\ run'.done = done /\ todo # {} /\ run'.phase = First(todo)
        BY <1>2 DEF Start, NoRun
    <2> HIDE DEF done, todo
    <2>4. UNCHANGED journal /\ runs' = runs + 1 /\ runs \in Nat
        BY <1>2, BoundsAssumption DEF Start, IInv, Types
    <2>5. Completed' = Completed
        BY <2>4, FoldKept
    <2>6. run'.at = "over" => Completed = Phases
        BY <2>1, <2>2, <2>3, <1>a
    <2> QED BY <2>1, <2>2, <2>3, <2>4, <2>5, <2>6 DEF RunInv, Working
<1>3. ASSUME AppendRow
      PROVE  RunInv'
    <2> DEFINE next == Later(run.phase + 1, run.done)
    <2>1. run.phase \in Phases /\ run.phase + 1 \in 0..8 /\ run.done \in SUBSET Phases
        BY <1>a DEF Command, Phases
    <2>2. /\ next # {} => /\ First(next) \in Phases
                          /\ \A j \in Phases : j >= run.phase + 1 /\ j < First(next) => j \in run.done
          /\ next = {} => \A j \in Phases : j >= run.phase + 1 => j \in run.done
        BY <2>1, NextPhase
    <2>3. \/ run'.at = "off"
          \/ /\ run'.at = "over" /\ next = {} /\ run.verdict \notin Blocking
          \/ /\ run'.at = "phase" /\ next # {} /\ run.verdict \notin Blocking
             /\ run'.phase = First(next) /\ run'.done = run.done
        BY <1>3, <1>a DEF AppendRow, NoRun, Command
    <2> HIDE DEF next
    <2>4. Completed' = IF run.verdict \in Blocking THEN Completed ELSE Completed \cup {run.phase}
        BY <1>3, FoldGrows DEF IInv
    <2>5. /\ \A k \in Phases : k < run.phase => k \in Completed
          /\ run.done \subseteq Completed /\ runs' = runs /\ runs >= 1
        BY <1>3 DEF AppendRow, IInv, RunInv, Working
    <2>6. \A k \in Phases : k < run.phase \/ k = run.phase \/ k >= run.phase + 1
        BY <2>1 DEF Phases
    <2>7. run'.at = "over" => \A k \in Phases : k \in Completed'
        BY <2>2, <2>3, <2>4, <2>5, <2>6
    <2>8. run'.at = "phase" => \A k \in Phases : k < run'.phase => k \in Completed'
        BY <2>2, <2>3, <2>4, <2>5, <2>6
    <2>9. Completed' \subseteq Phases
        BY DEF Completed
    <2> QED BY <2>3, <2>4, <2>5, <2>7, <2>8, <2>9 DEF RunInv, Working
<1>4. ASSUME Finish
      PROVE  RunInv'
    BY <1>4, <1>a, <1>d DEF Finish, Command, NoRun, Working
<1>5. ASSUME Crash
      PROVE  RunInv'
    BY <1>5, <1>a, <1>d DEF Crash, Command, NoRun, Working
<1>6. ASSUME NEW k \in {1, 2, 4, 5}, GateHalts(k)
      PROVE  RunInv'
    BY <1>6, <1>a, <1>d DEF GateHalts, Verdict, Running, Command, NoRun, Working
<1>7. ASSUME G0
      PROVE  RunInv'
    BY <1>7, <1>a, <1>d DEF G0, Verdict, Running, Command, NoRun, Working
<1>8. ASSUME G1
      PROVE  RunInv'
    BY <1>8, <1>a, <1>d DEF G1, Verdict, Running, DevTagout, GateOpens, Command, NoRun, Working
<1>9. ASSUME G2Publish
      PROVE  RunInv'
    BY <1>9, <1>a, <1>d DEF G2Publish, Running, GateOpens, Command, NoRun, Working
<1>10. ASSUME G2Persist
      PROVE  RunInv'
    BY <1>10, <1>a, <1>d DEF G2Persist, Verdict, Command, NoRun, Working
<1>11. ASSUME G2NoPassphrase
      PROVE  RunInv'
    BY <1>11, <1>a, <1>d DEF G2NoPassphrase, Verdict, Command, NoRun, Working
<1>12. ASSUME G3
      PROVE  RunInv'
    BY <1>12, <1>a, <1>d DEF G3, Verdict, Running, OrgansHalt, Command, NoRun, Working
<1>13. ASSUME G4
      PROVE  RunInv'
    BY <1>13, <1>a, <1>d DEF G4, Verdict, Running, GateOpens, Command, NoRun, Working
<1>14. ASSUME G5
      PROVE  RunInv'
    BY <1>14, <1>a, <1>d DEF G5, Verdict, Running, GateOpens, Command, NoRun, Working
<1>15. ASSUME G6
      PROVE  RunInv'
    BY <1>15, <1>a, <1>d DEF G6, Verdict, Running, Command, NoRun, Working
<1>16. ASSUME G7
      PROVE  RunInv'
    BY <1>16, <1>a, <1>d DEF G7, Verdict, Running, Command, NoRun, Working
<1>17. ASSUME StandDown
      PROVE  RunInv'
    BY <1>17, <1>a, <1>d DEF StandDown, Command, NoRun, Working
<1>18. ASSUME StandDownMarkerOnly
      PROVE  RunInv'
    BY <1>18, <1>a, <1>d DEF StandDownMarkerOnly, Command, NoRun, Working
<1>19. ASSUME DeleteMarker
      PROVE  RunInv'
    BY <1>19, <1>a, <1>d DEF DeleteMarker, Command, NoRun, Working
<1>20. ASSUME CloseTagout
      PROVE  RunInv'
    BY <1>20, <1>a, <1>d DEF CloseTagout, Command, NoRun, Working
<1>21. ASSUME NEW named \in BOOLEAN, Rollback(named)
      PROVE  RunInv'
    <2>1. run' = run /\ run.at = "off" /\ runs' = runs
        BY <1>21 DEF Rollback
    <2> QED BY <2>1 DEF RunInv, Working
<1> QED BY <1>1, <1>2, <1>3, <1>4, <1>5, <1>6, <1>7, <1>8, <1>9, <1>10, <1>11, <1>12, <1>13,
           <1>14, <1>15, <1>16, <1>17, <1>18, <1>19, <1>20, <1>21 DEF Next

\* A row that is not blocking follows those of the phases below it.
LEMMA OrderStep == IInv /\ [Next]_vars => PhasesInOrder'
<1> SUFFICES ASSUME IInv, [Next]_vars
             PROVE  PhasesInOrder'
    OBVIOUS
<1> USE DEF nodeFiles, counters
<1>. IInv
    OBVIOUS
<1>a. run \in Command /\ Completed \in SUBSET Phases
    BY DEF IInv, Types, Completed
<1>d. ASSUME UNCHANGED journal
      PROVE  PhasesInOrder'
    BY <1>d DEF IInv, PhasesInOrder
<1>1. CASE UNCHANGED vars
    BY <1>1, <1>d DEF vars
<1>2. ASSUME NEW dry \in BOOLEAN, NEW resume \in BOOLEAN, NEW dev \in BOOLEAN, NEW attended \in BOOLEAN,
             NEW arg \in BOOLEAN, Start(dry, resume, dev, attended, arg)
      PROVE  PhasesInOrder'
    BY <1>2, <1>d DEF Start
<1>3. ASSUME AppendRow
      PROVE  PhasesInOrder'
    <2> DEFINE row == [from |-> run.prev, to |-> run.phase, verdict |-> run.verdict, real |-> ~run.dry]
    <2>1. row \in Row /\ row.to = run.phase /\ row.verdict = run.verdict
        BY <1>a DEF Command, Row
    <2>2. journal' = Append(journal, row)
        BY <1>3 DEF AppendRow
    <2> HIDE DEF row
    <2>3. /\ Len(journal) \in Nat /\ DOMAIN journal = 1..Len(journal)
          /\ DOMAIN journal' = 1..(Len(journal) + 1)
          /\ \A n \in DOMAIN journal : journal'[n] = journal[n] /\ journal[n].to \in Phases
          /\ journal'[Len(journal) + 1] = row
        <3>1. journal \in Seq(Row)
            BY DEF IInv, Types
        <3>2. /\ Len(journal) \in Nat /\ DOMAIN journal = 1..Len(journal)
              /\ DOMAIN journal' = 1..(Len(journal) + 1)
              /\ \A n \in DOMAIN journal : journal'[n] = journal[n]
              /\ journal'[Len(journal) + 1] = row
            BY <2>1, <2>2, <3>1, AppendProperties
        <3>3. \A n \in DOMAIN journal : journal[n].to \in Phases
            <4>1. \A n \in DOMAIN journal : journal[n] \in Row
                BY <3>1, <3>2, ElementOfSeq
            <4> QED BY <4>1 DEF Row
        <3> QED BY <3>2, <3>3
    <2>4. \A k \in Phases : k < run.phase =>
             \E m \in 1..Len(journal) : journal[m].to = k /\ journal[m].verdict \notin Blocking
        BY <2>3, <1>3 DEF AppendRow, IInv, RunInv, Working, Completed
    <2>5. \A k \in 0..(run.phase - 1) :
             \E m \in 1..Len(journal) : journal'[m].to = k /\ journal'[m].verdict \notin Blocking
        <3>1. run.phase \in Phases
            BY <1>a DEF Command
        <3>2. \A k \in 0..(run.phase - 1) : k \in Phases /\ k < run.phase
            BY <3>1 DEF Phases
        <3> QED BY <3>2, <2>3, <2>4
    <2>6. ASSUME NEW n \in DOMAIN journal, journal[n].verdict \notin Blocking, NEW k \in 0..(journal[n].to - 1)
          PROVE  \E m \in 1..(n - 1) : journal'[m].to = k /\ journal'[m].verdict \notin Blocking
        <3>1. PICK m \in 1..(n - 1) : journal[m].to = k /\ journal[m].verdict \notin Blocking
            BY <2>6 DEF IInv, PhasesInOrder
        <3>2. m \in DOMAIN journal
            BY <2>3, <2>6
        <3> QED BY <3>1, <3>2, <2>3
    <2>7. ASSUME NEW n \in DOMAIN journal', journal'[n].verdict \notin Blocking,
                 NEW k \in 0..(journal'[n].to - 1)
          PROVE  \E m \in 1..(n - 1) : journal'[m].to = k /\ journal'[m].verdict \notin Blocking
        <3>1. CASE n \in DOMAIN journal
            BY <3>1, <2>3, <2>6, <2>7
        <3>2. CASE n = Len(journal) + 1
            BY <3>2, <2>1, <2>3, <2>5
        <3> QED BY <3>1, <3>2, <2>3
    <2> QED BY <2>7 DEF PhasesInOrder
<1>4. ASSUME Finish
      PROVE  PhasesInOrder'
    BY <1>4, <1>d DEF Finish
<1>5. ASSUME Crash
      PROVE  PhasesInOrder'
    BY <1>5, <1>d DEF Crash
<1>6. ASSUME NEW k \in {1, 2, 4, 5}, GateHalts(k)
      PROVE  PhasesInOrder'
    BY <1>6, <1>d DEF GateHalts
<1>7. ASSUME G0
      PROVE  PhasesInOrder'
    BY <1>7, <1>d DEF G0
<1>8. ASSUME G1
      PROVE  PhasesInOrder'
    BY <1>8, <1>d DEF G1
<1>9. ASSUME G2Publish
      PROVE  PhasesInOrder'
    BY <1>9, <1>d DEF G2Publish
<1>10. ASSUME G2Persist
      PROVE  PhasesInOrder'
    BY <1>10, <1>d DEF G2Persist
<1>11. ASSUME G2NoPassphrase
      PROVE  PhasesInOrder'
    BY <1>11, <1>d DEF G2NoPassphrase
<1>12. ASSUME G3
      PROVE  PhasesInOrder'
    BY <1>12, <1>d DEF G3
<1>13. ASSUME G4
      PROVE  PhasesInOrder'
    BY <1>13, <1>d DEF G4
<1>14. ASSUME G5
      PROVE  PhasesInOrder'
    BY <1>14, <1>d DEF G5
<1>15. ASSUME G6
      PROVE  PhasesInOrder'
    BY <1>15, <1>d DEF G6
<1>16. ASSUME G7
      PROVE  PhasesInOrder'
    BY <1>16, <1>d DEF G7
<1>17. ASSUME StandDown
      PROVE  PhasesInOrder'
    BY <1>17, <1>d DEF StandDown
<1>18. ASSUME StandDownMarkerOnly
      PROVE  PhasesInOrder'
    BY <1>18, <1>d DEF StandDownMarkerOnly
<1>19. ASSUME DeleteMarker
      PROVE  PhasesInOrder'
    BY <1>19, <1>d DEF DeleteMarker
<1>20. ASSUME CloseTagout
      PROVE  PhasesInOrder'
    BY <1>20, <1>d DEF CloseTagout
<1>21. ASSUME NEW named \in BOOLEAN, Rollback(named)
      PROVE  PhasesInOrder'
    BY <1>21 DEF Rollback, PhasesInOrder
<1> QED BY <1>1, <1>2, <1>3, <1>4, <1>5, <1>6, <1>7, <1>8, <1>9, <1>10, <1>11, <1>12, <1>13,
           <1>14, <1>15, <1>16, <1>17, <1>18, <1>19, <1>20, <1>21 DEF Next

\* One command mints at most one key pair (g2_keys).
LEMMA MintStep == IInv /\ [Next]_vars => MintInv'
<1> SUFFICES ASSUME IInv, [Next]_vars
             PROVE  MintInv'
    OBVIOUS
<1> USE DEF nodeFiles, counters
<1>. IInv
    OBVIOUS
<1>a. run \in Command /\ Completed \in SUBSET Phases
    BY DEF IInv, Types, Completed
<1>d. ASSUME UNCHANGED <<minted, runs>>,
             \/ run'.at \in {"off", "over"}
             \/ run'.phase = run.phase /\ run.at = "phase" /\ run'.at \in {"phase", "journal"}
             \/ run' = run
      PROVE  MintInv'
    BY <1>a, <1>d DEF IInv, MintInv, Command, Phases
<1>1. CASE UNCHANGED vars
    BY <1>1, <1>d DEF vars
<1>2. ASSUME NEW dry \in BOOLEAN, NEW resume \in BOOLEAN, NEW dev \in BOOLEAN, NEW attended \in BOOLEAN,
             NEW arg \in BOOLEAN, Start(dry, resume, dev, attended, arg)
      PROVE  MintInv'
    <2>1. runs' = runs + 1 /\ minted' = minted /\ run'.at # "journal"
        BY <1>2 DEF Start, NoRun
    <2> QED BY <2>1, BoundsAssumption DEF IInv, Types, MintInv
<1>3. ASSUME AppendRow
      PROVE  MintInv'
    <2> DEFINE next == Later(run.phase + 1, run.done)
    <2>1. run.phase \in 0..7 /\ run.phase + 1 \in 0..8 /\ run.done \in SUBSET Phases
        BY <1>a DEF Command, Phases
    <2>2. next # {} => First(next) \in Phases /\ First(next) >= run.phase + 1
        BY <2>1, NextPhase
    <2>3. \/ run'.at \in {"off", "over"}
          \/ run'.at = "phase" /\ next # {} /\ run'.phase = First(next)
        BY <1>3, <1>a DEF AppendRow, NoRun, Command
    <2> HIDE DEF next
    <2>4. run.at = "journal" /\ UNCHANGED <<minted, runs>>
        BY <1>3 DEF AppendRow
    <2> QED BY <2>1, <2>2, <2>3, <2>4 DEF IInv, MintInv, Phases
<1>4. ASSUME Finish
      PROVE  MintInv'
    BY <1>4, <1>a, <1>d DEF Finish, Command, NoRun
<1>5. ASSUME Crash
      PROVE  MintInv'
    BY <1>5, <1>a, <1>d DEF Crash, Command, NoRun
<1>6. ASSUME NEW k \in {1, 2, 4, 5}, GateHalts(k)
      PROVE  MintInv'
    BY <1>6, <1>a, <1>d DEF GateHalts, Verdict, Running, Command, NoRun
<1>7. ASSUME G0
      PROVE  MintInv'
    BY <1>7, <1>a, <1>d DEF G0, Verdict, Running, Command, NoRun
<1>8. ASSUME G1
      PROVE  MintInv'
    BY <1>8, <1>a, <1>d DEF G1, Verdict, Running, DevTagout, GateOpens, Command, NoRun
<1>9. ASSUME G2Publish
      PROVE  MintInv'
    <2>1. minted < runs /\ minted' = minted + 1 /\ runs' = runs
        BY <1>9 DEF G2Publish, Running, IInv, MintInv
    <2>2. run'.at # "phase" /\ run'.phase = 2
        BY <1>9, <1>a DEF G2Publish, Running, Command
    <2> QED BY <2>1, <2>2, BoundsAssumption DEF IInv, Types, MintInv
<1>10. ASSUME G2Persist
      PROVE  MintInv'
    <2>1. run'.at = "journal" /\ run'.phase = 2
        BY <1>10, <1>a DEF G2Persist, Verdict, Command, IInv, PassphraseInv
    <2> QED BY <2>1, <1>10 DEF G2Persist, IInv, MintInv
<1>11. ASSUME G2NoPassphrase
      PROVE  MintInv'
    <2>1. run'.at = "journal" /\ run'.phase = 2
        BY <1>11, <1>a DEF G2NoPassphrase, Verdict, Command, IInv, PassphraseInv
    <2> QED BY <2>1, <1>11 DEF G2NoPassphrase, IInv, MintInv
<1>12. ASSUME G3
      PROVE  MintInv'
    BY <1>12, <1>a, <1>d DEF G3, Verdict, Running, OrgansHalt, Command, NoRun
<1>13. ASSUME G4
      PROVE  MintInv'
    BY <1>13, <1>a, <1>d DEF G4, Verdict, Running, GateOpens, Command, NoRun
<1>14. ASSUME G5
      PROVE  MintInv'
    BY <1>14, <1>a, <1>d DEF G5, Verdict, Running, GateOpens, Command, NoRun
<1>15. ASSUME G6
      PROVE  MintInv'
    BY <1>15, <1>a, <1>d DEF G6, Verdict, Running, Command, NoRun
<1>16. ASSUME G7
      PROVE  MintInv'
    BY <1>16, <1>a, <1>d DEF G7, Verdict, Running, Command, NoRun
<1>17. ASSUME StandDown
      PROVE  MintInv'
    BY <1>17, <1>a, <1>d DEF StandDown, Command, NoRun
<1>18. ASSUME StandDownMarkerOnly
      PROVE  MintInv'
    BY <1>18, <1>a, <1>d DEF StandDownMarkerOnly, Command, NoRun
<1>19. ASSUME DeleteMarker
      PROVE  MintInv'
    BY <1>19, <1>a, <1>d DEF DeleteMarker, Command, NoRun
<1>20. ASSUME CloseTagout
      PROVE  MintInv'
    BY <1>20, <1>a, <1>d DEF CloseTagout, Command, NoRun
<1>21. ASSUME NEW named \in BOOLEAN, Rollback(named)
      PROVE  MintInv'
    BY <1>21 DEF Rollback, IInv, MintInv
<1> QED BY <1>1, <1>2, <1>3, <1>4, <1>5, <1>6, <1>7, <1>8, <1>9, <1>10, <1>11, <1>12, <1>13,
           <1>14, <1>15, <1>16, <1>17, <1>18, <1>19, <1>20, <1>21 DEF Next

\* Only a real G2 at an attended terminal comes to the passphrase (_gate).
LEMMA PassphraseStep == IInv /\ [Next]_vars => PassphraseInv'
<1> SUFFICES ASSUME IInv, [Next]_vars
             PROVE  PassphraseInv'
    OBVIOUS
<1> USE DEF nodeFiles, counters
<1>. IInv
    OBVIOUS
<1>a. run \in Command /\ Completed \in SUBSET Phases
    BY DEF IInv, Types, Completed
<1>1. CASE UNCHANGED vars
    BY <1>1 DEF vars, IInv, PassphraseInv
<1>2. ASSUME NEW dry \in BOOLEAN, NEW resume \in BOOLEAN, NEW dev \in BOOLEAN, NEW attended \in BOOLEAN,
             NEW arg \in BOOLEAN, Start(dry, resume, dev, attended, arg)
      PROVE  PassphraseInv'
    BY <1>2 DEF Start, NoRun, PassphraseInv
<1>3. ASSUME AppendRow
      PROVE  PassphraseInv'
    BY <1>3, <1>a DEF AppendRow, Command, NoRun, IInv, PassphraseInv
<1>4. ASSUME Finish
      PROVE  PassphraseInv'
    BY <1>4, <1>a DEF Finish, Command, NoRun, IInv, PassphraseInv
<1>5. ASSUME Crash
      PROVE  PassphraseInv'
    BY <1>5, <1>a DEF Crash, Command, NoRun, IInv, PassphraseInv
<1>6. ASSUME NEW k \in {1, 2, 4, 5}, GateHalts(k)
      PROVE  PassphraseInv'
    BY <1>6, <1>a DEF GateHalts, Verdict, Running, Command, NoRun, IInv, PassphraseInv
<1>7. ASSUME G0
      PROVE  PassphraseInv'
    BY <1>7, <1>a DEF G0, Verdict, Running, Command, NoRun, IInv, PassphraseInv
<1>8. ASSUME G1
      PROVE  PassphraseInv'
    BY <1>8, <1>a DEF G1, Verdict, Running, DevTagout, GateOpens, Command, NoRun, IInv, PassphraseInv
<1>9. ASSUME G2Publish
      PROVE  PassphraseInv'
    <2>1. minted' = minted + 1 /\ minted \in 0..MaxRuns /\ minted < runs /\ runs \in 0..MaxRuns
        BY <1>9 DEF G2Publish, Running, IInv, MintInv, Types
    <2>2. minted' \in 1..MaxRuns
        BY <2>1, BoundsAssumption
    <2> QED BY <2>2, <1>9, <1>a DEF G2Publish, Running, GateOpens, Command, PassphraseInv
<1>10. ASSUME G2Persist
      PROVE  PassphraseInv'
    BY <1>10, <1>a DEF G2Persist, Verdict, Command, NoRun, IInv, PassphraseInv
<1>11. ASSUME G2NoPassphrase
      PROVE  PassphraseInv'
    BY <1>11, <1>a DEF G2NoPassphrase, Verdict, Command, NoRun, IInv, PassphraseInv
<1>12. ASSUME G3
      PROVE  PassphraseInv'
    BY <1>12, <1>a DEF G3, Verdict, Running, OrgansHalt, Command, NoRun, IInv, PassphraseInv
<1>13. ASSUME G4
      PROVE  PassphraseInv'
    BY <1>13, <1>a DEF G4, Verdict, Running, GateOpens, Command, NoRun, IInv, PassphraseInv
<1>14. ASSUME G5
      PROVE  PassphraseInv'
    BY <1>14, <1>a DEF G5, Verdict, Running, GateOpens, Command, NoRun, IInv, PassphraseInv
<1>15. ASSUME G6
      PROVE  PassphraseInv'
    BY <1>15, <1>a DEF G6, Verdict, Running, Command, NoRun, IInv, PassphraseInv
<1>16. ASSUME G7
      PROVE  PassphraseInv'
    BY <1>16, <1>a DEF G7, Verdict, Running, Command, NoRun, IInv, PassphraseInv
<1>17. ASSUME StandDown
      PROVE  PassphraseInv'
    BY <1>17, <1>a DEF StandDown, Command, NoRun, IInv, PassphraseInv
<1>18. ASSUME StandDownMarkerOnly
      PROVE  PassphraseInv'
    BY <1>18, <1>a DEF StandDownMarkerOnly, Command, NoRun, IInv, PassphraseInv
<1>19. ASSUME DeleteMarker
      PROVE  PassphraseInv'
    BY <1>19, <1>a DEF DeleteMarker, Command, NoRun, IInv, PassphraseInv
<1>20. ASSUME CloseTagout
      PROVE  PassphraseInv'
    BY <1>20, <1>a DEF CloseTagout, Command, NoRun, IInv, PassphraseInv
<1>21. ASSUME NEW named \in BOOLEAN, Rollback(named)
      PROVE  PassphraseInv'
    BY <1>21, <1>a DEF Rollback, Command, NoRun, IInv, PassphraseInv
<1> QED BY <1>1, <1>2, <1>3, <1>4, <1>5, <1>6, <1>7, <1>8, <1>9, <1>10, <1>11, <1>12, <1>13,
           <1>14, <1>15, <1>16, <1>17, <1>18, <1>19, <1>20, <1>21 DEF Next

\* Nothing takes the identity repository away while G3 is on record (g3_organs,
\* rollback).
LEMMA OrgansStep == IInv /\ [Next]_vars => OrgansInv'
<1> SUFFICES ASSUME IInv, [Next]_vars
             PROVE  OrgansInv'
    OBVIOUS
<1> USE DEF nodeFiles, counters
<1>. IInv
    OBVIOUS
<1>a. run \in Command /\ Completed \in SUBSET Phases
    BY DEF IInv, Types, Completed
<1>d. ASSUME UNCHANGED journal, identity # {} => identity' # {},
             \/ run'.at # "journal"
             \/ run'.phase # 3
             \/ run'.verdict \in Blocking
             \/ run' = run
      PROVE  OrgansInv'
    BY <1>d, FoldKept DEF IInv, OrgansInv
<1>1. CASE UNCHANGED vars
    BY <1>1, <1>d DEF vars
<1>2. ASSUME NEW dry \in BOOLEAN, NEW resume \in BOOLEAN, NEW dev \in BOOLEAN, NEW attended \in BOOLEAN,
             NEW arg \in BOOLEAN, Start(dry, resume, dev, attended, arg)
      PROVE  OrgansInv'
    <2>1. run'.at # "journal" /\ UNCHANGED <<journal, identity>>
        BY <1>2 DEF Start, NoRun
    <2> QED BY <2>1, <1>d
<1>3. ASSUME AppendRow
      PROVE  OrgansInv'
    <2>1. Completed' = IF run.verdict \in Blocking THEN Completed ELSE Completed \cup {run.phase}
        BY <1>3, FoldGrows DEF IInv, Types
    <2>2. run'.at # "journal" /\ identity' = identity /\ run.at = "journal"
        BY <1>3, <1>a DEF AppendRow, NoRun, Command
    <2> QED BY <2>1, <2>2 DEF IInv, OrgansInv
<1>4. ASSUME Finish
      PROVE  OrgansInv'
    BY <1>4, <1>a, <1>d DEF Finish, Command, NoRun
<1>5. ASSUME Crash
      PROVE  OrgansInv'
    BY <1>5, <1>a, <1>d DEF Crash, Command, NoRun
<1>6. ASSUME NEW k \in {1, 2, 4, 5}, GateHalts(k)
      PROVE  OrgansInv'
    <2>1. UNCHANGED <<journal, identity>> /\ (run'.phase = 3 => run'.verdict = "HALT")
        BY <1>6, <1>a DEF GateHalts, Verdict, Running, Command, IInv, PassphraseInv
    <2> QED BY <2>1, <1>d DEF Blocking
<1>7. ASSUME G0
      PROVE  OrgansInv'
    <2>1. UNCHANGED <<journal, identity>> /\ (run'.phase = 3 => run'.verdict = "HALT")
        BY <1>7, <1>a DEF G0, Verdict, Running, Command, IInv, PassphraseInv
    <2> QED BY <2>1, <1>d DEF Blocking
<1>8. ASSUME G1
      PROVE  OrgansInv'
    <2>1. PICK v : Verdict(v)
        BY <1>8 DEF G1
    <2>2. UNCHANGED <<journal, identity>> /\ run.phase = 1
        BY <1>8 DEF G1, Running
    <2> QED BY <2>1, <2>2, <1>a, <1>d DEF Verdict, Command
<1>9. ASSUME G2Publish
      PROVE  OrgansInv'
    <2>1. UNCHANGED <<journal, identity>> /\ (run'.phase = 3 => run'.verdict = "HALT")
        BY <1>9, <1>a DEF G2Publish, Running, GateOpens, Command, IInv, PassphraseInv
    <2> QED BY <2>1, <1>d DEF Blocking
<1>10. ASSUME G2Persist
      PROVE  OrgansInv'
    <2>1. UNCHANGED <<journal, identity>> /\ (run'.phase = 3 => run'.verdict = "HALT")
        BY <1>10, <1>a DEF G2Persist, Verdict, Command, IInv, PassphraseInv
    <2> QED BY <2>1, <1>d DEF Blocking
<1>11. ASSUME G2NoPassphrase
      PROVE  OrgansInv'
    <2>1. UNCHANGED <<journal, identity>> /\ (run'.phase = 3 => run'.verdict = "HALT")
        BY <1>11, <1>a DEF G2NoPassphrase, Verdict, Command, IInv, PassphraseInv
    <2> QED BY <2>1, <1>d DEF Blocking
<1>12. ASSUME G3
      PROVE  OrgansInv'
    <2>1. /\ run'.at = "journal" /\ run'.verdict = "HALT" /\ UNCHANGED identity
          \/ identity' = Skeleton
        BY <1>12, <1>a DEF G3, Verdict, Command
    <2>2. Skeleton # {}
        BY DEF Skeleton
    <2>3. UNCHANGED journal
        BY <1>12 DEF G3
    <2> QED BY <2>1, <2>2, <2>3, <1>d, FoldKept DEF OrgansInv, Blocking
<1>13. ASSUME G4
      PROVE  OrgansInv'
    <2>1. UNCHANGED journal /\ identity' # {} /\ run'.phase # 3
        BY <1>13, <1>a DEF G4, Verdict, Running, GateOpens, Command
    <2> QED BY <2>1, <1>d
<1>14. ASSUME G5
      PROVE  OrgansInv'
    <2>1. UNCHANGED journal /\ identity' # {} /\ run'.phase # 3
        BY <1>14, <1>a DEF G5, Verdict, Running, GateOpens, Command
    <2> QED BY <2>1, <1>d
<1>15. ASSUME G6
      PROVE  OrgansInv'
    <2>1. UNCHANGED journal /\ identity' # {} /\ run'.phase # 3
        BY <1>15, <1>a DEF G6, Verdict, Running, Command
    <2> QED BY <2>1, <1>d
<1>16. ASSUME G7
      PROVE  OrgansInv'
    <2>1. PICK v : Verdict(v)
        BY <1>16 DEF G7
    <2>2. UNCHANGED <<journal, identity>> /\ run.phase = 7
        BY <1>16 DEF G7, Running
    <2> QED BY <2>1, <2>2, <1>a, <1>d DEF Verdict, Command
<1>17. ASSUME StandDown
      PROVE  OrgansInv'
    <2>1. identity' = identity \/ identity' = {[i EXCEPT !.epochs = @ + 1] : i \in identity}
        BY <1>17 DEF StandDown
    <2>2. UNCHANGED <<journal, run>> /\ (identity # {} => identity' # {})
        BY <2>1, <1>17 DEF StandDown
    <2> QED BY <2>2, <1>d
<1>18. ASSUME StandDownMarkerOnly
      PROVE  OrgansInv'
    BY <1>18, <1>a, <1>d DEF StandDownMarkerOnly, Command, NoRun
<1>19. ASSUME DeleteMarker
      PROVE  OrgansInv'
    BY <1>19, <1>a, <1>d DEF DeleteMarker, Command, NoRun
<1>20. ASSUME CloseTagout
      PROVE  OrgansInv'
    BY <1>20, <1>a, <1>d DEF CloseTagout, Command, NoRun
<1>21. ASSUME NEW named \in BOOLEAN, Rollback(named)
      PROVE  OrgansInv'
    <2>1. run' = run /\ run.at = "off"
        BY <1>21 DEF Rollback
    <2>2. Completed' = {}
        BY <1>21 DEF Rollback, Completed
    <2> QED BY <2>1, <2>2 DEF OrgansInv
<1> QED BY <1>1, <1>2, <1>3, <1>4, <1>5, <1>6, <1>7, <1>8, <1>9, <1>10, <1>11, <1>12, <1>13,
           <1>14, <1>15, <1>16, <1>17, <1>18, <1>19, <1>20, <1>21 DEF Next

\* A contradictory clone never comes past G1: the flag does not open it (Blocks).
LEMMA ContradictionStep == IInv /\ [Next]_vars => ContradictionInv'
<1> SUFFICES ASSUME IInv, [Next]_vars
             PROVE  ContradictionInv'
    OBVIOUS
<1> USE DEF nodeFiles, counters
<1>. IInv
    OBVIOUS
<1>a. run \in Command /\ Completed \in SUBSET Phases
    BY DEF IInv, Types, Completed
<1>d. ASSUME UNCHANGED <<host, journal, minted, keys, identity, token>>,
             run'.at # "journal" \/ run'.phase # 1 \/ run' = run
      PROVE  ContradictionInv'
    BY <1>d, FoldKept DEF IInv, ContradictionInv
<1>e. run.at \in {"phase", "passphrase"} /\ run.phase >= 2 => host.provenance # "contradiction"
    <2>1. run.at \in {"phase", "passphrase"} /\ run.phase >= 2 => 1 \in Completed
        BY <1>a DEF Command, IInv, RunInv, Working, Phases
    <2> QED BY <2>1 DEF IInv, ContradictionInv
<1>1. CASE UNCHANGED vars
    BY <1>1, <1>d DEF vars
<1>2. ASSUME NEW dry \in BOOLEAN, NEW resume \in BOOLEAN, NEW dev \in BOOLEAN, NEW attended \in BOOLEAN,
             NEW arg \in BOOLEAN, Start(dry, resume, dev, attended, arg)
      PROVE  ContradictionInv'
    <2>1. run'.at # "journal" /\ UNCHANGED <<host, journal, minted, keys, identity, token>>
        BY <1>2 DEF Start, NoRun
    <2> QED BY <2>1, <1>d
<1>3. ASSUME AppendRow
      PROVE  ContradictionInv'
    <2>1. Completed' = IF run.verdict \in Blocking THEN Completed ELSE Completed \cup {run.phase}
        BY <1>3, FoldGrows DEF IInv, Types
    <2>2. /\ run'.at # "journal" /\ UNCHANGED <<host, minted, keys, identity, token>>
          /\ run.at = "journal"
        BY <1>3, <1>a DEF AppendRow, NoRun, Command
    <2> QED BY <2>1, <2>2 DEF IInv, ContradictionInv, Blocking
<1>4. ASSUME Finish
      PROVE  ContradictionInv'
    BY <1>4, <1>a, <1>d DEF Finish, Command, NoRun
<1>5. ASSUME Crash
      PROVE  ContradictionInv'
    BY <1>5, <1>a, <1>d DEF Crash, Command, NoRun
<1>6. ASSUME NEW k \in {1, 2, 4, 5}, GateHalts(k)
      PROVE  ContradictionInv'
    <2>1. UNCHANGED <<host, journal, minted, keys, identity, token>>
        BY <1>6 DEF GateHalts
    <2>2. run'.verdict = "HALT"
        BY <1>6, <1>a DEF GateHalts, Verdict, Command
    <2> QED BY <2>1, <2>2, FoldKept DEF IInv, ContradictionInv
<1>7. ASSUME G0
      PROVE  ContradictionInv'
    <2>1. UNCHANGED <<host, journal, minted, keys, identity, token>> /\ run.phase = 0
        BY <1>7 DEF G0, Running
    <2>2. PICK v : Verdict(v)
        BY <1>7 DEF G0
    <2> QED BY <2>1, <2>2, <1>a, <1>d DEF Verdict, Command
<1>8. ASSUME G1
      PROVE  ContradictionInv'
    <2>1. PICK v : Verdict(v)
        BY <1>8 DEF G1
    <2>2. UNCHANGED <<host, journal, minted, keys, identity, token>>
        BY <1>8 DEF G1
    <2>3. host.provenance = "contradiction" => run'.verdict = "HALT"
        BY <1>8, <1>a DEF G1, Blocks, Verdict, Command
    <2> QED BY <2>2, <2>3, FoldKept DEF IInv, ContradictionInv
<1>9. ASSUME G2Publish
      PROVE  ContradictionInv'
    <2>1. host.provenance # "contradiction"
        BY <1>9, <1>e DEF G2Publish, Running, IInv, PassphraseInv
    <2> QED BY <2>1, <1>9 DEF G2Publish, ContradictionInv
<1>10. ASSUME G2Persist
      PROVE  ContradictionInv'
    <2>1. host.provenance # "contradiction"
        BY <1>10, <1>e DEF G2Persist, Running, IInv, PassphraseInv
    <2> QED BY <2>1, <1>10 DEF G2Persist, ContradictionInv
<1>11. ASSUME G2NoPassphrase
      PROVE  ContradictionInv'
    <2>1. host.provenance # "contradiction"
        BY <1>11, <1>e DEF G2NoPassphrase, Running, IInv, PassphraseInv
    <2> QED BY <2>1, <1>11 DEF G2NoPassphrase, ContradictionInv
<1>12. ASSUME G3
      PROVE  ContradictionInv'
    <2>1. host.provenance # "contradiction"
        BY <1>12, <1>e DEF G3, Running, IInv, PassphraseInv
    <2> QED BY <2>1, <1>12 DEF G3, ContradictionInv
<1>13. ASSUME G4
      PROVE  ContradictionInv'
    <2>1. host.provenance # "contradiction"
        BY <1>13, <1>e DEF G4, Running, IInv, PassphraseInv
    <2> QED BY <2>1, <1>13 DEF G4, ContradictionInv
<1>14. ASSUME G5
      PROVE  ContradictionInv'
    <2>1. host.provenance # "contradiction"
        BY <1>14, <1>e DEF G5, Running, IInv, PassphraseInv
    <2> QED BY <2>1, <1>14 DEF G5, ContradictionInv
<1>15. ASSUME G6
      PROVE  ContradictionInv'
    <2>1. host.provenance # "contradiction"
        BY <1>15, <1>e DEF G6, Running, IInv, PassphraseInv
    <2> QED BY <2>1, <1>15 DEF G6, ContradictionInv
<1>16. ASSUME G7
      PROVE  ContradictionInv'
    <2>1. host.provenance # "contradiction"
        BY <1>16, <1>e DEF G7, Running, IInv, PassphraseInv
    <2> QED BY <2>1, <1>16 DEF G7, ContradictionInv
<1>17. ASSUME StandDown
      PROVE  ContradictionInv'
    <2>1. host.provenance # "contradiction"
        BY <1>17 DEF StandDown, IInv, ContradictionInv
    <2> QED BY <2>1, <1>17 DEF StandDown, ContradictionInv
<1>18. ASSUME StandDownMarkerOnly
      PROVE  ContradictionInv'
    BY <1>18, <1>a, <1>d DEF StandDownMarkerOnly, Command, NoRun
<1>19. ASSUME DeleteMarker
      PROVE  ContradictionInv'
    BY <1>19, <1>a, <1>d DEF DeleteMarker, Command, NoRun
<1>20. ASSUME CloseTagout
      PROVE  ContradictionInv'
    BY <1>20, <1>a, <1>d DEF CloseTagout, Command, NoRun
<1>21. ASSUME NEW named \in BOOLEAN, Rollback(named)
      PROVE  ContradictionInv'
    <2>1. run' = run /\ run.at = "off" /\ UNCHANGED <<host, minted, keys>>
          /\ token' = FALSE /\ identity' \subseteq identity
        BY <1>21 DEF Rollback
    <2>2. Completed' = {}
        BY <1>21 DEF Rollback, Completed
    <2> QED BY <2>1, <2>2 DEF IInv, ContradictionInv
<1> QED BY <1>1, <1>2, <1>3, <1>4, <1>5, <1>6, <1>7, <1>8, <1>9, <1>10, <1>11, <1>12, <1>13,
           <1>14, <1>15, <1>16, <1>17, <1>18, <1>19, <1>20, <1>21 DEF Next

\* The skeleton keeps the consent of the repository it is written over.
LEMMA SkeletonKeeps ==
    ASSUME Types
    PROVE  /\ \A j \in Skeleton : j.consent = <<>> \/ \E i \in identity : j.consent = i.consent
           /\ \A i \in identity : \E j \in Skeleton : j.consent = i.consent
<1>1. CASE identity = {}
    BY <1>1 DEF Skeleton
<1>2. CASE identity # {}
    <2> DEFINE S == {[consent |-> i.consent, founding |-> i.founding] : i \in identity}
               d == CHOOSE x \in S : TRUE
    <2>1. d \in S
        BY <1>2
    <2> HIDE DEF d
    <2>2. PICK i \in identity : d.consent = i.consent
        BY <2>1
    <2>3. Skeleton = {[node |-> run.key, epochs |-> 0, consent |-> d.consent, founding |-> d.founding]}
        BY <1>2 DEF Skeleton, d
    <2>4. \A k \in identity : k = i
        BY DEF Types, One
    <2> QED BY <2>2, <2>3, <2>4
<1> QED BY <1>1, <1>2

\* A consent is recorded as real only where the gate was passed (g4_consent).
LEMMA ConsentStep == IInv /\ [Next]_vars => ConsentInv'
<1> SUFFICES ASSUME IInv, [Next]_vars
             PROVE  ConsentInv'
    OBVIOUS
<1> USE DEF nodeFiles, counters
<1>. IInv
    OBVIOUS
<1>a. run \in Command /\ Completed \in SUBSET Phases
    BY DEF IInv, Types, Completed
<1>d. ASSUME UNCHANGED identity
      PROVE  ConsentInv'
    BY <1>d DEF IInv, ConsentInv
<1>1. CASE UNCHANGED vars
    BY <1>1, <1>d DEF vars
<1>2. ASSUME NEW dry \in BOOLEAN, NEW resume \in BOOLEAN, NEW dev \in BOOLEAN, NEW attended \in BOOLEAN,
             NEW arg \in BOOLEAN, Start(dry, resume, dev, attended, arg)
      PROVE  ConsentInv'
    BY <1>2, <1>d DEF Start
<1>3. ASSUME AppendRow
      PROVE  ConsentInv'
    BY <1>3, <1>d DEF AppendRow
<1>4. ASSUME Finish
      PROVE  ConsentInv'
    BY <1>4, <1>d DEF Finish
<1>5. ASSUME Crash
      PROVE  ConsentInv'
    BY <1>5, <1>d DEF Crash
<1>6. ASSUME NEW k \in {1, 2, 4, 5}, GateHalts(k)
      PROVE  ConsentInv'
    BY <1>6, <1>d DEF GateHalts
<1>7. ASSUME G0
      PROVE  ConsentInv'
    BY <1>7, <1>d DEF G0
<1>8. ASSUME G1
      PROVE  ConsentInv'
    BY <1>8, <1>d DEF G1
<1>9. ASSUME G2Publish
      PROVE  ConsentInv'
    BY <1>9, <1>d DEF G2Publish
<1>10. ASSUME G2Persist
      PROVE  ConsentInv'
    BY <1>10, <1>d DEF G2Persist
<1>11. ASSUME G2NoPassphrase
      PROVE  ConsentInv'
    BY <1>11, <1>d DEF G2NoPassphrase
<1>12. ASSUME G3
      PROVE  ConsentInv'
    <2>1. ASSUME identity' = Skeleton
          PROVE  ConsentInv'
        <3>1. \A j \in identity' : \/ j.consent = <<>>
                                  \/ \E i \in identity : j.consent = i.consent
            BY <2>1, SkeletonKeeps DEF IInv
        <3> QED BY <3>1 DEF IInv, ConsentInv
    <2> QED BY <2>1, <1>12, <1>d DEF G3
<1>13. ASSUME G4
      PROVE  ConsentInv'
    <2>1. PICK given \in BOOLEAN :
             identity' = {[Repo EXCEPT !.consent = Append(@,
                 [real |-> ~run.dry, given |-> given, attended |-> run.attended])]}
        BY <1>13 DEF G4
    <2> DEFINE event == [real |-> ~run.dry, given |-> given, attended |-> run.attended]
    <2>2. event \in Consent /\ (event.real => event.attended)
        BY <1>13, <1>a DEF G4, GateOpens, Consent, Command
    <2>3. Repo \in identity /\ Repo \in Identity
        BY <1>13, RepoThere DEF G4, IInv
    <2>4. Repo.consent \in Seq(Consent)
        BY <2>3 DEF Identity
    <2>5. identity' = {[Repo EXCEPT !.consent = Append(Repo.consent, event)]}
        BY <2>1
    <2> HIDE DEF event
    <2>6. \A j \in identity' : j.consent = Append(Repo.consent, event)
        BY <2>3, <2>5 DEF Identity
    <2>7. \A n \in DOMAIN Append(Repo.consent, event) :
             \/ n \in DOMAIN Repo.consent /\ Append(Repo.consent, event)[n] = Repo.consent[n]
             \/ Append(Repo.consent, event)[n] = event
        BY <2>2, <2>4, AppendProperties
    <2> QED BY <2>2, <2>3, <2>6, <2>7 DEF IInv, ConsentInv
<1>14. ASSUME G5
      PROVE  ConsentInv'
    <2>1. Repo \in identity /\ Repo \in Identity
        BY <1>14, RepoThere DEF G5, IInv
    <2>2. \A j \in identity' : j.consent = Repo.consent
        BY <2>1, <1>14 DEF G5, Identity
    <2> QED BY <2>1, <2>2 DEF IInv, ConsentInv
<1>15. ASSUME G6
      PROVE  ConsentInv'
    <2>1. Repo \in identity
        BY <1>15, RepoThere DEF G6, IInv
    <2> QED BY <2>1, <1>15 DEF G6, IInv, ConsentInv
<1>16. ASSUME G7
      PROVE  ConsentInv'
    BY <1>16, <1>d DEF G7
<1>17. ASSUME StandDown
      PROVE  ConsentInv'
    <2>1. \A j \in identity' : \E i \in identity : j.consent = i.consent
        BY <1>17 DEF StandDown, IInv, Types, Identity
    <2> QED BY <2>1 DEF IInv, ConsentInv
<1>18. ASSUME StandDownMarkerOnly
      PROVE  ConsentInv'
    BY <1>18, <1>d DEF StandDownMarkerOnly
<1>19. ASSUME DeleteMarker
      PROVE  ConsentInv'
    BY <1>19, <1>d DEF DeleteMarker
<1>20. ASSUME CloseTagout
      PROVE  ConsentInv'
    BY <1>20, <1>d DEF CloseTagout
<1>21. ASSUME NEW named \in BOOLEAN, Rollback(named)
      PROVE  ConsentInv'
    <2>1. identity' \subseteq identity
        BY <1>21 DEF Rollback
    <2> QED BY <2>1 DEF IInv, ConsentInv
<1> QED BY <1>1, <1>2, <1>3, <1>4, <1>5, <1>6, <1>7, <1>8, <1>9, <1>10, <1>11, <1>12, <1>13,
           <1>14, <1>15, <1>16, <1>17, <1>18, <1>19, <1>20, <1>21 DEF Next
----------------------------------------------------------------------------
LEMMA InitHolds == Init => IInv
<1> SUFFICES ASSUME Init PROVE IInv
    OBVIOUS
<1> USE DEF Init, NoRun
<1>1. Types
    <2>1. run \in Command
        BY BoundsAssumption DEF Command, Places, Phases, Outcomes
    <2>2. <<>> \in Seq(Row)
        OBVIOUS
    <2>3. One({})
        BY DEF One
    <2>4. minted \in 0..MaxRuns /\ runs \in 0..MaxRuns /\ crashes \in 0..MaxCrashes
        BY BoundsAssumption
    <2>5. marker \in BOOLEAN /\ cfgBound \in BOOLEAN /\ token \in BOOLEAN
        OBVIOUS
    <2> QED BY <2>1, <2>2, <2>3, <2>4, <2>5 DEF Types
<1>2. Completed = {}
    BY DEF Completed
<1>3. RunInv /\ PhasesInOrder /\ MintInv /\ PassphraseInv
    BY BoundsAssumption DEF RunInv, PhasesInOrder, MintInv, PassphraseInv, Working
<1>4. OrgansInv /\ ContradictionInv /\ ConsentInv
    BY <1>2 DEF OrgansInv, ContradictionInv, ConsentInv
<1> QED BY <1>1, <1>3, <1>4 DEF IInv

LEMMA StepHolds == IInv /\ [Next]_vars => IInv'
BY TypesStep, RunStep, OrderStep, MintStep, PassphraseStep, OrgansStep, ContradictionStep,
   ConsentStep DEF IInv

LEMMA AlwaysIInv == Spec => []IInv
BY InitHolds, StepHolds, PTL DEF Spec

LEMMA AtMostOne ==
    ASSUME NEW S, One(S)
    PROVE  Cardinality(S) <= 1
<1>1. CASE S = {}
    BY <1>1, FS_EmptySet
<1>2. CASE S # {}
    <2>1. PICK x : S = {x}
        BY <1>2 DEF One
    <2>2. Cardinality({x}) = 1
        BY FS_Singleton
    <2> QED BY <2>1, <2>2
<1> QED BY <1>1, <1>2

\* Every variable keeps its type; there is one root key record and one identity
\* repository at most, and no command mints more than one key pair.
THEOREM TypeCorrect == Spec => []TypeOK
<1>1. IInv => TypeOK
    <2> SUFFICES ASSUME IInv PROVE TypeOK
        OBVIOUS
    <2>1. Cardinality(rootPub) <= 1 /\ Cardinality(identity) <= 1
        BY AtMostOne DEF IInv, Types
    <2>2. \A n \in DOMAIN journal : journal[n] \in Row
        BY ElementOfSeq, LenProperties DEF IInv, Types
    <2>3. /\ run.at \in {"off", "phase", "passphrase", "journal", "over"}
          /\ run.phase \in Phases /\ run.done \subseteq Phases
        BY DEF IInv, Types, Command, Places
    <2> QED BY <2>1, <2>2, <2>3 DEF IInv, Types, TypeOK
<1> QED BY <1>1, AlwaysIInv, PTL

\* Whatever commands are run, die and are resumed or rolled back, no phase is on
\* record before the ones under it, a contradictory clone mints nothing, and a
\* command that reports G7 leaves every phase on record (run_genesis).
THEOREM BornInOrder == Spec => []BirthInOrder
<1>1. IInv => BirthInOrder
    BY DEF IInv, RunInv, ContradictionInv, BirthInOrder, ContradictionMintsNothing,
           OnlineMeansComplete
<1> QED BY <1>1, AlwaysIInv, PTL

\* No step writes a private key or a token, or leaves a consent in the
\* operator's name, but a real command's at an attended terminal (_gate).
THEOREM OperatorThere == Spec => OperatorPresent
<1> DEFINE Asked == keys' # keys \/ (token' /\ ~token) => run.attended /\ ~run.dry
           Own == \A i \in identity' : \A n \in DOMAIN i.consent :
                      i.consent[n].real => i.consent[n].attended
<1>1. ConsentInv' => Own
    BY DEF ConsentInv
<1>2. IInv /\ [Next]_vars => Asked
    <2>1. [Next]_vars => UNCHANGED <<keys, token>> \/ G2Persist \/ \E named \in BOOLEAN : Rollback(named)
        BY DEF Next, vars, nodeFiles, counters, Start, AppendRow, Finish, Crash, GateHalts, G0, G1,
               G2Publish, G2NoPassphrase, G3, G4, G5, G6, G7, StandDown, StandDownMarkerOnly,
               DeleteMarker, CloseTagout
    <2>3. (\E named \in BOOLEAN : Rollback(named)) => keys' = keys /\ token' = FALSE
        BY DEF Rollback
    <2>2. IInv /\ G2Persist => run.attended /\ ~run.dry
        BY DEF IInv, G2Persist, PassphraseInv
    <2> QED BY <2>1, <2>2, <2>3
<1>3. IInv /\ IInv' /\ [Next]_vars => [Asked /\ Own]_vars
    BY <1>1, <1>2 DEF IInv
<1> QED BY <1>3, AlwaysIInv, PTL DEF Spec, OperatorPresent

\* Nothing takes back or rewrites a recorded consent: not a second command, a
\* resume, a stand-down, a rollback or a death in between (g4_consent, rollback).
THEOREM ConsentStays == Spec => ConsentKept
<1> DEFINE Kept(i, j) == /\ Len(j.consent) >= Len(i.consent)
                         /\ SubSeq(j.consent, 1, Len(i.consent)) = i.consent
<1>1. ASSUME NEW i, i.consent \in Seq(Consent), NEW j, j.consent = i.consent
      PROVE  Kept(i, j)
    BY <1>1, SubSeqFull, LenProperties
<1>2. ASSUME NEW i, i.consent \in Seq(Consent), NEW j, NEW e \in Consent,
             j.consent = Append(i.consent, e)
      PROVE  Kept(i, j)
    <2>1. /\ Len(i.consent) \in Nat /\ j.consent \in Seq(Consent)
          /\ Len(j.consent) = Len(i.consent) + 1
          /\ \A n \in 1..Len(i.consent) : j.consent[n] = i.consent[n]
        BY <1>2, AppendProperties, LenProperties
    <2> DEFINE s == SubSeq(j.consent, 1, Len(i.consent))
    <2>2. /\ s \in Seq(Consent) /\ Len(s) = Len(i.consent)
          /\ \A n \in 1..Len(i.consent) : s[n] = i.consent[n]
        BY <2>1, SubSeqProperties
    <2>3. s = i.consent
        BY <1>2, <2>2, SeqEqual
    <2> QED BY <2>1, <2>3
<1>3. IInv /\ [Next]_vars =>
         [\A i \in identity : i.consent # <<>> => \E j \in identity' : Kept(i, j)]_vars
    <2> SUFFICES ASSUME IInv, Next, NEW i \in identity, i.consent # <<>>
                 PROVE  \E j \in identity' : Kept(i, j)
        OBVIOUS
    <2>a. /\ i.consent \in Seq(Consent) /\ i \in Identity
          /\ \A k \in identity : k = i
          /\ Types /\ run \in Command
        BY DEF IInv, Types, Identity, One
    <2> HIDE DEF Kept
    <2>1. UNCHANGED identity \/ G3 \/ G4 \/ G5 \/ G6 \/ StandDown \/ \E named \in BOOLEAN : Rollback(named)
        BY DEF Next, nodeFiles, counters, Start, AppendRow, Finish, Crash, GateHalts, G0, G1,
               G2Publish, G2Persist, G2NoPassphrase, G7, StandDownMarkerOnly, DeleteMarker, CloseTagout
    <2>2. CASE UNCHANGED identity
        BY <2>2, <2>a, <1>1
    <2>3. CASE G3
        <3>1. \E j \in Skeleton : j.consent = i.consent
            BY <2>a, SkeletonKeeps
        <3>2. identity' = Skeleton \/ identity' = identity
            BY <2>3 DEF G3
        <3> QED BY <3>1, <3>2, <2>a, <1>1
    <2>4. CASE G4
        <3>1. PICK given \in BOOLEAN :
                 identity' = {[Repo EXCEPT !.consent = Append(@,
                     [real |-> ~run.dry, given |-> given, attended |-> run.attended])]}
            BY <2>4 DEF G4
        <3> DEFINE event == [real |-> ~run.dry, given |-> given, attended |-> run.attended]
        <3>2. event \in Consent
            BY <2>a DEF Consent, Command
        <3>3. Repo = i
            BY <2>a, <2>4, RepoThere DEF G4, IInv
        <3>4. identity' = {[i EXCEPT !.consent = Append(i.consent, event)]}
            BY <3>1, <3>3
        <3> HIDE DEF event
        <3>5. PICK j \in identity' : j.consent = Append(i.consent, event)
            BY <3>4, <2>a DEF Identity
        <3> QED BY <3>2, <3>5, <2>a, <1>2
    <2>5. CASE G5 \/ G6
        <3>1. Repo = i
            BY <2>a, <2>5, RepoThere DEF G5, G6, IInv
        <3>2. \E j \in identity' : j.consent = i.consent
            <4>1. CASE G5
                <5>1. PICK f : identity' = {[i EXCEPT !.founding = f]}
                    BY <3>1, <4>1 DEF G5
                <5> QED BY <5>1, <2>a DEF Identity
            <4>2. CASE G6
                BY <3>1, <4>2 DEF G6
            <4> QED BY <2>5, <4>1, <4>2
        <3> QED BY <3>2, <2>a, <1>1
    <2>6. CASE StandDown
        <3>1. \E j \in identity' : j.consent = i.consent
            <4>1. CASE identity' = identity
                BY <4>1
            <4>2. CASE identity' = {[k EXCEPT !.epochs = @ + 1] : k \in identity}
                <5>1. [i EXCEPT !.epochs = @ + 1] \in identity'
                    BY <4>2
                <5>2. [i EXCEPT !.epochs = @ + 1].consent = i.consent
                    BY <2>a DEF Identity
                <5> QED BY <5>1, <5>2
            <4> QED BY <2>6, <4>1, <4>2 DEF StandDown
        <3> QED BY <3>1, <2>a, <1>1
    <2>7. CASE \E named \in BOOLEAN : Rollback(named)
        <3>1. i \in identity'
            BY <2>7 DEF Rollback
        <3> QED BY <3>1, <2>a, <1>1
    <2> QED BY <2>1, <2>2, <2>3, <2>4, <2>5, <2>6, <2>7
<1> QED BY <1>3, AlwaysIInv, PTL DEF Spec, ConsentKept
=============================================================================
