------------------------------ MODULE Aliveness ------------------------------
(****************************************************************************)
(* How a node proves that it is alive: the six birth questions, the         *)
(* aliveness ledger and the birth certificate (genesis/aliveness.py), asked *)
(* by G7 and by `intentops doctor` (cli.py), the birth claim the fourth of  *)
(* them files in the witness register, and the gateway token whose record   *)
(* the certificate quotes (genesis/token_ceremony.py, trust/bearer.py).     *)
(*                                                                          *)
(* What an instrument finds is a fact of the node, which may change while   *)
(* a reading is under way; a token's value is the number of its minting.    *)
(****************************************************************************)
EXTENDS Integers, Sequences, FiniteSets

CONSTANTS
    Readers,       \* processes: a doctor, a birth, a token ceremony
    Facts,         \* what the instruments may find on this node
    MaxReadings,   \* bound: readings and ceremonies begun
    MaxChanges,    \* bound: changes of the node's facts, deaths included
    MaxDay         \* bound: dates

VARIABLES
    facts,      \* [probes, beliefs, tagouts, gate, estate]: what is there now
    stood,      \* the stand-down marker
    today,      \* the date
    register,   \* the witness register: the dates whose birth claim it files, in order
    aliveness,  \* aliveness.jsonl, rows in order
    cert,       \* birth-certificate.md: <<>> or the row it renders
    token,      \* gateway-auth.json: <<>> or [value, rotation, whole]
    shown,      \* token values an operator has seen
    minted,     \* token values drawn
    reader,     \* what each process is doing
    readings, changes   \* bound counters

node       == <<facts, stood, today>>
ledgers    == <<register, aliveness, cert>>
tokens     == <<token, shown, minted>>
aliveVars  == <<node, ledgers, tokens, reader, readings, changes>>

Idle == [at |-> "idle", ask |-> 0, answers |-> <<>>, stood |-> FALSE, line |-> "none",
         birth |-> FALSE, day |-> 0, rotation |-> 0, value |-> 0]

AliveInit ==
    /\ facts \in Facts
    /\ stood = FALSE /\ today = 1
    /\ register = <<>> /\ aliveness = <<>> /\ cert = <<>>
    /\ token = <<>> /\ shown = {} /\ minted = 0
    /\ reader = [r \in Readers |-> Idle]
    /\ readings = 0 /\ changes = 0

----------------------------------------------------------------------------
(* The six questions. *)

\* 1. self_probe: an absent suite or runner is unprobeable, a suite that raises
\* has failed; a probe that is neither passed nor absent is a truth failure.
_check_probes(p) ==
    CASE p.suite = "none"   -> "UNPROBEABLE"
      [] p.suite = "raises" -> "FAILED"
      [] OTHER -> IF p.passed = p.total THEN "ANSWERED"
                  ELSE IF p.total - p.passed - p.absent > 0 THEN "FAILED" ELSE "UNPROBEABLE"

\* 2. still_true over the bound carriers.
_check_belief_currency(b) ==
    CASE b.binding = "none" -> "UNPROBEABLE"
      [] b.binding \in {"bad", "raises"} -> "FAILED"
      [] OTHER -> IF b.unreadable THEN "UNPROBEABLE"
                  ELSE IF b.open > 0 THEN "FAILED"
                  ELSE IF b.population = 0 THEN "UNPROBEABLE" ELSE "ANSWERED"

\* 3. The tagout ledger is there and reads; whatever its posture, it answers.
_check_tagouts(t) == IF t = "reads" THEN "ANSWERED" ELSE "FAILED"

\* 5. The gate refuses what reaches reality, and allows a read.
_check_gate(g) == IF g.refuses /\ g.allows THEN "ANSWERED" ELSE "FAILED"

\* 6. Estate and identity repository conform, and the checker rejects an empty
\* directory.
_check_conformance(e) ==
    IF e.bound /\ e.estate_ok /\ e.repo_ok /\ e.rejects THEN "ANSWERED" ELSE "FAILED"

Answer(n) ==
    CASE n = 1 -> _check_probes(facts.probes)
      [] n = 2 -> _check_belief_currency(facts.beliefs)
      [] n = 3 -> _check_tagouts(facts.tagouts)
      [] n = 5 -> _check_gate(facts.gate)
      [] n = 6 -> _check_conformance(facts.estate)

Filed(day) == \E i \in DOMAIN register : register[i] = day

----------------------------------------------------------------------------
(* A reading. *)

\* read_record: a record that is absent, torn, or short of a field is unavailable.
read_record == IF token = <<>> THEN <<>> ELSE IF token.whole THEN token ELSE <<>>

\* certificate_line_for: what the certificate says of the token.
certificate_line_for == IF read_record = <<>> THEN "not minted" ELSE "disclosed"

To(r, rec) == reader' = [reader EXCEPT ![r] = rec]
Answered(r, status) ==
    [reader[r] EXCEPT !.answers = Append(@, status), !.ask = @ + 1, !.at = "asking"]

\* take_reading begins: the stand-down marker and the token line are read
\* first.  G7 and `doctor --birth` append what they read, `doctor` prints it.
take_reading(r, birth) ==
    /\ reader[r].at = "idle" /\ readings < MaxReadings
    /\ readings' = readings + 1
    /\ To(r, [Idle EXCEPT !.at = "asking", !.ask = 1, !.stood = stood, !.birth = birth,
                          !.line = certificate_line_for])
    /\ UNCHANGED <<node, ledgers, tokens, changes>>

Ask(r) ==
    /\ reader[r].at = "asking" /\ reader[r].ask \in {1, 2, 3, 5, 6}
    /\ To(r, Answered(r, Answer(reader[r].ask)))
    /\ UNCHANGED <<node, ledgers, tokens, readings, changes>>

\* 4. witness: the register is loaded; when today's birth claim is in it that is
\* the answer ...
_check_witness(r) ==
    /\ reader[r].at = "asking" /\ reader[r].ask = 4
    /\ To(r, IF Filed(today) THEN Answered(r, "ANSWERED")
             ELSE [reader[r] EXCEPT !.at = "filing", !.day = today])
    /\ UNCHANGED <<node, ledgers, tokens, readings, changes>>

\* ... and when it is not, register_claim loads the register afresh inside the
\* lock, and refuses a claim that another process filed meanwhile.
\* Mutant of Refused: the load made before the lock is trusted.
RefusedByFirstLoad(r) == FALSE
Refused(r) == Filed(reader[r].day)

register_claim(r) ==
    /\ reader[r].at = "filing"
    /\ register' = IF Refused(r) THEN register ELSE Append(register, reader[r].day)
    /\ To(r, Answered(r, IF Refused(r) THEN "FAILED" ELSE "ANSWERED"))
    /\ UNCHANGED <<node, aliveness, cert, tokens, readings, changes>>

\* Reading.verdict.
verdict(answers, down) ==
    LET some(status) == \E i \in DOMAIN answers : answers[i] = status
    IN  IF down THEN "STOOD-DOWN"
        ELSE IF some("FAILED") THEN "NOT-ALIVE"
        ELSE IF some("UNPROBEABLE") THEN "ALIVE-DEGRADED" ELSE "ALIVE"

RowOf(r) ==
    [verdict |-> verdict(reader[r].answers, reader[r].stood), by |-> r,
     answers |-> reader[r].answers, line |-> reader[r].line, day |-> reader[r].day]

Complete(r) == reader[r].at = "asking" /\ reader[r].ask = 7

\* `doctor` without --birth: the reading is printed and nothing of it is kept.
_cmd_doctor(r) ==
    /\ Complete(r) /\ ~reader[r].birth
    /\ To(r, Idle)
    /\ UNCHANGED <<node, ledgers, tokens, readings, changes>>

\* append_reading makes two writes: the row of the ledger, under its lock, and
\* then the certificate, in one replace.
\* Mutant of WritesRow: the certificate goes first.
WritesRowLast(step) == step = 2
WritesRow(step) == step = 1

Write(r, step) ==
    IF WritesRow(step) THEN aliveness' = Append(aliveness, RowOf(r)) /\ UNCHANGED cert
                       ELSE cert' = RowOf(r) /\ UNCHANGED aliveness

append_reading(r) ==
    /\ Complete(r) /\ reader[r].birth
    /\ Write(r, 1)
    /\ To(r, [reader[r] EXCEPT !.at = "certifying"])
    /\ UNCHANGED <<node, register, tokens, readings, changes>>

Certify(r) ==
    /\ reader[r].at = "certifying"
    /\ Write(r, 2)
    /\ To(r, Idle)
    /\ UNCHANGED <<node, register, tokens, readings, changes>>

----------------------------------------------------------------------------
(* The token. *)

\* mint_disclosed up to the write: a dry run, an unattended terminal, no prompt
\* and any answer but yes end it; then the rotation of the record is read.
mint_disclosed(r, dry_run, attended, yes) ==
    /\ reader[r].at = "idle" /\ readings < MaxReadings
    /\ readings' = readings + 1
    /\ To(r, IF dry_run \/ ~attended \/ ~yes THEN Idle
             ELSE [Idle EXCEPT !.at = "minting",
                               !.rotation = IF read_record = <<>> THEN 1
                                            ELSE read_record.rotation + 1])
    /\ UNCHANGED <<node, ledgers, tokens, changes>>

\* bearer.mint: one locked replace of the record, in which the disclosure is
\* already dated although the banner comes after it.
bearer_mint(r) ==
    /\ reader[r].at = "minting"
    /\ minted' = minted + 1
    /\ token' = [value |-> minted', rotation |-> reader[r].rotation,
                  whole |-> TRUE]
    /\ To(r, [reader[r] EXCEPT !.at = "showing", !.value = minted'])
    /\ UNCHANGED <<node, ledgers, shown, readings, changes>>

_render_banner(r) ==
    /\ reader[r].at = "showing"
    /\ shown' = shown \cup {reader[r].value}
    /\ To(r, Idle)
    /\ UNCHANGED <<node, ledgers, token, minted, readings, changes>>

----------------------------------------------------------------------------
(* The node and its operator. *)

Change ==
    /\ changes < MaxChanges
    /\ changes' = changes + 1

FactsChange ==
    /\ Change
    /\ facts' \in Facts \ {facts}
    /\ UNCHANGED <<stood, today, ledgers, tokens, reader, readings>>

StandDown ==
    /\ Change
    /\ stood' = ~stood
    /\ UNCHANGED <<facts, today, ledgers, tokens, reader, readings>>

Midnight ==
    /\ today < MaxDay
    /\ today' = today + 1
    /\ UNCHANGED <<facts, stood, ledgers, tokens, reader, readings, changes>>

\* The token record is damaged by hand.
DamageToken ==
    /\ Change
    /\ token # <<>>
    /\ token' = [token EXCEPT !.whole = FALSE]
    /\ UNCHANGED <<node, ledgers, shown, minted, reader, readings>>

\* A process dies between two of its steps; the kernel releases its lock.
Crash(r) ==
    /\ Change
    /\ reader[r].at # "idle"
    /\ To(r, Idle)
    /\ UNCHANGED <<node, ledgers, tokens, readings>>

AliveNext ==
    \/ \E r \in Readers :
        \/ \E birth \in BOOLEAN : take_reading(r, birth)
        \/ Ask(r) \/ _check_witness(r) \/ register_claim(r) \/ _cmd_doctor(r)
        \/ append_reading(r) \/ Certify(r)
        \/ \E dry, attended, yes \in BOOLEAN : mint_disclosed(r, dry, attended, yes)
        \/ bearer_mint(r) \/ _render_banner(r) \/ Crash(r)
    \/ FactsChange \/ StandDown \/ DamageToken \/ Midnight

AliveSpec == AliveInit /\ [][AliveNext]_aliveVars

----------------------------------------------------------------------------
(* Properties. *)

\* The certificate on the node's wall is one the record bears out: whoever reads
\* at the same time and wherever a reader dies, what it renders is a row of the
\* aliveness ledger, and it calls the node ALIVE only over six answers
\* (append_reading, Reading.verdict).
CertificateOnRecord ==
    cert # <<>> =>
        /\ \E i \in DOMAIN aliveness : aliveness[i] = cert
        /\ cert.verdict = "ALIVE" =>
              /\ Len(cert.answers) = 6
              /\ \A i \in 1..6 : cert.answers[i] = "ANSWERED"

\* The birth claim is filed once a day: a row that does not say NOT-ALIVE has a
\* birth claim in the witness register, and no two readers, however they overlap,
\* file the same one twice (_check_witness, register_claim).
BirthClaimOnce ==
    /\ \A i, j \in DOMAIN register : register[i] = register[j] => i = j
    /\ \A i \in DOMAIN aliveness :
          aliveness[i].verdict \in {"ALIVE", "ALIVE-DEGRADED"} => register # <<>>
=============================================================================
