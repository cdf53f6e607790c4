--------------------------- MODULE GatewayProofs ---------------------------
(***************************************************************************)
(* Proofs about the tool gateway, for any number of requests, harnesses    *)
(* and backends, on either surface, whatever callers send and children do. *)
(*                                                                         *)
(* The five checks before a spawn are made at different steps and read     *)
(* different things, so the invariant says of each step what a request     *)
(* that got so far has passed, and why that still holds there: a token is  *)
(* never the node's again once replaced, the process's context is read     *)
(* once, and a session belongs to the only message in flight.              *)
(***************************************************************************)
EXTENDS Gateway, TLAPS

USE GatewayAssumption

Flight(r)  == req[r].at \notin {"idle", "done"}
Row(r)     == IF req[r].at = "record" THEN req[r].row ELSE "none"
\* Past the door, past the allowlist, past the classifier.
Admitted(r) == req[r].at \in {"rpc", "file", "invoke", "spawn", "wait"}
                 \/ Row(r) \in {"ALLOW", "ASK", "BLOCK"}
Granted(r)  == req[r].at \in {"file", "invoke", "spawn", "wait"}
                 \/ Row(r) \in {"ALLOW", "ASK", "BLOCK"}
Cleared(r)  == req[r].at \in {"invoke", "spawn", "wait"} \/ Row(r) = "ALLOW"

\* What each step leaves of a request, and what a row or an answer says of
\* the message it is about.
LifeOf(r) ==
    /\ req[r].at # "done" => req[r].answer = "none"
    /\ req[r].at \notin {"wait", "done"} => req[r].child = "none"
    /\ req[r].at = "record" => req[r].row # "none"
    /\ req[r].at = "rpc" => req[r].in.kind # "malformed"
    /\ Row(r) = "session" => req[r].in.kind = "initialize"
    /\ Row(r) = "tool" => req[r].in.kind \in {"builtin", "classify"}
    /\ req[r].answer = "result" /\ req[r].in.kind = "backend"
         => req[r].child \in {"answered", "lingering"}

\* A caller presents no token that comes later, so one that is the node's now
\* was the node's on arrival; the handshake is not undone under a request.
EntryOf(r) ==
    /\ Flight(r) => /\ gctx.up
                    /\ req[r].in.token <= token
                    /\ req[r].in.token # 0 /\ req[r].in.token = token => req[r].fresh
    /\ Admitted(r) => /\ req[r].fresh
                      /\ gctx.surface = "mcp" => session.initialized

\* What a backend call has passed by the step it is at.
GrantOf(r) ==
    /\ Granted(r) => /\ req[r].in.kind = "backend" /\ ~gctx.halted
                     /\ permits(gctx.policy, harness(r), req[r].in.backend)
    /\ Cleared(r) => /\ req[r].in.tier \in {"T0", "T1", "T2"}
                     /\ verdict_for(req[r].in.op, EstateKnown).decision = "ALLOW"
    /\ req[r].at \in {"spawn", "wait"} => req[r].in.backend \in Commands

\* What is on disk for it, and what the kill switch was meanwhile.
RecordOf(r) ==
    /\ req[r].at \in {"invoke", "spawn"} \/ req[r].child # "none" => <<r, "ALLOW">> \in ledger
    /\ req[r].at = "invoke" /\ ~req[r].open => disabled
    /\ req[r].at = "spawn" \/ req[r].child # "none" => req[r].open
    /\ <<r, "ASK">> \in ledger \/ Row(r) = "ASK" => r \in approvals

LifeInv   == \A r \in Requests : LifeOf(r)
EntryInv  == \A r \in Requests : EntryOf(r)
GrantInv  == \A r \in Requests : GrantOf(r)
RecordInv == \A r \in Requests : RecordOf(r)

\* The stdio loop serves one message at a time.
SoloInv == gctx.surface = "mcp" =>
             \A r, s \in Requests : Flight(r) /\ Flight(s) => r = s

IInv == TypeOK /\ LifeInv /\ EntryInv /\ GrantInv /\ RecordInv /\ SoloInv
----------------------------------------------------------------------------
(* The classifier                                                          *)

LEMMA VerdictsDecide ==
    \A op, k : verdict_for(op, k).decision \in {"ALLOW", "ASK"}
BY DEF verdict_for, allow, ask

\* What the gate makes of a call, and what it takes to be allowed.
LEMMA CallsClassified ==
    ASSUME NEW a \in Arrivals
    PROVE  /\ classify_call(a).decision \in {"ALLOW", "ASK", "BLOCK"}
           /\ classify_call(a).decision = "ALLOW" =>
                /\ a.tier \in {"T0", "T1", "T2"}
                /\ verdict_for(a.op, EstateKnown).decision = "ALLOW"
<1>1. a.tier \in TIERS \cup {"undeclared"}
  BY DEF Arrival
<1>2. CASE a.tier = "undeclared"
  BY <1>2 DEF classify_call, block
<1>3. CASE a.tier # "undeclared"
  <2> DEFINE v  == IF a.tier \in {"T3", "T4"} THEN ask(a.tier, TRUE) ELSE allow(a.tier)
             w  == verdict_for(a.op, EstateKnown)
             Top(x) == \A y \in {v, w} : _SEVERITY[y.decision] <= _SEVERITY[x.decision]
             top == CHOOSE x \in {v, w} : Top(x)
  <2>1. /\ v.decision \in {"ALLOW", "ASK"}
        /\ v.decision = "ALLOW" => a.tier \in {"T0", "T1", "T2"}
    BY <1>1, <1>3 DEF ask, allow, TIERS
  <2>2. w.decision \in {"ALLOW", "ASK"}
    BY VerdictsDecide
  <2>3. classify_call(a).decision = top.decision
    BY <1>3 DEF classify_call, merge
  <2> HIDE DEF v, w
  <2>4. Top(v) \/ Top(w)
    BY <2>1, <2>2 DEF _SEVERITY
  <2>5. top \in {v, w} /\ Top(top)
    BY <2>4
  <2>6. /\ _SEVERITY[v.decision] <= _SEVERITY[top.decision]
        /\ _SEVERITY[w.decision] <= _SEVERITY[top.decision]
    BY <2>5
  <2> HIDE DEF top
  <2>7. top.decision = "ALLOW" => v.decision = "ALLOW" /\ w.decision = "ALLOW"
    BY <2>1, <2>2, <2>6 DEF _SEVERITY
  <2> QED BY <2>1, <2>2, <2>3, <2>5, <2>7 DEF w
<1> QED BY <1>2, <1>3
----------------------------------------------------------------------------
(* One request's step, field by field                                      *)

LEMMA Becomes ==
    ASSUME TypeOK, NEW r \in Requests, NEW q \in RequestState, Become(r, q)
    PROVE  /\ req' \in [Requests -> RequestState] /\ req'[r] = q
           /\ \A s \in Requests \ {r} : req'[s] = req[s]
BY DEF TypeOK, Become

\* No other request changes; nor does the message of this one.
Others(r) == /\ req' \in [Requests -> RequestState]
             /\ \A s \in Requests \ {r} : req'[s] = req[s]
Only(r)   == Others(r) /\ req'[r].in = req[r].in

LEMMA Replies ==
    ASSUME TypeOK, NEW r \in Requests, NEW a \in Answers, Reply(r, a)
    PROVE  /\ Only(r) /\ req'[r].at = "done" /\ req'[r].answer = a
           /\ req'[r].child = req[r].child
           /\ req[r].child # "none" => req'[r].open = req[r].open
<1> DEFINE ran == req[r].child # "none"
           q == [req[r] EXCEPT !.at = "done", !.answer = a, !.row = "none",
                               !.fresh = req[r].fresh /\ ran, !.open = req[r].open /\ ran]
<1>1. req[r] \in RequestState
  BY DEF TypeOK
<1>2. Become(r, q)
  BY <1>1 DEF Reply, RequestState
<1>3. (req[r].fresh /\ ran) \in BOOLEAN /\ (req[r].open /\ ran) \in BOOLEAN
  OBVIOUS
<1>4. /\ q \in RequestState /\ q.at = "done" /\ q.answer = a
      /\ q.in = req[r].in /\ q.child = req[r].child
      /\ q.open = (req[r].open /\ ran)
  BY <1>1, <1>3 DEF RequestState, Rows
<1> HIDE DEF q
<1>5. /\ req' \in [Requests -> RequestState] /\ req'[r] = q
      /\ \A s \in Requests \ {r} : req'[s] = req[s]
  BY <1>2, <1>4, Becomes
<1>6. req[r].open \in BOOLEAN
  BY <1>1 DEF RequestState
<1>7. ran => (req[r].open /\ ran) = req[r].open
  BY <1>6
<1> QED BY <1>4, <1>5, <1>7 DEF Only, Others

\* Everything but the fields named.
LEMMA Logs ==
    ASSUME TypeOK, NEW r \in Requests, NEW row \in Rows, Log(r, row)
    PROVE  /\ Only(r) /\ req'[r].at = "record" /\ req'[r].row = row
           /\ req'[r].answer = req[r].answer /\ req'[r].child = req[r].child
           /\ req'[r].fresh = req[r].fresh /\ req'[r].open = req[r].open
<1> DEFINE q == [req[r] EXCEPT !.at = "record", !.row = row]
<1>1. req[r] \in RequestState
  BY DEF TypeOK
<1>2. q \in RequestState
  BY <1>1 DEF RequestState
<1>3. Become(r, q)
  BY DEF Log
<1>4. /\ req' \in [Requests -> RequestState] /\ req'[r] = q
      /\ \A s \in Requests \ {r} : req'[s] = req[s]
  BY <1>2, <1>3, Becomes
<1> QED BY <1>1, <1>4 DEF Only, Others, RequestState

LEMMA Gotos ==
    ASSUME TypeOK, NEW r \in Requests, NEW step \in {"rpc", "file", "spawn"},
           Goto(r, step)
    PROVE  /\ Only(r) /\ req'[r].at = step /\ req'[r].row = req[r].row
           /\ req'[r].answer = req[r].answer /\ req'[r].child = req[r].child
           /\ req'[r].fresh = req[r].fresh /\ req'[r].open = req[r].open
<1> DEFINE q == [req[r] EXCEPT !.at = step]
<1>1. req[r] \in RequestState
  BY DEF TypeOK
<1>2. q \in RequestState
  BY <1>1 DEF RequestState
<1>3. Become(r, q)
  BY DEF Goto
<1>4. /\ req' \in [Requests -> RequestState] /\ req'[r] = q
      /\ \A s \in Requests \ {r} : req'[s] = req[s]
  BY <1>2, <1>3, Becomes
<1> QED BY <1>1, <1>4 DEF Only, Others, RequestState

LEMMA Kills ==
    ASSUME TypeOK, NEW r \in Requests, NEW a \in Answers, Killed(r, a)
    PROVE  /\ Only(r) /\ req'[r].at = "done" /\ req'[r].answer = a
           /\ req'[r].child = "killed"
           /\ req'[r].fresh = req[r].fresh /\ req'[r].open = req[r].open
<1> DEFINE q == [req[r] EXCEPT !.at = "done", !.answer = a, !.child = "killed"]
<1>1. req[r] \in RequestState
  BY DEF TypeOK
<1>2. q \in RequestState
  BY <1>1 DEF RequestState, Childs
<1>3. Become(r, q)
  BY DEF Killed
<1>4. /\ req' \in [Requests -> RequestState] /\ req'[r] = q
      /\ \A s \in Requests \ {r} : req'[s] = req[s]
  BY <1>2, <1>3, Becomes
<1> QED BY <1>1, <1>4 DEF Only, Others, RequestState
----------------------------------------------------------------------------
(* What a step of one request leaves the others                            *)

LEMMA FailuresCounted ==
    ASSUME TypeOK, Works \/ Fail
    PROVE  failures' \in 0..MaxFailures
BY DEF TypeOK, Works, Fail

SessionType == [initialized: BOOLEAN, name: Harnesses \cup {NoHarness}]

\* A row or an approval of its own at most; the session only where it serves
\* one message at a time, and never back to before the handshake.
Frame(r) ==
    /\ Others(r)
    /\ UNCHANGED <<halt_marker, disabled, token, policy, acts, gctx>>
    /\ failures' \in 0..MaxFailures
    /\ ledger \subseteq ledger' /\ ledger' \subseteq ledger \cup ({r} \X Rows)
    /\ approvals \subseteq approvals' /\ approvals' \subseteq approvals \cup {r}
    /\ \/ UNCHANGED session
       \/ gctx.surface = "mcp" /\ session'.initialized /\ session' \in SessionType

\* A request that was not in flight leaves the session alone, and over stdio
\* takes off only when none is.
Joins(r) ==
    /\ UNCHANGED session
    /\ gctx.surface = "mcp" /\ Flight(r)' => \A s \in Requests : ~Flight(s)

LEMMA CarriesOn ==
    ASSUME IInv, NEW r \in Requests, Flight(r) \/ Joins(r), Frame(r), NEW d \in Requests \ {r}
    PROVE  LifeOf(d)' /\ EntryOf(d)' /\ GrantOf(d)' /\ RecordOf(d)'
<1>1. /\ req'[d] = req[d] /\ UNCHANGED <<disabled, token, gctx>>
      /\ LifeOf(d) /\ EntryOf(d) /\ GrantOf(d) /\ RecordOf(d)
  BY DEF Frame, Others, IInv, LifeInv, EntryInv, GrantInv, RecordInv
<1>2. Flight(d) => UNCHANGED session
  BY DEF IInv, SoloInv, Frame, Joins
<1>3. (Admitted(d) => Flight(d)) /\ (Granted(d) => Flight(d))
  BY DEF Admitted, Granted, Flight, Row
<1>4. LifeOf(d)'
  BY <1>1 DEF LifeOf, Row
<1>5. EntryOf(d)'
  BY <1>1, <1>2, <1>3 DEF EntryOf, Flight, Admitted, Row
<1>6. GrantOf(d)'
  BY <1>1, <1>2, <1>3 DEF GrantOf, Granted, Cleared, Row, permits, harness
<1>7. RecordOf(d)'
  <2>1. \A row \in {"ALLOW", "ASK"} : <<d, row>> \in ledger' <=> <<d, row>> \in ledger
    BY DEF Frame
  <2>2. d \in approvals => d \in approvals'
    BY DEF Frame
  <2> QED BY <1>1, <2>1, <2>2 DEF RecordOf, Row
<1> QED BY <1>4, <1>5, <1>6, <1>7

LEMMA Suffices ==
    ASSUME IInv, NEW r \in Requests, Flight(r) \/ Joins(r), Frame(r),
           LifeOf(r)', EntryOf(r)', GrantOf(r)', RecordOf(r)'
    PROVE  IInv'
<1>1. TypeOK'
  <2>1. ledger' \in SUBSET (Requests \X Rows) /\ approvals' \in SUBSET Requests
    BY DEF IInv, TypeOK, Frame
  <2> QED BY <2>1 DEF IInv, TypeOK, Frame, Others, SessionType
<1>2. \A d \in Requests : LifeOf(d)' /\ EntryOf(d)' /\ GrantOf(d)' /\ RecordOf(d)'
  BY CarriesOn
<1>3. SoloInv'
  <2>1. \A d \in Requests \ {r} : Flight(d)' <=> Flight(d)
    BY DEF Frame, Others, Flight
  <2>2. gctx' = gctx
    BY DEF Frame
  <2>3. SoloInv
    BY DEF IInv
  <2>4. CASE Flight(r)
    BY <2>1, <2>2, <2>3, <2>4 DEF SoloInv
  <2>5. CASE Joins(r)
    BY <2>1, <2>2, <2>3, <2>5 DEF SoloInv, Joins
  <2> QED BY <2>4, <2>5
<1> QED BY <1>1, <1>2, <1>3 DEF IInv, LifeInv, EntryInv, GrantInv, RecordInv

\* The facts about the request that steps, in one place.
LEMMA AtHand ==
    ASSUME IInv, NEW r \in Requests
    PROVE  /\ req[r] \in RequestState /\ req[r].in \in Arrivals
           /\ req[r].in \in Arrival
           /\ LifeOf(r) /\ EntryOf(r) /\ GrantOf(r) /\ RecordOf(r)
<1>1. req[r] \in RequestState
  BY DEF IInv, TypeOK
<1> QED BY <1>1 DEF RequestState, IInv, LifeInv, EntryInv, GrantInv, RecordInv

\* A step that only answers.
LEMMA RepliesKeep ==
    ASSUME IInv, NEW r \in Requests, Flight(r), NEW a \in Answers, Reply(r, a),
           Works \/ Fail, UNCHANGED <<Disk, Processes, Stores>>,
           a = "result" => \/ req[r].in.kind # "backend"
                           \/ req[r].child \in {"answered", "lingering"}
    PROVE  IInv'
<1>1. /\ Only(r) /\ req'[r].at = "done" /\ req'[r].answer = a
      /\ req'[r].child = req[r].child
      /\ req[r].child # "none" => req'[r].open = req[r].open
  BY Replies DEF IInv
<1>2. UNCHANGED <<halt_marker, disabled, token, policy, acts, gctx, session, ledger, approvals>>
  BY DEF Disk, Processes, Stores
<1>3. Frame(r)
  BY <1>1, <1>2, FailuresCounted DEF Frame, Only, IInv
<1>4. LifeOf(r) /\ RecordOf(r)
  BY AtHand
<1>5. LifeOf(r)' /\ EntryOf(r)' /\ GrantOf(r)'
  BY <1>1 DEF LifeOf, EntryOf, GrantOf, Flight, Admitted, Granted, Cleared, Row, Only
<1>6. RecordOf(r)'
  BY <1>1, <1>2, <1>4 DEF RecordOf, Row
<1> QED BY <1>3, <1>5, <1>6, Suffices

\* A step that only puts a row in hand which admits nothing, or one that does
\* and has what that takes.
LEMMA LogsKeep ==
    ASSUME IInv, NEW r \in Requests, Flight(r), NEW row \in Rows \ {"none"}, Log(r, row),
           req[r].at \notin {"record", "invoke", "spawn", "wait"},
           Works \/ Fail, UNCHANGED <<Disk, gctx, ledger>>,
           \/ UNCHANGED session
           \/ gctx.surface = "mcp" /\ session'.initialized /\ session' \in SessionType,
           approvals \subseteq approvals', approvals' \subseteq approvals \cup {r},
           row = "session" => req[r].in.kind = "initialize",
           row = "tool" => req[r].in.kind \in {"builtin", "classify"},
           row = "ASK" => r \in approvals',
           row \in {"ALLOW", "ASK", "BLOCK"} =>
             /\ Admitted(r) /\ UNCHANGED session
             /\ req[r].in.kind = "backend" /\ ~gctx.halted
             /\ permits(gctx.policy, harness(r), req[r].in.backend),
           row = "ALLOW" =>
             /\ req[r].in.tier \in {"T0", "T1", "T2"}
             /\ verdict_for(req[r].in.op, EstateKnown).decision = "ALLOW"
    PROVE  IInv'
<1>1. /\ Only(r) /\ req'[r].at = "record" /\ req'[r].row = row
      /\ req'[r].answer = req[r].answer /\ req'[r].child = req[r].child
      /\ req'[r].fresh = req[r].fresh /\ req'[r].open = req[r].open
      /\ req'[r].in = req[r].in
  BY Logs DEF IInv, Only
<1>2. UNCHANGED <<halt_marker, disabled, token, policy, acts, gctx, ledger>>
  BY DEF Disk
<1>3. Frame(r)
  BY <1>1, <1>2, FailuresCounted DEF Frame, Only, IInv
<1>4. LifeOf(r) /\ EntryOf(r) /\ RecordOf(r)
  BY AtHand
<1>5. LifeOf(r)'
  BY <1>1, <1>4 DEF LifeOf, Row, Flight
<1>6. EntryOf(r)'
  BY <1>1, <1>2, <1>4 DEF EntryOf, Flight, Admitted, Row
<1>7. GrantOf(r)'
  BY <1>1, <1>2 DEF GrantOf, Granted, Cleared, Row, permits, harness
<1>8. RecordOf(r)'
  BY <1>1, <1>2, <1>4 DEF RecordOf, Row, LifeOf
<1> QED BY <1>3, <1>5, <1>6, <1>7, <1>8, Suffices
----------------------------------------------------------------------------
(* The door and the gate                                                   *)

\* A request the door let past goes to the methods.
LEMMA EntersKeep ==
    ASSUME IInv, NEW r \in Requests, req[r].at = "door", Goto(r, "rpc"), Works,
           UNCHANGED <<Disk, Processes, Stores>>,
           verify(req[r].in.token), req[r].in.kind # "malformed",
           gctx.surface = "mcp" => session.initialized
    PROVE  IInv'
<1>1. /\ Only(r) /\ req'[r].at = "rpc" /\ req'[r].answer = req[r].answer
      /\ req'[r].child = req[r].child /\ req'[r].fresh = req[r].fresh
      /\ req'[r].open = req[r].open /\ req'[r].in = req[r].in
  BY Gotos DEF IInv, Only
<1>2. UNCHANGED <<halt_marker, disabled, token, policy, acts, gctx, session, ledger, approvals>>
  BY DEF Disk, Processes, Stores
<1>3. Frame(r) /\ Flight(r)
  BY <1>1, <1>2, FailuresCounted DEF Frame, Only, Flight, IInv
<1>4. LifeOf(r) /\ EntryOf(r) /\ RecordOf(r)
  BY AtHand
<1>5. LifeOf(r)'
  BY <1>1, <1>4 DEF LifeOf, Row
<1>6. EntryOf(r)'
  BY <1>1, <1>2, <1>3, <1>4 DEF EntryOf, Flight, verify
<1>7. GrantOf(r)'
  BY <1>1 DEF GrantOf, Granted, Cleared, Row
<1>8. RecordOf(r)'
  BY <1>1, <1>2, <1>4 DEF RecordOf, Row
<1> QED BY <1>3, <1>5, <1>6, <1>7, <1>8, Suffices

LEMMA PostKeeps ==
    ASSUME IInv, NEW r \in Requests, do_POST(r)
    PROVE  IInv'
<1>1. /\ req[r].at = "door" /\ Flight(r) /\ Works /\ gctx.surface = "http"
      /\ UNCHANGED <<Disk, Processes, Stores>> /\ UNCHANGED <<Disk, gctx, ledger>>
      /\ UNCHANGED session /\ UNCHANGED approvals
  BY DEF do_POST, Flight, Processes, Stores
<1>2. CASE Log(r, "unauthenticated")
  <2>1. "unauthenticated" \in Rows \ {"none"}
    BY DEF Rows
  <2> QED BY <1>1, <1>2, <2>1, LogsKeep
<1>3. CASE Reply(r, "error")
  BY <1>1, <1>3, RepliesKeep DEF Answers
<1>4. CASE Goto(r, "rpc") /\ verify(req[r].in.token) /\ req[r].in.kind # "malformed"
  BY <1>1, <1>4, EntersKeep
<1> QED BY <1>2, <1>3, <1>4 DEF do_POST

LEMMA MessageKeeps ==
    ASSUME IInv, NEW r \in Requests, handle_message(r)
    PROVE  IInv'
<1> DEFINE a == req[r].in
<1>1. /\ req[r].at = "door" /\ Flight(r) /\ Works /\ gctx.surface = "mcp"
      /\ UNCHANGED <<Disk, gctx, ledger>> /\ UNCHANGED <<gctx, Disk, Stores>>
      /\ UNCHANGED approvals /\ a \in Arrival
      /\ session \in SessionType
  BY AtHand DEF handle_message, Flight, Stores, IInv, TypeOK, SessionType
<1>2. CASE Log(r, "stood-down") /\ UNCHANGED session
  <2>1. "stood-down" \in Rows \ {"none"}
    BY DEF Rows
  <2> QED BY <1>1, <1>2, <2>1, LogsKeep
<1>3. CASE Log(r, "unauthenticated") /\ UNCHANGED session
  <2>1. "unauthenticated" \in Rows \ {"none"}
    BY DEF Rows
  <2> QED BY <1>1, <1>3, <2>1, LogsKeep
<1>4. CASE /\ a.kind = "initialize" /\ Log(r, "session")
           /\ session' = [initialized |-> TRUE, name |-> a.harness]
  <2>1. "session" \in Rows \ {"none"}
    BY DEF Rows
  <2>2. session' \in SessionType /\ session'.initialized
    BY <1>1, <1>4 DEF SessionType, Arrival
  <2> QED BY <1>1, <1>4, <2>1, <2>2, LogsKeep
<1>5. ASSUME NEW answer \in {"error", "silence"}, Reply(r, answer), UNCHANGED session
      PROVE  IInv'
  <2>1. UNCHANGED <<Disk, Processes, Stores>>
    BY <1>1, <1>5 DEF Processes
  <2> QED BY <1>1, <1>5, <2>1, RepliesKeep DEF Answers
<1>6. CASE /\ a.kind = "initialized" /\ Reply(r, "silence")
           /\ session' = [session EXCEPT !.initialized = TRUE]
  <2>1. session' \in SessionType /\ session'.initialized
    BY <1>1, <1>6 DEF SessionType
  <2>2. /\ Only(r) /\ req'[r].at = "done" /\ req'[r].answer = "silence"
        /\ req'[r].child = req[r].child
        /\ req[r].child # "none" => req'[r].open = req[r].open
    BY <1>6, Replies DEF IInv, Answers
  <2>3. UNCHANGED <<halt_marker, disabled, token, policy, acts, gctx, ledger, approvals>>
    BY <1>1 DEF Disk
  <2>4. Frame(r)
    BY <1>1, <2>1, <2>2, <2>3, FailuresCounted DEF Frame, Only, IInv
  <2>5. LifeOf(r)' /\ EntryOf(r)' /\ GrantOf(r)'
    BY <2>2 DEF LifeOf, EntryOf, GrantOf, Flight, Admitted, Granted, Cleared, Row
  <2>6. RecordOf(r)'
    BY <2>2, <2>3, AtHand DEF RecordOf, Row
  <2> QED BY <1>1, <2>4, <2>5, <2>6, Suffices
<1>7. CASE /\ Goto(r, "rpc") /\ session.initialized /\ UNCHANGED session
           /\ verify(a.token) /\ a.kind # "malformed"
  <2>1. UNCHANGED <<Disk, Processes, Stores>>
    BY <1>1, <1>7 DEF Processes
  <2> QED BY <1>1, <1>7, <2>1, EntersKeep
<1> QED BY <1>2, <1>3, <1>4, <1>5, <1>6, <1>7 DEF handle_message

\* A call the allowlist permits and the registry declares is filed or logged.
LEMMA BackendKeeps ==
    ASSUME IInv, NEW r \in Requests, req[r].at = "rpc", _dispatch_backend(r),
           Works, UNCHANGED <<Disk, Processes, Stores>>, ~gctx.halted,
           req[r].in.kind = "backend",
           permits(gctx.policy, harness(r), req[r].in.backend)
    PROVE  IInv'
<1> DEFINE a == req[r].in
           v == classify_call(a)
<1>1. /\ Flight(r) /\ Admitted(r) /\ a \in Arrivals
      /\ UNCHANGED <<Disk, gctx, ledger>> /\ UNCHANGED session /\ UNCHANGED approvals
  BY AtHand DEF Flight, Admitted, Processes, Stores
<1>2. CASE Reply(r, "refused")
  BY <1>1, <1>2, RepliesKeep DEF Answers
<1>3. CASE Log(r, v.decision) /\ v.decision # "ASK"
  <2>1. /\ v.decision \in {"ALLOW", "BLOCK"}
        /\ v.decision = "ALLOW" => /\ a.tier \in {"T0", "T1", "T2"}
                                   /\ verdict_for(a.op, EstateKnown).decision = "ALLOW"
    BY <1>1, <1>3, CallsClassified
  <2> DEFINE row == v.decision
  <2>2. row \in Rows \ {"none"} /\ row \notin {"session", "tool", "ASK"}
    BY <2>1 DEF Rows
  <2>3. Log(r, row)
    BY <1>3
  <2> HIDE DEF row
  <2> QED BY <1>1, <2>1, <2>2, <2>3, LogsKeep DEF row
<1>4. CASE Goto(r, "file")
  <2>1. /\ Only(r) /\ req'[r].at = "file" /\ req'[r].answer = req[r].answer
        /\ req'[r].child = req[r].child /\ req'[r].fresh = req[r].fresh
        /\ req'[r].open = req[r].open /\ req'[r].in = req[r].in
    BY <1>4, Gotos DEF IInv, Only
  <2>2. UNCHANGED <<halt_marker, disabled, token, policy, acts, gctx, session, ledger,
                    approvals>>
    BY DEF Disk, Processes, Stores
  <2>3. Frame(r)
    BY <2>1, <2>2, FailuresCounted DEF Frame, Only, IInv
  <2>4. LifeOf(r) /\ EntryOf(r) /\ RecordOf(r)
    BY AtHand
  <2>5. LifeOf(r)' /\ EntryOf(r)'
    BY <1>1, <2>1, <2>2, <2>4 DEF LifeOf, EntryOf, Flight, Admitted, Row
  <2>6. GrantOf(r)'
    BY <2>1, <2>2 DEF GrantOf, Granted, Cleared, Row, permits, harness
  <2>7. RecordOf(r)'
    BY <2>1, <2>2, <2>4 DEF RecordOf, Row
  <2> QED BY <1>1, <2>3, <2>5, <2>6, <2>7, Suffices
<1> QED BY <1>2, <1>3, <1>4 DEF _dispatch_backend

LEMMA RpcKeeps ==
    ASSUME IInv, NEW r \in Requests, handle_rpc(r)
    PROVE  IInv'
<1> DEFINE a == req[r].in
<1>1. /\ req[r].at = "rpc" /\ Flight(r) /\ Works /\ a \in Arrival
      /\ a.kind # "malformed"
      /\ UNCHANGED <<Disk, Processes, Stores>> /\ UNCHANGED <<Disk, gctx, ledger>>
      /\ UNCHANGED session /\ UNCHANGED approvals
  BY AtHand DEF handle_rpc, Flight, Processes, Stores, LifeOf
<1>2. ASSUME NEW answer \in {"error", "refused", "result"}, Reply(r, answer),
             answer = "result" => a.kind # "backend"
      PROVE  IInv'
  BY <1>1, <1>2, RepliesKeep DEF Answers
<1>3. ASSUME NEW row \in {"tool", "allowlist"}, Log(r, row),
             row = "tool" => a.kind \in {"builtin", "classify"}
      PROVE  IInv'
  <2>1. row \in Rows \ {"none"} /\ row \notin {"session", "ALLOW", "ASK", "BLOCK"}
    BY DEF Rows
  <2> QED BY <1>1, <1>3, <2>1, LogsKeep
<1>4. CASE dispatch_tool(r) /\ ~gctx.halted /\ a.kind \notin {"initialize", "initialized", "ping"}
  <2>1. a.kind \in {"builtin", "unknown", "classify", "backend"}
    BY <1>1, <1>4 DEF Arrival, Kinds
  <2>2. CASE a.kind = "builtin"
    BY <1>3, <1>4, <2>2 DEF dispatch_tool
  <2>3. CASE a.kind = "unknown"
    BY <1>2, <1>4, <2>3 DEF dispatch_tool
  <2>4. CASE a.kind = "classify"
    BY <1>2, <1>3, <1>4, <2>4 DEF dispatch_tool
  <2>5. CASE a.kind = "backend"
    BY <1>1, <1>2, <1>3, <1>4, <2>5, BackendKeeps DEF dispatch_tool
  <2> QED BY <2>1, <2>2, <2>3, <2>4, <2>5
<1> QED BY <1>2, <1>4 DEF handle_rpc

LEMMA FileKeeps ==
    ASSUME IInv, NEW r \in Requests, file_approval(r)
    PROVE  IInv'
<1>1. /\ req[r].at = "file" /\ Flight(r) /\ Granted(r) /\ Admitted(r)
      /\ UNCHANGED <<Disk, Processes, ledger>> /\ GrantOf(r)
  BY AtHand DEF file_approval, Flight, Granted, Admitted
<1>2. CASE approvals' = approvals \cup {r} /\ Log(r, "ASK") /\ Works
  <2>1. "ASK" \in Rows \ {"none"}
    BY DEF Rows
  <2>2. UNCHANGED <<Disk, gctx, ledger>> /\ UNCHANGED session
    BY <1>1 DEF Processes
  <2> QED BY <1>1, <1>2, <2>1, <2>2, LogsKeep DEF GrantOf
<1>3. CASE UNCHANGED approvals /\ Reply(r, "error") /\ Fail
  <2>1. UNCHANGED <<Disk, Processes, Stores>>
    BY <1>1, <1>3 DEF Stores
  <2> QED BY <1>1, <1>3, <2>1, RepliesKeep DEF Answers
<1> QED BY <1>2, <1>3 DEF file_approval
----------------------------------------------------------------------------
(* The record and the transport                                            *)

\* The answer a row earns once it is appended.
LEMMA AnsweredRowKeeps ==
    ASSUME IInv, NEW r \in Requests, req[r].at = "record", NEW a \in Answers, Reply(r, a),
           ledger' = ledger \cup {<<r, req[r].row>>}, UNCHANGED <<Disk, Processes, approvals>>,
           Works, a = "result" => req[r].in.kind # "backend"
    PROVE  IInv'
<1>1. /\ Only(r) /\ req'[r].at = "done" /\ req'[r].answer = a
      /\ req'[r].child = req[r].child
      /\ req[r].child # "none" => req'[r].open = req[r].open
  BY Replies DEF IInv
<1>2. UNCHANGED <<halt_marker, disabled, token, policy, acts, gctx, session, approvals>>
  BY DEF Disk, Processes
<1>3. req[r].row \in Rows /\ LifeOf(r) /\ RecordOf(r)
  BY AtHand DEF RequestState
<1>4. Frame(r) /\ Flight(r)
  BY <1>1, <1>2, <1>3, FailuresCounted DEF Frame, Only, IInv, Flight
<1>5. LifeOf(r)' /\ EntryOf(r)' /\ GrantOf(r)'
  BY <1>1 DEF LifeOf, EntryOf, GrantOf, Flight, Admitted, Granted, Cleared, Row, Only
<1>6. RecordOf(r)'
  BY <1>1, <1>2, <1>3 DEF RecordOf, Row, LifeOf
<1> QED BY <1>4, <1>5, <1>6, Suffices

LEMMA AppendKeeps ==
    ASSUME IInv, NEW r \in Requests, append_event(r)
    PROVE  IInv'
<1> DEFINE row == req[r].row
<1>1. /\ req[r].at = "record" /\ Flight(r) /\ row \in Rows \ {"none"}
      /\ LifeOf(r) /\ EntryOf(r) /\ GrantOf(r) /\ RecordOf(r) /\ Row(r) = row
      /\ UNCHANGED <<Disk, Processes, approvals>>
      /\ UNCHANGED <<halt_marker, disabled, token, policy, acts, gctx, session, approvals>>
  BY AtHand DEF append_event, Flight, Row, RequestState, LifeOf, Disk, Processes
<1>2. CASE UNCHANGED ledger /\ Reply(r, "error") /\ Fail
  <2>1. UNCHANGED <<Disk, Processes, Stores>>
    BY <1>1, <1>2 DEF Stores
  <2> QED BY <1>1, <1>2, <2>1, RepliesKeep DEF Answers
<1>3. CASE ledger' = ledger \cup {<<r, row>>} /\ AfterRow(r) /\ Works
  <2>1. CASE row # "ALLOW"
    <3>1. row \in {"session", "tool"} => req[r].in.kind # "backend"
      BY <1>1 DEF LifeOf
    <3>2. \E a \in {"refused", "result", "silence", "error"} :
             Reply(r, a) /\ (a = "result" => req[r].in.kind # "backend")
      BY <1>1, <1>3, <2>1, <3>1 DEF AfterRow, Rows
    <3> QED BY <1>1, <1>3, <3>2, AnsweredRowKeeps DEF Answers
  <2>2. CASE row = "ALLOW"
    <3> DEFINE q == [req[r] EXCEPT !.at = "invoke", !.row = "none", !.open = ~disabled]
    <3>1. req[r] \in RequestState /\ (~disabled) \in BOOLEAN
      BY AtHand
    <3>2. q \in RequestState
      BY <3>1 DEF RequestState, Rows
    <3>3. Become(r, q)
      BY <1>3, <2>2 DEF AfterRow
    <3>4. /\ req' \in [Requests -> RequestState] /\ req'[r] = q
          /\ \A s \in Requests \ {r} : req'[s] = req[s]
      BY <3>2, <3>3, Becomes DEF IInv
    <3>5. /\ Only(r) /\ req'[r].at = "invoke" /\ req'[r].row = "none"
          /\ req'[r].answer = req[r].answer /\ req'[r].child = req[r].child
          /\ req'[r].fresh = req[r].fresh /\ req'[r].open = ~disabled
          /\ req'[r].in = req[r].in
      BY <3>1, <3>4 DEF Only, Others, RequestState
    <3>6. Frame(r)
      BY <1>1, <1>3, <3>5, FailuresCounted DEF Frame, Only, IInv
    <3>7. LifeOf(r)'
      BY <1>1, <3>5 DEF LifeOf, Row
    <3>8. EntryOf(r)'
      BY <1>1, <2>2, <3>5 DEF EntryOf, Flight, Admitted, Row
    <3>9. GrantOf(r)'
      BY <1>1, <2>2, <3>5 DEF GrantOf, Granted, Cleared, Row, permits, harness
    <3>10. RecordOf(r)'
      BY <1>1, <1>3, <2>2, <3>5 DEF RecordOf, Row, LifeOf, IInv, TypeOK
    <3> QED BY <1>1, <3>6, <3>7, <3>8, <3>9, <3>10, Suffices
  <2> QED BY <2>1, <2>2
<1> QED BY <1>2, <1>3 DEF append_event

LEMMA InvokeKeeps ==
    ASSUME IInv, NEW r \in Requests, invoke(r)
    PROVE  IInv'
<1>1. /\ req[r].at = "invoke" /\ Flight(r) /\ Works
      /\ UNCHANGED <<Disk, Processes, Stores>>
      /\ LifeOf(r) /\ EntryOf(r) /\ GrantOf(r) /\ RecordOf(r)
      /\ UNCHANGED <<halt_marker, disabled, token, policy, acts, gctx, session, ledger,
                     approvals>>
  BY AtHand DEF invoke, Flight, Disk, Processes, Stores
<1>2. CASE Reply(r, "refused")
  BY <1>1, <1>2, RepliesKeep DEF Answers
<1>3. CASE Goto(r, "spawn") /\ ~disabled /\ req[r].in.backend \in Commands
  <2>1. /\ Only(r) /\ req'[r].at = "spawn" /\ req'[r].answer = req[r].answer
        /\ req'[r].child = req[r].child /\ req'[r].fresh = req[r].fresh
        /\ req'[r].open = req[r].open /\ req'[r].in = req[r].in
    BY <1>3, Gotos DEF IInv, Only
  <2>2. Frame(r)
    BY <1>1, <2>1, FailuresCounted DEF Frame, Only, IInv
  <2>3. LifeOf(r)' /\ EntryOf(r)'
    BY <1>1, <2>1 DEF LifeOf, EntryOf, Flight, Admitted, Row
  <2>4. GrantOf(r)'
    BY <1>1, <1>3, <2>1 DEF GrantOf, Granted, Cleared, Row, permits, harness
  <2>5. RecordOf(r)'
    BY <1>1, <1>3, <2>1 DEF RecordOf, Row, LifeOf
  <2> QED BY <1>1, <2>2, <2>3, <2>4, <2>5, Suffices
<1> QED BY <1>2, <1>3 DEF invoke

\* A step of the child, or the one that starts it.
LEMMA ChildrenKeep ==
    ASSUME IInv, NEW r \in Requests, NEW c \in Childs \ {"none"},
           \/ req[r].at = "spawn" /\ Become(r, [req[r] EXCEPT !.at = "wait", !.child = c])
           \/ req[r].at = "wait" /\ req[r].child # "none"
                /\ Become(r, [req[r] EXCEPT !.child = c]),
           Works, UNCHANGED <<Disk, Processes, Stores>>
    PROVE  IInv'
<1> DEFINE q == [req[r] EXCEPT !.at = "wait", !.child = c]
<1>1. /\ req[r] \in RequestState /\ Flight(r)
      /\ LifeOf(r) /\ EntryOf(r) /\ GrantOf(r) /\ RecordOf(r)
      /\ UNCHANGED <<halt_marker, disabled, token, policy, acts, gctx, session, ledger,
                     approvals>>
  BY AtHand DEF Flight, Disk, Processes, Stores
<1>2. q \in RequestState
  BY <1>1 DEF RequestState
<1>3. Become(r, q)
  <2>1. req[r].at = "wait" => [req[r] EXCEPT !.child = c] = q
    BY <1>1 DEF RequestState
  <2> QED BY <2>1
<1>4. /\ req' \in [Requests -> RequestState] /\ req'[r] = q
      /\ \A s \in Requests \ {r} : req'[s] = req[s]
  BY <1>2, <1>3, Becomes DEF IInv
<1>5. /\ Only(r) /\ req'[r].at = "wait" /\ req'[r].answer = req[r].answer
      /\ req'[r].child = c /\ req'[r].fresh = req[r].fresh
      /\ req'[r].open = req[r].open /\ req'[r].in = req[r].in
  BY <1>1, <1>4 DEF Only, Others, RequestState
<1>6. Frame(r)
  BY <1>1, <1>5, FailuresCounted DEF Frame, Only, IInv
<1>7. LifeOf(r)' /\ EntryOf(r)'
  BY <1>1, <1>5 DEF LifeOf, EntryOf, Flight, Admitted, Row
<1>8. GrantOf(r)'
  BY <1>1, <1>5 DEF GrantOf, Granted, Cleared, Row, permits, harness
<1>9. RecordOf(r)'
  BY <1>1, <1>5 DEF RecordOf, Row
<1> QED BY <1>1, <1>6, <1>7, <1>8, <1>9, Suffices

LEMMA RunKeeps ==
    ASSUME IInv, NEW r \in Requests, _run(r)
    PROVE  IInv'
<1>1. CASE Reply(r, "refused")
  BY <1>1, RepliesKeep DEF _run, Answers, Flight
<1>2. CASE Become(r, [req[r] EXCEPT !.at = "wait", !.child = "running"]) /\ Works
  <2>1. "running" \in Childs \ {"none"}
    BY DEF Childs
  <2> QED BY <1>2, <2>1, ChildrenKeep DEF _run, Flight
<1> QED BY <1>1, <1>2 DEF _run

LEMMA KillsKeep ==
    ASSUME IInv, NEW r \in Requests, req[r].at = "wait", req[r].child # "none",
           Killed(r, "refused"), Works, UNCHANGED <<Disk, Processes, Stores>>
    PROVE  IInv'
<1>1. /\ Only(r) /\ req'[r].at = "done" /\ req'[r].answer = "refused"
      /\ req'[r].child = "killed" /\ req'[r].open = req[r].open
  BY Kills DEF IInv, Answers
<1>2. UNCHANGED <<halt_marker, disabled, token, policy, acts, gctx, session, ledger, approvals>>
  BY DEF Disk, Processes, Stores
<1>3. Frame(r) /\ Flight(r)
  BY <1>1, <1>2, FailuresCounted DEF Frame, Only, IInv, Flight
<1>4. LifeOf(r)' /\ EntryOf(r)' /\ GrantOf(r)'
  BY <1>1 DEF LifeOf, EntryOf, GrantOf, Flight, Admitted, Granted, Cleared, Row
<1>5. RecordOf(r)'
  BY <1>1, <1>2, AtHand DEF RecordOf, Row
<1> QED BY <1>3, <1>4, <1>5, Suffices

LEMMA CollectKeeps ==
    ASSUME IInv, NEW r \in Requests, Collect(r) \/ Timeout(r)
    PROVE  IInv'
<1>1. /\ req[r].at = "wait" /\ req[r].child # "none" /\ Flight(r) /\ Works
      /\ UNCHANGED <<Disk, Processes, Stores>>
  BY DEF Collect, Timeout, Flight
<1>2. CASE Killed(r, "refused")
  BY <1>1, <1>2, KillsKeep
<1>3. ASSUME NEW a \in {"result", "refused"}, Reply(r, a),
             a = "result" => req[r].child \in {"answered", "lingering"}
      PROVE  IInv'
  BY <1>1, <1>3, RepliesKeep DEF Answers
<1> QED BY <1>1, <1>2, <1>3 DEF Collect, Timeout
\* The child's own step, while it is waited for or after its process is gone.
LEMMA ChildKeeps ==
    ASSUME IInv, NEW r \in Requests, Child(r)
    PROVE  IInv'
<1>1. PICK c \in {"answered", "lingering", "flooding", "failed"} :
         Become(r, [req[r] EXCEPT !.child = c])
  BY DEF Child
<1>2. /\ req[r].child = "running" /\ c \in Childs \ {"none"} /\ Works
      /\ UNCHANGED <<Disk, Processes, Stores>>
      /\ req[r] \in RequestState /\ LifeOf(r) /\ RecordOf(r)
      /\ UNCHANGED <<halt_marker, disabled, token, policy, acts, gctx, session, ledger,
                     approvals>>
  BY AtHand DEF Child, Childs, Disk, Processes, Stores
<1>3. CASE req[r].at = "wait"
  BY <1>1, <1>2, <1>3, ChildrenKeep
<1>4. CASE req[r].at # "wait"
  <2> DEFINE q == [req[r] EXCEPT !.child = c]
  <2>1. req[r].at = "done"
    BY <1>2, <1>4 DEF LifeOf
  <2>2. q \in RequestState
    BY <1>2 DEF RequestState
  <2>3. /\ req' \in [Requests -> RequestState] /\ req'[r] = q
        /\ \A s \in Requests \ {r} : req'[s] = req[s]
    BY <1>1, <2>2, Becomes DEF IInv
  <2>4. /\ Only(r) /\ req'[r].at = "done" /\ req'[r].answer = req[r].answer
        /\ req'[r].child = c /\ req'[r].open = req[r].open /\ req'[r].in = req[r].in
    BY <1>2, <2>1, <2>3 DEF Only, Others, RequestState
  <2>5. Frame(r) /\ Joins(r)
    BY <1>2, <2>4, FailuresCounted DEF Frame, Only, IInv, Joins, Flight
  <2>6. LifeOf(r)' /\ EntryOf(r)' /\ GrantOf(r)'
    BY <1>2, <2>4 DEF LifeOf, EntryOf, GrantOf, Flight, Admitted, Granted, Cleared, Row
  <2>7. RecordOf(r)'
    BY <1>2, <2>1, <2>4 DEF RecordOf, Row
  <2> QED BY <2>5, <2>6, <2>7, Suffices
<1> QED BY <1>3, <1>4

LEMMA ArriveKeeps ==
    ASSUME IInv, NEW r \in Requests, Arrive(r)
    PROVE  IInv'
<1>1. PICK a \in Arrivals :
        /\ a.token <= token
        /\ Become(r, [req[r] EXCEPT !.at = "door", !.in = a,
                                    !.fresh = a.token # 0 /\ a.token = token])
  BY DEF Arrive
<1> DEFINE f == a.token # 0 /\ a.token = token
           q == [req[r] EXCEPT !.at = "door", !.in = a, !.fresh = f]
<1>2. /\ req[r].at = "idle" /\ gctx.up
      /\ gctx.surface = "mcp" => \A s \in Requests : ~Flight(s)
      /\ Works /\ req[r] \in RequestState /\ LifeOf(r) /\ RecordOf(r)
      /\ UNCHANGED <<halt_marker, disabled, token, policy, acts, gctx, session, ledger,
                     approvals>>
  BY AtHand DEF Arrive, InFlight, Flight, Disk, Processes, Stores
<1>3. f \in BOOLEAN
  OBVIOUS
<1>4. Become(r, q)
  BY <1>1
<1> HIDE DEF f
<1>5. q \in RequestState
  BY <1>2, <1>3 DEF RequestState
<1>6. /\ req' \in [Requests -> RequestState] /\ req'[r] = q
      /\ \A s \in Requests \ {r} : req'[s] = req[s]
  BY <1>4, <1>5, Becomes DEF IInv
<1>7. /\ req'[r].at = "door" /\ req'[r].answer = req[r].answer
      /\ req'[r].child = req[r].child /\ req'[r].fresh = f
      /\ req'[r].open = req[r].open /\ req'[r].in = a
  BY <1>2, <1>6 DEF RequestState
<1> HIDE DEF q
<1>8. Frame(r) /\ Joins(r)
  BY <1>2, <1>6, FailuresCounted DEF Frame, Others, Joins, IInv
<1>9. LifeOf(r)'
  BY <1>2, <1>7 DEF LifeOf, Row
<1>10. EntryOf(r)'
  BY <1>1, <1>2, <1>7 DEF EntryOf, Flight, Admitted, Row, f
<1>11. GrantOf(r)'
  BY <1>7 DEF GrantOf, Granted, Cleared, Row
<1>12. RecordOf(r)'
  BY <1>2, <1>7 DEF RecordOf, Row, LifeOf
<1> QED BY <1>8, <1>9, <1>10, <1>11, <1>12, Suffices
----------------------------------------------------------------------------
(* The process and the operator                                            *)

\* A step that leaves every request as it is, and the process.
LEMMA RestKeeps ==
    ASSUME IInv, TypeOK', UNCHANGED <<req, gctx, session, ledger, approvals, disabled>>,
           token' = token \/ token' = token + 1
    PROVE  IInv'
<1>1. ASSUME NEW d \in Requests
      PROVE  LifeOf(d)' /\ EntryOf(d)' /\ GrantOf(d)' /\ RecordOf(d)'
  <2>1. LifeOf(d) /\ EntryOf(d) /\ GrantOf(d) /\ RecordOf(d)
    BY AtHand
  <2>2. LifeOf(d)' /\ RecordOf(d)'
    BY <2>1 DEF LifeOf, RecordOf, Row
  <2>3. GrantOf(d)'
    BY <2>1 DEF GrantOf, Granted, Cleared, Row, permits, harness
  <2>4. EntryOf(d)'
    <3>1. token \in Nat /\ req[d].in.token \in Nat
      BY AtHand DEF IInv, TypeOK, Arrival
    <3>2. req[d].in.token <= token => /\ req[d].in.token <= token'
                                      /\ req[d].in.token = token' => token' = token
      BY <3>1
    <3> QED BY <2>1, <3>2 DEF EntryOf, Flight, Admitted, Row
  <2> QED BY <2>2, <2>3, <2>4
<1>2. SoloInv'
  BY DEF IInv, SoloInv, Flight
<1> QED BY <1>1, <1>2 DEF IInv, LifeInv, EntryInv, GrantInv, RecordInv

LEMMA OperatorKeeps ==
    ASSUME IInv, mint \/ Stand \/ EditPolicy
    PROVE  IInv'
<1>1. /\ UNCHANGED <<req, gctx, session, ledger, approvals, disabled>>
      /\ token' = token \/ token' = token + 1
  BY DEF mint, Stand, EditPolicy, Processes, Stores
<1>2. TypeOK'
  <2>1. CASE mint
    BY <2>1, FailuresCounted DEF mint, IInv, TypeOK, Processes, Stores
  <2>2. CASE Stand
    BY <2>2, FailuresCounted DEF Stand, IInv, TypeOK, Processes, Stores, Act
  <2>3. CASE EditPolicy
    BY <2>3, FailuresCounted DEF EditPolicy, IInv, TypeOK, Processes, Stores, Act
  <2> QED BY <2>1, <2>2, <2>3
<1> QED BY <1>1, <1>2, RestKeeps

\* The kill switch: a permitted call that waits to be invoked sees it lifted.
LEMMA SwitchKeeps ==
    ASSUME IInv, Switch
    PROVE  IInv'
<1> DEFINE lifted(r) == req[r].open \/ (disabled /\ req[r].at = "invoke")
           q(r) == [req[r] EXCEPT !.open = lifted(r)]
<1>1. /\ disabled' = ~disabled /\ acts' \in 0..MaxActs /\ failures' \in 0..MaxFailures
      /\ UNCHANGED <<halt_marker, token, policy, gctx, session, ledger, approvals>>
  BY FailuresCounted DEF Switch, Act, Processes, Stores, IInv, TypeOK
<1>2. \A r \in Requests : req[r] \in RequestState
  BY DEF IInv, TypeOK
<1>3. req' = [r \in Requests |-> q(r)]
  BY <1>2 DEF Switch, RequestState
<1>4. \A r \in Requests : lifted(r) \in BOOLEAN
  BY <1>2 DEF RequestState
<1> HIDE DEF lifted
<1>5. \A r \in Requests : q(r) \in RequestState
  BY <1>2, <1>4 DEF RequestState
<1>6. req' \in [Requests -> RequestState]
  BY <1>3, <1>5
<1>7. ASSUME NEW r \in Requests
      PROVE  /\ req'[r].at = req[r].at /\ req'[r].in = req[r].in
             /\ req'[r].row = req[r].row /\ req'[r].answer = req[r].answer
             /\ req'[r].child = req[r].child /\ req'[r].fresh = req[r].fresh
             /\ req'[r].open = lifted(r)
  BY <1>2, <1>3 DEF RequestState
<1>8. TypeOK'
  BY <1>1, <1>6 DEF IInv, TypeOK
<1>9. ASSUME NEW r \in Requests
      PROVE  LifeOf(r)' /\ EntryOf(r)' /\ GrantOf(r)' /\ RecordOf(r)'
  <2>1. LifeOf(r) /\ EntryOf(r) /\ GrantOf(r) /\ RecordOf(r)
    BY AtHand
  <2>2. LifeOf(r)' /\ EntryOf(r)'
    BY <1>1, <1>7, <2>1 DEF LifeOf, EntryOf, Flight, Admitted, Row
  <2>3. GrantOf(r)'
    BY <1>1, <1>7, <2>1 DEF GrantOf, Granted, Cleared, Row, permits, harness
  <2>4. RecordOf(r)'
    BY <1>1, <1>7, <2>1 DEF RecordOf, Row, lifted, IInv, TypeOK
  <2> QED BY <2>2, <2>3, <2>4
<1>10. SoloInv'
  BY <1>1, <1>7 DEF IInv, SoloInv, Flight
<1> QED BY <1>8, <1>9, <1>10 DEF IInv, LifeInv, EntryInv, GrantInv, RecordInv

\* A process that starts has no request to serve yet.
LEMMA LoadKeeps ==
    ASSUME IInv, load_gateway_context
    PROVE  IInv'
<1>1. /\ ~gctx.up /\ UNCHANGED <<req, halt_marker, disabled, token, policy, acts, ledger,
                                 approvals>>
  BY DEF load_gateway_context, Disk, Stores
<1>2. gctx' \in Context /\ session' \in SessionType
  BY DEF load_gateway_context, IInv, TypeOK, Context, NewSession, SessionType
<1>3. failures' \in 0..MaxFailures
  BY FailuresCounted DEF load_gateway_context, IInv
<1>4. TypeOK'
  BY <1>1, <1>2, <1>3 DEF IInv, TypeOK, SessionType
<1>5. \A r \in Requests : ~Flight(r)
  BY <1>1, AtHand DEF EntryOf
<1>6. ASSUME NEW r \in Requests
      PROVE  LifeOf(r)' /\ EntryOf(r)' /\ GrantOf(r)' /\ RecordOf(r)'
  <2>1. req[r].at \in {"idle", "done"} /\ LifeOf(r) /\ RecordOf(r)
    BY <1>5, AtHand DEF Flight
  <2> QED BY <1>1, <2>1 DEF LifeOf, EntryOf, GrantOf, RecordOf, Flight, Admitted, Granted,
                            Cleared, Row
<1>7. SoloInv'
  BY <1>1, <1>5 DEF SoloInv, Flight
<1> QED BY <1>4, <1>6, <1>7 DEF IInv, LifeInv, EntryInv, GrantInv, RecordInv

\* A process that dies leaves nothing in flight.
LEMMA StopKeeps ==
    ASSUME IInv, Stop
    PROVE  IInv'
<1> DEFINE q(r) == IF r \in InFlight
                   THEN [req[r] EXCEPT !.at = "done", !.answer = "lost", !.row = "none"]
                   ELSE req[r]
<1>1. /\ UNCHANGED <<session, halt_marker, disabled, token, policy, acts, ledger, approvals>>
      /\ gctx' = NoProcess /\ req' = [r \in Requests |-> q(r)]
  BY DEF Stop, Disk, Stores
<1>2. \A r \in Requests : req[r] \in RequestState
  BY DEF IInv, TypeOK
<1>3. \A r \in Requests : q(r) \in RequestState
  BY <1>2 DEF RequestState, Answers, Rows
<1>4. ASSUME NEW r \in Requests
      PROVE  /\ req'[r].in = req[r].in /\ req'[r].child = req[r].child
             /\ req'[r].open = req[r].open
             /\ req'[r].at \in {"idle", "done"}
             /\ \/ req'[r].answer = "lost" /\ req'[r].at = "done"
                \/ req'[r] = req[r]
  BY <1>1, <1>2 DEF InFlight, RequestState
<1>5. TypeOK'
  <2>1. gctx' \in Context
    BY <1>1 DEF NoProcess, Context, Surfaces
  <2>2. failures' \in 0..MaxFailures
    BY FailuresCounted DEF Stop, IInv
  <2>3. req' \in [Requests -> RequestState]
    BY <1>1, <1>3
  <2> QED BY <1>1, <2>1, <2>2, <2>3 DEF IInv, TypeOK
<1>6. ASSUME NEW r \in Requests
      PROVE  LifeOf(r)' /\ EntryOf(r)' /\ GrantOf(r)' /\ RecordOf(r)'
  <2>1. LifeOf(r) /\ RecordOf(r)
    BY AtHand
  <2>2. LifeOf(r)' /\ EntryOf(r)' /\ GrantOf(r)'
    BY <1>4, <2>1 DEF LifeOf, EntryOf, GrantOf, Flight, Admitted, Granted, Cleared, Row
  <2>3. RecordOf(r)'
    BY <1>1, <1>4, <2>1 DEF RecordOf, Row
  <2> QED BY <2>2, <2>3
<1>7. SoloInv'
  BY <1>4 DEF SoloInv, Flight
<1> QED BY <1>5, <1>6, <1>7 DEF IInv, LifeInv, EntryInv, GrantInv, RecordInv
----------------------------------------------------------------------------
(* The theorems                                                            *)

LEMMA InitInv == Init => IInv
<1> SUFFICES ASSUME Init PROVE IInv
  OBVIOUS
<1> DEFINE fresh == [at |-> "idle", in |-> CHOOSE a \in Arrivals : TRUE, row |-> "none",
                     answer |-> "none", child |-> "none", fresh |-> FALSE, open |-> FALSE]
<1>1. req = [r \in Requests |-> fresh]
  BY DEF Init
<1>2. fresh \in RequestState
  BY DEF RequestState, Rows, Answers, Childs
<1>3. fresh.at = "idle" /\ fresh.answer = "none" /\ fresh.child = "none"
  OBVIOUS
<1> HIDE DEF fresh
<1>4. TypeOK
  <2>1. gctx \in Context
    BY DEF Init, NoProcess, Context, Surfaces
  <2>2. session \in SessionType
    BY DEF Init, NewSession, SessionType
  <2>3. req \in [Requests -> RequestState]
    BY <1>1, <1>2
  <2>4. token \in 0..MaxMints /\ acts \in 0..MaxActs /\ failures \in 0..MaxFailures
    BY DEF Init
  <2> QED BY <2>1, <2>2, <2>3, <2>4 DEF Init, TypeOK, SessionType
<1>5. ASSUME NEW r \in Requests
      PROVE  LifeOf(r) /\ EntryOf(r) /\ GrantOf(r) /\ RecordOf(r) /\ ~Flight(r)
  <2>1. /\ req[r].at = "idle" /\ req[r].answer = "none" /\ req[r].child = "none"
        /\ ledger = {}
    BY <1>1, <1>3 DEF Init
  <2> QED BY <2>1 DEF LifeOf, EntryOf, GrantOf, RecordOf, Flight, Admitted, Granted, Cleared, Row
<1> QED BY <1>4, <1>5 DEF IInv, LifeInv, EntryInv, GrantInv, RecordInv, SoloInv

LEMMA StepInv == IInv /\ [Next]_vars => IInv'
<1> SUFFICES ASSUME IInv, [Next]_vars PROVE IInv'
  OBVIOUS
<1>1. CASE UNCHANGED vars
  <2>1. TypeOK'
    BY <1>1 DEF vars, IInv, TypeOK
  <2> QED BY <1>1, <2>1, RestKeeps DEF vars
<1>2. ASSUME NEW r \in Requests, Arrive(r) \/ Serve(r) \/ Child(r)
      PROVE  IInv'
  BY <1>2, ArriveKeeps, PostKeeps, MessageKeeps, RpcKeeps, FileKeeps, AppendKeeps,
     InvokeKeeps, RunKeeps, CollectKeeps, ChildKeeps DEF Serve
<1>3. CASE load_gateway_context \/ Stop
  BY <1>3, LoadKeeps, StopKeeps
<1>4. CASE mint \/ Stand \/ Switch \/ EditPolicy
  BY <1>4, OperatorKeeps, SwitchKeeps
<1> QED BY <1>1, <1>2, <1>3, <1>4 DEF Next

LEMMA Invariant == Spec => []IInv
BY InitInv, StepInv, PTL DEF Spec

\* The gateway's state stays of its type whatever callers send (server.py,
\* mcp.py, tools.py, transport.py).
THEOREM TypeCorrect == Spec => []TypeOK
<1>1. IInv => TypeOK
  BY DEF IInv
<1> QED BY <1>1, Invariant, PTL

\* A child runs only on record, only where every check permitted it and never
\* past the kill switch; an ASK is on record only if it is filed, and a result
\* comes only from a whole answer (tools.handle_rpc, ledger.append_event,
\* StdioInvoker).
THEOREM ExecutesRightly == Spec => []ExecutedRightly
<1>1. ASSUME IInv PROVE ExecutedOnRecord /\ KillSwitchHonoured /\ AskIsFiled
  BY <1>1, AtHand DEF RecordOf, ExecutedOnRecord, KillSwitchHonoured, AskIsFiled, Spawned
<1>2. ASSUME IInv PROVE ExecutedWasPermitted
  BY <1>2, AtHand DEF EntryOf, GrantOf, Admitted, Granted, Cleared, permits,
                      ExecutedWasPermitted
<1>3. ASSUME IInv PROVE NoHollowResult
  BY <1>3, AtHand DEF LifeOf, NoHollowResult
<1>4. IInv => ExecutedRightly
  BY <1>1, <1>2, <1>3 DEF ExecutedRightly
<1> QED BY <1>4, Invariant, PTL
=============================================================================
