-------------------------------- MODULE Mcp --------------------------------
(***************************************************************************)
(* packages/intentops-saddle-mcp: one stdio server (server.py,             *)
(* protocol.py, tools.py, discover.py), what it reads of the node          *)
(* (node.py, registry.py, auth.py), its ledger (ledger.py), and the        *)
(* reference client that asks it before it acts (reference_client.py).     *)
(*                                                                         *)
(* The stand-down marker, the estate map and the allowlist row are read    *)
(* once, when the server starts; the auth record on every request.  The    *)
(* client waits for one line with a timeout; a line that comes later stays *)
(* in the queue its reader thread fills.  `party` says who holds the other *)
(* end of the pipe: the reference client, or a host that sends anything.   *)
(* Texts, hints and renderings are left out; a token is a number.          *)
(***************************************************************************)
EXTENDS Gate, Sequences, FiniteSets

CONSTANTS
  Ops,           \* the operations asked about, as module Gate describes them
  Clients,       \* client names; NoName is none of them
  NoName,
  Grades,        \* the rows of calibration-grades.jsonl: hit, miss, malformed
  BarRulings,    \* CALIBRATION_BAR_RULINGS
  BarPercent,    \* CALIBRATION_BAR_ACCURACY, in per cent
  MaxRequests,   \* bound on the requests of one connection
  MaxEdits       \* bound on the operator's changes to the node

ASSUME McpAssumption ==
  /\ NoName \notin Clients
  /\ {MaxRequests, MaxEdits, BarRulings, BarPercent} \subseteq Nat

VARIABLES
  party,       \* "client" or "host"
  node,        \* the disk: [marker, estate, allowed, record, ledgerUp, repo]
  server,      \* [up, halted, known, row, initialized, name, repo]
  inbox,       \* the server's stdin
  outbox,      \* the lines of its stdout the other end has not read
  caller,      \* the reference client: [phase, id, op]
  ledger,      \* the rows of the saddle's ledger
  performed,   \* effects the client performed, with the request each answers
  late,        \* some request has timed out
  edits

mcpVars == <<party, node, server, inbox, outbox, caller, ledger, performed,
             late, edits>>

Tokens   == 1 .. MaxEdits + 1
NoRow    == {NoName}                  \* the row could not be read
Estates  == {"absent", "readable", "unreadable"}
NoOp     == <<>>
Surface  == {"classify", "gate", "status", "council", "imprint_verify", "discover"}
DownServer == [up |-> FALSE, halted |-> FALSE, known |-> FALSE, row |-> {},
               initialized |-> FALSE, name |-> NoName, repo |-> FALSE]

McpInit ==
  /\ party \in {"client", "host"}
  /\ node \in [marker: BOOLEAN, estate: Estates, allowed: {{}, Clients, NoRow},
               record: {0, 1}, ledgerUp: {TRUE}, repo: BOOLEAN]
  /\ server = DownServer
  /\ inbox = <<>> /\ outbox = <<>>
  /\ caller = [phase |-> "off", id |-> 0, op |-> NoOp]
  /\ ledger = {} /\ performed = {} /\ late = FALSE /\ edits = 0
----------------------------------------------------------------------------
(* What the server reads.                                                  *)

\* registry.load_row: a row that is missing or malformed in any field is no
\* row; an empty list is a row that refuses everybody.
permits(row, name) == row # {} /\ name # NoName /\ name \in row

\* auth.load_record and verify: no readable record is not the same as a
\* wrong token, and neither passes.
AuthUnavailable == node.record = 0
verify(token)   == token = node.record

\* node.load_context and the row, once; an unreadable estate map ends the
\* process before it serves.
StartServer ==
  /\ ~server.up
  /\ server' = IF node.estate = "unreadable" THEN DownServer
               ELSE [up |-> TRUE, halted |-> node.marker,
                     known |-> node.estate = "readable", row |-> node.allowed,
                     initialized |-> FALSE, name |-> NoName, repo |-> node.repo]
  /\ outbox' = IF node.estate = "unreadable" THEN <<[kind |-> "eof"]>> ELSE <<>>
  /\ inbox' = <<>>
----------------------------------------------------------------------------
(* One request.  A frame is a result with its payload, a tool refusal (a   *)
(* result marked isError) or an error with its code.                       *)

Result(id, tool, op, decision) ==
  [kind |-> "result", id |-> id, tool |-> tool, op |-> op, decision |-> decision]
ToolRefusal(id) == [kind |-> "toolerror", id |-> id]
Error(id, code) == [kind |-> "error", id |-> id, code |-> code]
Row(kind, m, what) == [kind |-> kind, id |-> m.id, op |-> m.op, what |-> what]

\* append_event raises when the ledger cannot be written; the loop then
\* answers with an error, whatever the handler meant to say and even to a
\* notification.
\* Mutant of Recorded: the failure to write is swallowed.
RecordedSwallows(m, rows, frames) ==
  /\ ledger' = IF node.ledgerUp THEN ledger \cup rows ELSE ledger
  /\ outbox' = outbox \o frames

Recorded(m, rows, frames) ==
  IF rows = {} \/ node.ledgerUp
  THEN /\ ledger' = ledger \cup rows
       /\ outbox' = outbox \o frames
  ELSE /\ UNCHANGED ledger
       /\ outbox' = Append(outbox, Error(m.id, "ledger"))

\* A notification (no id, here 0) gets no answer from the first checks.
Quietly(m, code) == IF m.id = 0 THEN <<>> ELSE <<Error(m.id, code)>>

\* The checks in their order, before any method is looked at.
Refusal(m) ==
  CASE ~m.object                              -> "invalid-request"
    [] m.object /\ m.method = "none"          -> "no-method"
    [] m.object /\ m.method # "none" /\ ~m.params -> "invalid-params"
    [] m.object /\ m.method # "none" /\ m.params  ->
         IF server.halted THEN "stood-down"
         ELSE IF AuthUnavailable THEN "auth-unavailable"
         ELSE IF ~verify(m.token) THEN "unauthenticated"
         ELSE IF server.row = NoRow THEN "registry-unreadable"
         ELSE "admitted"

OnRecord == {"stood-down", "auth-unavailable", "unauthenticated",
             "registry-unreadable"}

Refuse(m) ==
  LET why == Refusal(m) IN
  /\ why # "admitted"
  /\ Recorded(m, IF why \in OnRecord THEN {Row("refusal", m, why)} ELSE {},
              IF ~m.object THEN <<Error(0, why)>> ELSE Quietly(m, why))
  /\ UNCHANGED server

\* The session takes the client's name only when the row permits it, and
\* before the row of the ledger is written.
HandleInitialize(m) ==
  /\ Refusal(m) = "admitted" /\ m.method = "initialize"
  /\ IF permits(server.row, m.name)
     THEN /\ server' = [server EXCEPT !.initialized = TRUE, !.name = m.name]
          /\ Recorded(m, {Row("session", m, "initialize")},
                      <<Result(m.id, "initialize", NoOp, "none")>>)
     ELSE /\ UNCHANGED server
          /\ Recorded(m, {Row("refusal", m, "allowlist")},
                      <<Error(m.id, "allowlist")>>)

\* notifications/initialized opens the session whether or not an initialize
\* was ever accepted.
HandleNotification(m) ==
  /\ Refusal(m) = "admitted" /\ m.method \in {"notifications/initialized", "notifications/other"}
  /\ server' = [server EXCEPT !.initialized = @ \/ m.method = "notifications/initialized"]
  /\ UNCHANGED <<ledger, outbox>>

\* Mutant of PermittedNow: only the handshake looks at the allowlist.
PermittedNowTrusts(m) == server.initialized

PermittedNow(m) == server.initialized /\ permits(server.row, server.name)

Later(m) ==
  /\ Refusal(m) = "admitted"
  /\ m.method \notin {"initialize", "notifications/initialized", "notifications/other"}

HandleStranger(m) ==
  /\ Later(m) /\ ~PermittedNow(m)
  /\ IF ~server.initialized
     THEN Recorded(m, {}, <<Error(m.id, "not-initialized")>>)
     ELSE Recorded(m, {Row("refusal", m, "allowlist")}, <<Error(m.id, "allowlist")>>)
  /\ UNCHANGED server

HandleSimple(m) ==
  /\ Later(m) /\ PermittedNow(m) /\ m.method \in {"ping", "tools/list", "other"}
  /\ Recorded(m, {}, <<IF m.method = "other" THEN Error(m.id, "method-not-found")
                       ELSE Result(m.id, m.method, NoOp, "none")>>)
  /\ UNCHANGED server
----------------------------------------------------------------------------
(* The six tools.                                                          *)

\* calibration_string: a malformed row is counted apart and a partial grade
\* is a miss; the bar is the count and the share of hits.
calibration_string ==
  LET read == SelectSeq(Grades, LAMBDA g : g # "malformed")
      hits == Len(SelectSeq(read, LAMBDA g : g = "hit"))
  IN  IF /\ Len(read) >= BarRulings
         /\ 100 * hits >= BarPercent * Len(read)
         /\ Len(read) > 0
      THEN "calibrated" ELSE "uncalibrated"

\* describe_host: a declaration with one artifact in it is refused whole; of
\* any other what can be typed is typed and the unknown keys are named.
Declared == {"bool", "bounded-int", "wide-int", "enum", "unknown-key",
             "artifact-key", "nested", "collection", "long-value", "executable-value"}
Artifacts == {"artifact-key", "nested", "collection", "long-value", "executable-value"}
PayloadRefused(declared) == declared \cap Artifacts # {}

\* With no checkout the council refuses and the imprint check says so; with
\* one, either may still fail to run.
tool_council == IF server.repo THEN {"reading", "refused"} ELSE {"refused"}
tool_imprint_verify ==
  IF server.repo THEN {"verified", "not-verified", "refused"} ELSE {"unprobeable"}
tool_discover(declared) ==
  {IF PayloadRefused(declared) THEN "refused" ELSE "descriptor"}

\* What a tool answers: a payload or a refusal.
Dispatch(m) ==
  CASE m.tool \in {"classify", "gate", "council"} /\ m.op = NoOp -> {"refused"}
    [] m.tool = "classify" /\ m.op # NoOp ->
         {verdict_for(m.op, server.known).decision}
    [] m.tool = "gate" /\ m.op # NoOp ->
         {IF server.halted THEN "HALT" ELSE verdict_for(m.op, server.known).decision}
    [] m.tool = "council" /\ m.op # NoOp ->
         tool_council
    [] m.tool = "status" -> {calibration_string}
    [] m.tool = "imprint_verify" ->
         tool_imprint_verify
    [] m.tool = "discover" -> tool_discover(m.declared)
    [] m.tool \notin Surface -> {"refused"}

HandleToolsCall(m) ==
  /\ Later(m) /\ PermittedNow(m) /\ m.method = "tools/call"
  /\ UNCHANGED server
  /\ IF m.tool = "unnamed"
     THEN Recorded(m, {}, <<Error(m.id, "invalid-params")>>)
     ELSE \E answer \in Dispatch(m) :
            IF answer = "refused"
            THEN Recorded(m, {Row("tool", m, "REFUSED")}, <<ToolRefusal(m.id)>>)
            ELSE Recorded(m, {Row("tool", m, "OK")}
                              \cup (IF m.tool = "gate" THEN {Row("gate", m, answer)}
                                                       ELSE {}),
                          <<Result(m.id, m.tool, m.op, answer)>>)

\* run_stdio: one line after another; a blank one is skipped (not sent
\* here), one that is not JSON is answered and leaves the session alone.
Handle ==
  /\ server.up /\ inbox # <<>>
  /\ inbox' = Tail(inbox)
  /\ LET m == Head(inbox) IN
       \/ m.method = "garbage" /\ Recorded(m, {}, <<Error(0, "parse-error")>>)
                               /\ UNCHANGED server
       \/ /\ m.method # "garbage"
          /\ \/ Refuse(m) \/ HandleInitialize(m) \/ HandleNotification(m)
             \/ HandleStranger(m) \/ HandleSimple(m) \/ HandleToolsCall(m)
  /\ UNCHANGED <<party, node, caller, performed, late, edits>>

\* The process ends: the pipe closes behind what it had written.
ServerDies ==
  /\ server.up
  /\ server' = DownServer
  /\ outbox' = Append(outbox, [kind |-> "eof"])
  /\ inbox' = <<>>
  /\ UNCHANGED <<party, node, caller, ledger, performed, late, edits>>
----------------------------------------------------------------------------
(* The reference client.                                                   *)

Message(id, method, token, name, tool, op) ==
  [object |-> TRUE, params |-> TRUE, id |-> id, method |-> method, token |-> token,
   name |-> name, tool |-> tool, op |-> op, declared |-> {}]

\* start: a new process, a new reader thread.
ClientStart ==
  /\ party = "client" /\ caller.phase = "off" /\ caller.id = 0
  /\ StartServer
  /\ caller' = [caller EXCEPT !.phase = "idle"]
  /\ UNCHANGED <<party, node, ledger, performed, late, edits>>

\* _send up to the wait.  The client keeps the token it was given; a pipe
\* closed at the other end is an error, so nothing is done.
Send(method, token, name, tool, op) ==
  /\ party = "client" /\ caller.phase = "idle" /\ caller.id < MaxRequests
  /\ IF server.up
     THEN /\ inbox' = Append(inbox, Message(caller.id + 1, method, token, name, tool, op))
          /\ caller' = [phase |-> "waiting", id |-> caller.id + 1, op |-> op]
     ELSE /\ caller' = [caller EXCEPT !.id = @ + 1]
          /\ UNCHANGED inbox
  /\ UNCHANGED <<party, node, server, outbox, ledger, performed, late, edits>>

ClientInitialize(name) == Send("initialize", 1, name, "unnamed", NoOp)
ClientAct(op)          == Send("tools/call", 1, NoName, "gate", op)

\* _send from the queue to the answer, and act on it: the effect is called
\* on a result that is a gate's ALLOW, and on nothing else.  The answer's id
\* is not looked at.
\* Mutant of Permitting: everything but a block is a go.
PermittingUnlessBlocked(frame) ==
  frame.kind = "result" /\ frame.decision \in {"ALLOW", "ASK"}

Permitting(frame) == frame.kind = "result" /\ frame.decision = "ALLOW"

ClientReceive ==
  /\ party = "client" /\ caller.phase = "waiting" /\ outbox # <<>>
  /\ outbox' = Tail(outbox)
  /\ performed' = IF caller.op # NoOp /\ Permitting(Head(outbox))
                  THEN performed \cup {[id |-> caller.id, op |-> caller.op]}
                  ELSE performed
  /\ caller' = [caller EXCEPT !.phase = "idle", !.op = NoOp]
  /\ UNCHANGED <<party, node, server, inbox, ledger, late, edits>>

ClientTimesOut ==
  /\ party = "client" /\ caller.phase = "waiting" /\ outbox = <<>>
  /\ late' = TRUE
  /\ caller' = [caller EXCEPT !.phase = "idle", !.op = NoOp]
  /\ UNCHANGED <<party, node, server, inbox, outbox, ledger, performed, edits>>

\* close: stdin is closed, so the server's loop ends; it is killed if it
\* does not leave.
ClientClose ==
  /\ party = "client" /\ caller.phase = "idle"
  /\ server' = DownServer /\ inbox' = <<>> /\ outbox' = <<>>
  /\ caller' = [caller EXCEPT !.phase = "closed"]
  /\ UNCHANGED <<party, node, ledger, performed, late, edits>>
----------------------------------------------------------------------------
(* Any other host.                                                         *)

Plain == Message(0, "ping", 1, NoName, "unnamed", NoOp)
HostMessages ==
     {[Plain EXCEPT !.object = FALSE], [Plain EXCEPT !.method = "none"],
      [Plain EXCEPT !.params = FALSE], [Plain EXCEPT !.method = "garbage"],
      [Plain EXCEPT !.token = 0]}
  \cup {[Plain EXCEPT !.method = "initialize", !.name = n] : n \in Clients \cup {NoName, "stranger"}}
  \cup {[Plain EXCEPT !.method = w] :
          w \in {"ping", "tools/list", "other", "notifications/initialized",
                 "notifications/other"}}
  \cup {[Plain EXCEPT !.method = "tools/call", !.tool = t, !.op = o] :
          t \in Surface \cup {"unnamed", "unknown"}, o \in Ops \cup {NoOp}}
  \cup {[Plain EXCEPT !.method = "tools/call", !.tool = "discover", !.declared = {k}] :
          k \in Declared}

HostStart ==
  /\ party = "host" /\ caller.phase = "off"
  /\ StartServer
  /\ caller' = [caller EXCEPT !.phase = "idle"]
  /\ UNCHANGED <<party, node, ledger, performed, late, edits>>

\* A message as a request, or as a notification.
HostSends(m, asked) ==
  /\ party = "host" /\ server.up /\ inbox = <<>> /\ caller.id < MaxRequests
  /\ caller' = [caller EXCEPT !.id = @ + 1]
  /\ inbox' = <<[m EXCEPT !.id = IF asked THEN caller.id + 1 ELSE 0]>>
  /\ outbox' = <<>>
  /\ UNCHANGED <<party, node, server, ledger, performed, late, edits>>

\* The operator changes the node under the running server: stands it down or
\* up, mints or rotates the token, edits the allowlist, or the disk fills.
Edit(change) ==
  /\ edits < MaxEdits /\ edits' = edits + 1
  /\ node' = CASE change = "marker" -> [node EXCEPT !.marker = ~@]
               [] change = "token"  -> [node EXCEPT !.record = @ + 1]
               [] change = "row"    -> [node EXCEPT !.allowed = {}]
               [] change = "ledger" -> [node EXCEPT !.ledgerUp = ~@]
  /\ UNCHANGED <<party, server, inbox, outbox, caller, ledger, performed, late>>

McpNext ==
  \/ ClientStart \/ HostStart \/ Handle \/ ServerDies
  \/ \E name \in Clients \cup {NoName} : ClientInitialize(name)
  \/ \E op \in Ops : ClientAct(op)
  \/ ClientReceive \/ ClientTimesOut \/ ClientClose
  \/ \E m \in HostMessages, asked \in BOOLEAN : HostSends(m, asked)
  \/ \E change \in {"marker", "token", "row", "ledger"} : Edit(change)
----------------------------------------------------------------------------
(* Properties.                                                             *)

Answers(frame, kinds) == frame.kind \in kinds

\* Nobody is served who was not let in: an answer that is not an error goes
\* out only to a request that carried the token on record at that moment,
\* from a client whose introduction in this very session is on the row the
\* server read, on a server that did not start under a stand-down.  A bare
\* notifications/initialized, a second initialize that is refused, or a
\* token rotated in between opens nothing (protocol.handle_message).
ServedWasAdmitted ==
  [][\A i \in DOMAIN outbox' \ DOMAIN outbox :
       LET f == outbox'[i] IN
         (inbox # <<>> /\ inbox' = Tail(inbox) /\ Answers(f, {"result", "toolerror"})) =>
            /\ ~server.halted /\ Head(inbox).token = node.record /\ node.record # 0
            /\ server'.name \in server.row /\ server'.initialized]_mcpVars

\* Every verdict on the wire is on the record: whatever fails, no gate
\* answer leaves the process without the gate row that states the same
\* decision about the same operation (tools.tool_gate, server.run_stdio).
VerdictOnRecord ==
  \A i \in DOMAIN outbox :
    (outbox[i].kind = "result" /\ outbox[i].tool = "gate") =>
       \E r \in ledger : /\ r.kind = "gate" /\ r.id = outbox[i].id
                         /\ r.op = outbox[i].op /\ r.what = outbox[i].decision

\* The gate answered this very request with an ALLOW.
OwnVerdictAllows(p) ==
  \E r \in ledger : r.kind = "gate" /\ r.id = p.id /\ r.op = p.op /\ r.what = "ALLOW"

\* As long as no request has timed out, an effect is performed only on the
\* gate's ALLOW of that very operation, through refused handshakes, rotated
\* tokens, a full disk and a server that dies (reference_client.act).
PerformedInSync == ~late => \A p \in performed : OwnVerdictAllows(p)

\* The same with no exception, as reference_client.py states it.
PerformedWasPermitted == \A p \in performed : OwnVerdictAllows(p)
=============================================================================
