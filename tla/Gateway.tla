------------------------------ MODULE Gateway ------------------------------
(***************************************************************************)
(* intentops_gateway: the tool gateway a harness reaches over HTTP         *)
(* (server.py, one thread per request) or over MCP stdio (mcp.py, one      *)
(* session, one message at a time).  Both end in tools.handle_rpc; a       *)
(* permitted backend call goes on to transport.StdioInvoker, which spawns  *)
(* a child process for it.                                                 *)
(*                                                                         *)
(* What the process reads once, when it starts (GatewayContext), is kept   *)
(* apart from what it reads from disk on every request.  One process is    *)
(* modelled, on either surface: two share nothing but the disk.            *)
(***************************************************************************)
EXTENDS Gate

CONSTANTS Requests,      \* requests, each sent once
          Harnesses,     \* harness ids
          NoHarness,     \* the caller declared none
          Backends,      \* backend ids
          NoBackend,     \* the message addresses none
          Registry,      \* the backends the estate declares
          Commands,      \* the backends with a row in the command table
          AlwaysDenied,  \* the backends no grant reaches
          Policies,      \* the allowlists the operator may write: <<harness, backend>>
          Arrivals,      \* the requests a caller may send
          EstateKnown,   \* the estate map is there, so its names count
          Wired,         \* a StdioInvoker was passed in; else the NullInvoker
          MaxMints,      \* bound: tokens minted
          MaxActs,       \* bound: other acts of the operator
          MaxFailures    \* bound: accesses that raise and processes that stop

Surfaces == {"http", "mcp"}
Kinds    == {"malformed", "initialize", "initialized", "ping", "builtin",
             "unknown", "classify", "backend"}

\* What a request carries: the token presented (0: none), the harness it
\* names (a header of HTTP, clientInfo of an initialize), the message, and, of
\* the tool it addresses, the backend, the tier the registry declares for it
\* and what its arguments match.
Arrival == [token: 0..MaxMints,
            harness: Harnesses \cup {NoHarness}, kind: Kinds,
            backend: Backends \cup {NoBackend}, tier: TIERS \cup {"undeclared"},
            op: [tool: {"mcp"}, command: SUBSET CommandSigns, args: SUBSET ArgSigns]]

ASSUME GatewayAssumption ==
    /\ NoHarness \notin Harnesses /\ NoBackend \notin Backends
    /\ Registry \cup Commands \cup AlwaysDenied \subseteq Backends
    /\ Policies \subseteq SUBSET (Harnesses \X Backends) /\ Policies # {}
    /\ Arrivals \subseteq Arrival /\ Arrivals # {}
    /\ EstateKnown \in BOOLEAN /\ Wired \in BOOLEAN
    /\ MaxMints \in Nat /\ MaxActs \in Nat /\ MaxFailures \in Nat

VARIABLES halt_marker, \* the node's stand-down marker
          disabled,    \* the transport-disabled marker
          token,       \* the token whose digest is on record (0: none minted)
          policy,      \* the allowlist on disk
          gctx,        \* the process: what it loaded when it started
          session,     \* the MCP session
          req,         \* the requests
          ledger,      \* rows <<request, kind>>
          approvals,   \* requests with an approval filed
          acts, failures

vars == <<halt_marker, disabled, token, policy, gctx, session, req, ledger,
          approvals, acts, failures>>

Rows    == {"none", "stood-down", "unauthenticated", "session", "tool",
            "allowlist", "ALLOW", "ASK", "BLOCK"}
Answers == {"none", "silence", "error", "refused", "result", "lost"}
Childs  == {"none", "running", "answered", "lingering", "flooding", "failed", "killed"}

\* fresh and open are history: the token presented was the node's when the
\* request arrived; the kill switch was absent at some moment since the call
\* was on record.
RequestState == [at: {"idle", "door", "rpc", "record", "file", "invoke", "spawn",
                      "wait", "done"},
                 in: Arrivals, row: Rows, answer: Answers, child: Childs,
                 fresh: BOOLEAN, open: BOOLEAN]

Context == [up: BOOLEAN, surface: Surfaces, halted: BOOLEAN, policy: Policies,
            policyRead: BOOLEAN, registryRead: BOOLEAN]

TypeOK ==
    /\ halt_marker \in BOOLEAN
    /\ disabled \in BOOLEAN
    /\ token \in 0..MaxMints
    /\ policy \in Policies
    /\ gctx \in Context
    /\ session \in [initialized: BOOLEAN, name: Harnesses \cup {NoHarness}]
    /\ req \in [Requests -> RequestState]
    /\ ledger \subseteq Requests \X Rows
    /\ approvals \subseteq Requests
    /\ acts \in 0..MaxActs
    /\ failures \in 0..MaxFailures

NoProcess  == [up |-> FALSE, surface |-> "http", halted |-> FALSE,
               policy |-> CHOOSE p \in Policies : TRUE, policyRead |-> FALSE,
               registryRead |-> FALSE]
NewSession == [initialized |-> FALSE, name |-> NoHarness]

Init ==
    /\ halt_marker = FALSE
    /\ disabled = FALSE
    /\ token = 0
    /\ policy \in Policies
    /\ gctx = NoProcess
    /\ session = NewSession
    /\ req = [r \in Requests |->
                [at |-> "idle", in |-> CHOOSE a \in Arrivals : TRUE, row |-> "none",
                 answer |-> "none", child |-> "none", fresh |-> FALSE, open |-> FALSE]]
    /\ ledger = {}
    /\ approvals = {}
    /\ acts = 0
    /\ failures = 0

Become(r, q) == req' = [req EXCEPT ![r] = q]
\* The answer; the history of a request that spawned nothing is dropped.
Reply(r, a)  == LET ran == req[r].child # "none"
                IN  Become(r, [req[r] EXCEPT !.at = "done", !.answer = a, !.row = "none",
                                             !.fresh = @ /\ ran, !.open = @ /\ ran])
Log(r, row)  == Become(r, [req[r] EXCEPT !.at = "record", !.row = row])
Goto(r, step) == Become(r, [req[r] EXCEPT !.at = step])

Fail  == failures < MaxFailures /\ failures' = failures + 1
Works == UNCHANGED failures

Disk      == <<halt_marker, disabled, token, policy, acts>>
Stores    == <<ledger, approvals>>
Processes == <<gctx, session>>

Act == acts < MaxActs /\ acts' = acts + 1
----------------------------------------------------------------------------
(* The process: load_gateway_context, once, when it starts                 *)

InFlight == {r \in Requests : req[r].at \notin {"idle", "done"}}

\* A policy or a registry that cannot be read is carried, not raised.
load_gateway_context ==
    /\ ~gctx.up
    /\ \E surface \in Surfaces : \E policyRead, registryRead \in BOOLEAN :
         /\ IF policyRead /\ registryRead THEN Works ELSE Fail
         /\ gctx' = [up |-> TRUE, surface |-> surface, halted |-> halt_marker,
                     policy |-> policy, policyRead |-> policyRead,
                     registryRead |-> registryRead]
    /\ session' = NewSession
    /\ UNCHANGED <<req, Disk, Stores>>

\* The process dies; the requests it was serving are never answered.
Stop ==
    /\ gctx.up
    /\ gctx' = NoProcess
    /\ req' = [r \in Requests |->
                 IF r \in InFlight
                 THEN [req[r] EXCEPT !.at = "done", !.answer = "lost", !.row = "none"]
                 ELSE req[r]]
    /\ Fail /\ UNCHANGED <<session, Disk, Stores>>
----------------------------------------------------------------------------
(* The door                                                                *)

\* HTTP requests are served by threads; the stdio loop takes one at a time.
\* A caller presents no token that was never minted.
Arrive(r) ==
    /\ req[r].at = "idle" /\ gctx.up
    /\ gctx.surface = "mcp" => InFlight = {}
    /\ \E a \in Arrivals :
         /\ a.token <= token
         /\ Become(r, [req[r] EXCEPT !.at = "door", !.in = a,
                                     !.fresh = a.token # 0 /\ a.token = token])
    /\ Works /\ UNCHANGED <<Disk, Processes, Stores>>

\* Mutant: a rotation adds its digest to the ones already accepted.
verifyAny(presented) == presented \in 1..token

\* tokens.verify reads the record on every request; with none minted it raises
\* AuthUnavailable, which refuses as well.
verify(presented) == presented # 0 /\ presented = token

\* _Handler.do_POST up to the method: the token before the body is read.
do_POST(r) ==
    /\ req[r].at = "door" /\ gctx.surface = "http"
    /\ IF ~verify(req[r].in.token) THEN Log(r, "unauthenticated")
       ELSE IF req[r].in.kind = "malformed" THEN Reply(r, "error")
       ELSE Goto(r, "rpc")
    /\ Works /\ UNCHANGED <<Disk, Processes, Stores>>

\* mcp.handle_message up to the method: the stand-down, as this process found
\* it when it started, then the token, then the handshake.
\* notifications/initialized sets the flag too, with no name.
handle_message(r) ==
    LET a == req[r].in
    IN  /\ req[r].at = "door" /\ gctx.surface = "mcp"
        /\ CASE a.kind = "malformed" -> Reply(r, "error") /\ UNCHANGED session
             [] a.kind # "malformed" /\ gctx.halted ->
                    Log(r, "stood-down") /\ UNCHANGED session
             [] a.kind # "malformed" /\ ~gctx.halted /\ ~verify(a.token) ->
                    Log(r, "unauthenticated") /\ UNCHANGED session
             [] OTHER ->
                    CASE a.kind = "initialize" ->
                            /\ session' = [initialized |-> TRUE, name |-> a.harness]
                            /\ Log(r, "session")
                      [] a.kind = "initialized" ->
                            /\ session' = [session EXCEPT !.initialized = TRUE]
                            /\ Reply(r, "silence")
                      [] OTHER -> /\ UNCHANGED session
                                  /\ IF session.initialized THEN Goto(r, "rpc")
                                                            ELSE Reply(r, "error")
        /\ Works /\ UNCHANGED <<gctx, Disk, Stores>>
----------------------------------------------------------------------------
(* tools.handle_rpc and the gate                                           *)

harness(r) == IF gctx.surface = "mcp" THEN session.name ELSE req[r].in.harness

\* HarnessPolicy.permits: deny by default, and the denied list over any grant.
permits(p, h, b) == h # NoHarness /\ b \notin AlwaysDenied /\ <<h, b>> \in p

\* tiers.classify_call: an undeclared tool is refused outright; otherwise the
\* stricter of the declared tier and what the arguments say.
classify_call(a) ==
    IF a.tier = "undeclared" THEN [block("T4") EXCEPT !.reaches = TRUE]
    ELSE merge({IF a.tier \in {"T3", "T4"} THEN ask(a.tier, TRUE) ELSE allow(a.tier),
                verdict_for(a.op, EstateKnown)})

_dispatch_backend(r) ==
    LET a == req[r].in
        v == classify_call(a)
    IN  IF ~gctx.registryRead \/ a.backend \notin Registry THEN Reply(r, "refused")
        ELSE IF v.decision = "ASK" THEN Goto(r, "file") ELSE Log(r, v.decision)

\* dispatch_tool: the closed built-in surface and backend tools.  A backend
\* addressed, for a call or for a classification, needs the grant first.
dispatch_tool(r) ==
    LET a == req[r].in
    IN  CASE a.kind = "builtin" -> Log(r, "tool")
          [] a.kind = "unknown" -> Reply(r, "refused")
          [] a.kind \in {"classify", "backend"} ->
                IF ~gctx.policyRead THEN Reply(r, "refused")
                ELSE IF ~permits(gctx.policy, harness(r), a.backend) THEN Log(r, "allowlist")
                ELSE IF a.kind = "classify" THEN Log(r, "tool")
                ELSE _dispatch_backend(r)

\* handle_rpc: the stand-down as the process found it when it started, then
\* the methods of the subset.
handle_rpc(r) ==
    LET a == req[r].in
    IN  /\ req[r].at = "rpc"
        /\ IF gctx.halted \/ a.kind \in {"initialize", "initialized"} THEN Reply(r, "error")
           ELSE IF a.kind = "ping" THEN Reply(r, "result")
           ELSE dispatch_tool(r)
        /\ Works /\ UNCHANGED <<Disk, Processes, Stores>>

\* Mutant: a failure to file is swallowed.
file_approvalQuiet(r) ==
    /\ req[r].at = "file"
    /\ \/ approvals' = approvals \cup {r} /\ Works
       \/ UNCHANGED approvals /\ Fail
    /\ Log(r, "ASK")
    /\ UNCHANGED <<Disk, Processes, ledger>>

\* An ASK is filed in the approval queue before it is recorded and refused; a
\* failure to file is raised.
file_approval(r) ==
    /\ req[r].at = "file"
    /\ \/ approvals' = approvals \cup {r} /\ Log(r, "ASK") /\ Works
       \/ UNCHANGED approvals /\ Reply(r, "error") /\ Fail
    /\ UNCHANGED <<Disk, Processes, ledger>>

\* What follows a row that was appended.
AfterRow(r) ==
    CASE req[r].row = "ALLOW" ->
            Become(r, [req[r] EXCEPT !.at = "invoke", !.row = "none", !.open = ~disabled])
      [] req[r].row \in {"ASK", "BLOCK", "allowlist"} -> Reply(r, "refused")
      [] req[r].row \in {"session", "tool"} -> Reply(r, "result")
      [] req[r].row \in {"stood-down", "unauthenticated"} ->
            Reply(r, IF req[r].in.kind = "initialized" /\ gctx.surface = "mcp"
                     THEN "silence" ELSE "error")

\* Mutant: a row that could not be appended is only logged.
append_eventQuiet(r) ==
    /\ req[r].at = "record"
    /\ \/ ledger' = ledger \cup {<<r, req[r].row>>} /\ Works
       \/ UNCHANGED ledger /\ Fail
    /\ AfterRow(r)
    /\ UNCHANGED <<Disk, Processes, approvals>>

\* ledger.append_event under its two locks.  LedgerUnavailable is an error
\* answer in place of whatever the request had earned.
append_event(r) ==
    /\ req[r].at = "record"
    /\ \/ ledger' = ledger \cup {<<r, req[r].row>>} /\ AfterRow(r) /\ Works
       \/ UNCHANGED ledger /\ Reply(r, "error") /\ Fail
    /\ UNCHANGED <<Disk, Processes, approvals>>
----------------------------------------------------------------------------
(* transport.StdioInvoker                                                  *)

\* Mutant: the kill switch is not read again at dispatch.
invokeCached(r) ==
    /\ req[r].at = "invoke"
    /\ IF Wired /\ req[r].in.backend \in Commands
       THEN Goto(r, "spawn") ELSE Reply(r, "refused")
    /\ Works /\ UNCHANGED <<Disk, Processes, Stores>>

\* invoke: the kill switch from disk, the registry and the command table
\* again.  With no invoker wired the permitted call is refused.
invoke(r) ==
    /\ req[r].at = "invoke"
    /\ IF /\ Wired /\ ~disabled
          /\ req[r].in.backend \in Registry \cap Commands
       THEN Goto(r, "spawn") ELSE Reply(r, "refused")
    /\ Works /\ UNCHANGED <<Disk, Processes, Stores>>

\* _run: the child starts and is handed the frame.
_run(r) ==
    /\ req[r].at = "spawn"
    /\ \/ Become(r, [req[r] EXCEPT !.at = "wait", !.child = "running"]) /\ Works
       \/ Reply(r, "refused") /\ Fail
    /\ UNCHANGED <<Disk, Processes, Stores>>

\* The backend, which owes nobody anything: it may answer one JSON object and
\* exit, answer and linger, overrun the cap, or answer something else, exit
\* non-zero or say nothing.  It may also run on for ever.
Child(r) ==
    /\ req[r].child = "running"
    /\ \E c \in {"answered", "lingering", "flooding", "failed"} :
         Become(r, [req[r] EXCEPT !.child = c])
    /\ Works /\ UNCHANGED <<Disk, Processes, Stores>>

Killed(r, a) == Become(r, [req[r] EXCEPT !.at = "done", !.answer = a, !.child = "killed"])

\* What came back.  A child that lingers after its answer is killed after
\* another five seconds: poll then finds no exit code yet, and the answer
\* stands, or the signal, and the call is refused.
Collect(r) ==
    /\ req[r].at = "wait"
    /\ \/ req[r].child = "answered" /\ Reply(r, "result")
       \/ req[r].child = "lingering" /\ (Reply(r, "result") \/ Killed(r, "refused"))
       \/ req[r].child = "flooding" /\ Killed(r, "refused")
       \/ req[r].child = "failed" /\ Reply(r, "refused")
    /\ Works /\ UNCHANGED <<Disk, Processes, Stores>>

\* Mutant: the reader is joined with no limit.
TimeoutNever(r) == FALSE /\ UNCHANGED vars

\* Mutant: what arrived before the timeout is returned.
TimeoutPartial(r) ==
    /\ req[r].at = "wait" /\ req[r].child = "running"
    /\ Killed(r, "result")
    /\ Works /\ UNCHANGED <<Disk, Processes, Stores>>

\* timeout_s passes with the reader still alive: the child is killed.
Timeout(r) ==
    /\ req[r].at = "wait" /\ req[r].child = "running"
    /\ Killed(r, "refused")
    /\ Works /\ UNCHANGED <<Disk, Processes, Stores>>
----------------------------------------------------------------------------
(* The operator                                                            *)

\* tokens.mint: the previous digest is replaced.  Tokens are numbered in the
\* order they are minted, as their rotation field is.
mint ==
    /\ token < MaxMints /\ token' = token + 1
    /\ Works /\ UNCHANGED <<halt_marker, disabled, policy, acts, req, Processes, Stores>>

Stand ==
    /\ halt_marker' = ~halt_marker
    /\ Act /\ Works /\ UNCHANGED <<disabled, token, policy, req, Processes, Stores>>

Switch ==
    /\ disabled' = ~disabled
    /\ req' = [r \in Requests |-> [req[r] EXCEPT !.open = @ \/ (disabled /\ req[r].at = "invoke")]]
    /\ Act /\ Works /\ UNCHANGED <<halt_marker, token, policy, Processes, Stores>>

EditPolicy ==
    /\ policy' \in Policies \ {policy}
    /\ Act /\ Works /\ UNCHANGED <<halt_marker, disabled, token, req, Processes, Stores>>

Serve(r) ==
    \/ do_POST(r) \/ handle_message(r) \/ handle_rpc(r) \/ file_approval(r)
    \/ append_event(r) \/ invoke(r) \/ _run(r) \/ Collect(r) \/ Timeout(r)

Next ==
    \/ load_gateway_context \/ Stop
    \/ \E r \in Requests : Arrive(r) \/ Serve(r) \/ Child(r)
    \/ mint \/ Stand \/ Switch \/ EditPolicy

\* A thread that can take its next step takes it; nothing is assumed of the
\* child, of the callers or of the operator.
Fairness == \A r \in Requests : WF_vars(Serve(r))

Spec == Init /\ [][Next]_vars /\ Fairness
----------------------------------------------------------------------------
(* Properties                                                              *)

Spawned(r) == req[r].child # "none"

\* No backend runs off the record: before a child is spawned its permit is a
\* row of the gateway ledger, and a ledger that cannot be written refuses.
ExecutedOnRecord == \A r \in Requests : Spawned(r) => <<r, "ALLOW">> \in ledger

\* While a child runs, its caller held the node's token when it arrived and a
\* grant in the allowlist this process loaded, over MCP after a handshake, and
\* neither the registry nor the arguments put the call at the human gate, on a
\* process that did not start under a stand-down.  Five checks on two paths, of which each reads something else.
ExecutedWasPermitted ==
    \A r \in Requests :
        LET a == req[r].in
        IN  req[r].at = "wait" =>
              /\ req[r].fresh /\ ~gctx.halted
              /\ harness(r) # NoHarness
              /\ <<harness(r), a.backend>> \in gctx.policy
              /\ a.backend \in Commands \ AlwaysDenied
              /\ a.tier \in {"T0", "T1", "T2"}
              /\ verdict_for(a.op, EstateKnown).decision = "ALLOW"
              /\ gctx.surface = "mcp" => session.initialized

\* The transport kill switch works on a running gateway: a call recorded while
\* the switch is set spawns nothing unless the switch is lifted first.
KillSwitchHonoured == \A r \in Requests : Spawned(r) => req[r].open

\* An ASK on the record is an ask somebody can see: it was filed in the
\* approval queue first, whatever failed.
AskIsFiled == \A r \in Requests : <<r, "ASK">> \in ledger => r \in approvals

\* A backend call answered with a result had a child that gave a whole answer:
\* a timeout, an overrun or a bad exit is never turned into one.
NoHollowResult ==
    \A r \in Requests :
        req[r].answer = "result" /\ req[r].in.kind = "backend"
            => req[r].child \in {"answered", "lingering"}

\* Every request is answered, or its process is gone, though the child may
\* hang for ever: every wait in the transport is bounded.
EveryRequestEnds == \A r \in Requests : req[r].at = "door" ~> req[r].at = "done"

\* What a gateway runs and says: a child only on record, only where every check
\* permitted it, never past the kill switch; an ASK only if it is filed, a result
\* only from a whole answer.
ExecutedRightly ==
    ExecutedOnRecord /\ ExecutedWasPermitted /\ KillSwitchHonoured /\ AskIsFiled /\ NoHollowResult
=============================================================================
