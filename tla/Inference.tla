----------------------------- MODULE Inference -----------------------------
(***************************************************************************)
(* inference/provider.py and inference/openai_compat.py: the model pools   *)
(* the operator declares in estate/RESOURCES.yaml, the fence around their  *)
(* endpoints, and one completion over HTTP; routing/policy.py: which pool  *)
(* a piece of work may go to.                                              *)
(*                                                                         *)
(* An endpoint is its class, which is all the fence looks at; the runtime  *)
(* behind it may answer anything, send the client elsewhere, or be served  *)
(* from another origin.  Models, texts and latencies are left out.         *)
(***************************************************************************)
EXTENDS Naturals, Sequences, FiniteSets, SequencesExt

CONSTANTS
  PoolRows,    \* the sequences of rows the estate may declare
  Policies,    \* the routing policies the file may hold
  MaxTokens,   \* bound on the ceilings asked for
  MaxCalls     \* bound on the completions asked for

VARIABLES
  rows,        \* estate/RESOURCES.yaml: a sequence of model-pool rows
  held,        \* the provider the caller holds
  call,        \* [pc, tokens]: the request under way
  completion,  \* the last answer, or what stopped it
  reached,     \* the classes of the hosts a prompt has been sent to, by pool row
  calls,
  file,        \* config/routing-policy.yaml
  policy,      \* the policy in memory: "none", "halted" or "loaded"
  assignment   \* the last answer of resolve

inferenceVars == <<rows, held, call, completion, reached, calls, file, policy,
                   assignment>>

DATA_FENCES      == {"local_only", "in_family", "third_party"}
ENDPOINT_CLASSES == {"loopback", "private", "public", "unresolved"}
REFUSED_ENDPOINT_CLASSES == {"public", "unresolved"}

None == <<>>

\* What YAML reads as a list; its items may hold anything.
IsList(s) == Len(s) \in Nat /\ DOMAIN s = 1 .. Len(s)
InferenceAssumption ==
  /\ \A p \in PoolRows : IsList(p)
  /\ \A p \in Policies :
       /\ IsList(p.egress) /\ IsList(p.pools)
       /\ \A t \in DOMAIN p.tiers : IsList(p.tiers[t])
       /\ \A i \in DOMAIN p.pools : IsList(p.pools[i].families)

InferenceInit ==
  /\ rows \in PoolRows /\ file \in Policies
  /\ held = None /\ completion = None /\ assignment = None
  /\ call = [pc |-> "idle", tokens |-> 0]
  /\ reached = {} /\ calls = 0 /\ policy = "none"
----------------------------------------------------------------------------
(* The estate's pools.                                                     *)

\* classify_endpoint: no scheme, no host or nothing at all is an error; a
\* name other than localhost is never resolved.
Classifiable(row) == row.endpoint \in ENDPOINT_CLASSES

\* A required field is there and is not null, and the numbers are positive.
Required(row)  == row.fields # "missing"
Positive(row)  == row.fields # "not-positive"

\* parse_pool: what also stops the load is an endpoint outside the fence
\* without allow_remote, allow_remote without its reason, and a local_only
\* pool that is not on this host.
Parses(row) ==
  /\ Required(row) /\ Positive(row) /\ Classifiable(row)
  /\ row.remote \in {"absent", "yes", "yes-with-reason"}
  /\ row.endpoint \in REFUSED_ENDPOINT_CLASSES => row.remote # "absent"
  /\ row.remote # "yes"
  /\ row.fence \in DATA_FENCES
  /\ ~(row.endpoint # "loopback" /\ row.fence = "local_only")

\* load_pools: one row that does not parse stops them all.
PoolsLoad == \A i \in DOMAIN rows : Parses(rows[i])

\* provider_for_pool: a pool that is not switched on gets the provider that
\* opens no socket.
provider_for_pool(row) == [kind |-> IF row.enabled THEN "http" ELSE "null", pool |-> row]

\* select_provider: the first by that id, or the only pool that is enabled;
\* never a choice between two.
select_provider(id) ==
  LET on    == {i \in DOMAIN rows : rows[i].enabled}
      named == {i \in DOMAIN rows : rows[i].id = id}
      first(S) == rows[CHOOSE i \in S : \A j \in S : i <= j]
  IN  IF ~PoolsLoad THEN [kind |-> "halt"]
      ELSE IF id # "none"
           THEN IF named = {} THEN [kind |-> "halt"] ELSE provider_for_pool(first(named))
      ELSE IF on = {} THEN [kind |-> "null"]
      ELSE IF \E i, j \in on : i # j THEN [kind |-> "halt"]
      ELSE provider_for_pool(first(on))

SelectProvider(id) ==
  /\ call.pc = "idle"
  /\ held' = select_provider(id)
  /\ UNCHANGED <<rows, call, completion, reached, calls, file, policy, assignment>>

\* The operator edits a row; a provider in hand keeps the one it was made of.
EditRow(i) ==
  /\ i \in DOMAIN rows /\ rows[i].enabled
  /\ rows' = [rows EXCEPT ![i].enabled = FALSE]
  /\ UNCHANGED <<held, call, completion, reached, calls, file, policy, assignment>>
----------------------------------------------------------------------------
(* One completion.                                                         *)

Failed(why) == [kind |-> "error", why |-> why]

\* NullProvider.complete: an empty answer that says why, and no socket.
NullComplete ==
  /\ call.pc = "idle" /\ held # None /\ held.kind = "null" /\ calls < MaxCalls
  /\ completion' = [kind |-> "completion", counted |-> "none", empty |-> TRUE,
                    usage |-> "none", capped |-> FALSE]
  /\ calls' = calls + 1
  /\ UNCHANGED <<rows, held, call, reached, file, policy, assignment>>

\* complete up to the socket: an empty prompt and a ceiling that is not
\* positive are refused; the pool's own ceiling caps the caller's.  tokens is
\* 0 when the caller passed none.
RefuseAsk(prompt, asked) ==
  /\ call.pc = "idle" /\ held # None /\ held.kind = "http" /\ calls < MaxCalls
  /\ prompt = "empty" \/ asked = "negative"
  /\ completion' = Failed(IF prompt = "empty" THEN "empty-prompt" ELSE "not-a-budget")
  /\ calls' = calls + 1
  /\ UNCHANGED <<rows, held, call, reached, file, policy, assignment>>

Effective(asked) == IF asked = 0 \/ asked > held.pool.ceiling THEN held.pool.ceiling ELSE asked

Ask(asked) ==
  /\ call.pc = "idle" /\ held # None /\ held.kind = "http" /\ calls < MaxCalls
  /\ call' = [pc |-> "sent", tokens |-> Effective(asked)]
  /\ completion' = None
  /\ reached' = reached \cup {<<held.pool.endpoint, held.pool>>}
  /\ calls' = calls + 1
  /\ UNCHANGED <<rows, held, file, policy, assignment>>

\* What the other end may do.  A redirect names another class of host; an
\* answer may come from another origin than the one declared.
RuntimeAnswers ==
     [kind: {"redirect"}, to: ENDPOINT_CLASSES]
  \cup [kind: {"http-error", "unreachable", "timeout", "bad-status", "not-json",
               "not-an-object", "no-choices", "not-text"}]
  \cup [kind: {"text"}, moved: BOOLEAN, empty: BOOLEAN,
        usage: {"none", "both", "prompt-only", "completion-only"}]

\* _RefuseRedirect and the proxy map of _OPENER: the transport goes nowhere
\* the row did not name.
\* Mutant of Transported: a redirect is followed.
TransportedFollows(a) ==
  IF a.kind = "redirect" THEN {<<a.to, held.pool>>} ELSE {}

Transported(a) == {}

\* Counts are the endpoint's if it reported one of the two (the other reads
\* as 0), and an estimate, labelled so, if it reported neither.
counted(usage) == IF usage = "none" THEN "estimated" ELSE "reported"

\* The origin that served the answer is the declared one, host and port.
FromElsewhere(a) == a.kind = "text" /\ a.moved

\* _first_choice: an answer with no text to read is an error; an empty text
\* is an answer.
HasText(a) == a.kind = "text"

Answer(a) ==
  /\ call.pc = "sent"
  /\ reached' = reached \cup Transported(a)
  /\ completion' = IF FromElsewhere(a) THEN Failed("moved")
                   ELSE IF ~HasText(a) THEN Failed(a.kind)
                   ELSE [kind |-> "completion", counted |-> counted(a.usage),
                         empty |-> a.empty, usage |-> a.usage,
                         capped |-> call.tokens = held.pool.ceiling]
  /\ call' = [call EXCEPT !.pc = "idle"]
  /\ UNCHANGED <<rows, held, calls, file, policy, assignment>>
----------------------------------------------------------------------------
(* Routing.                                                                *)

\* parse_policy: every name used must be declared, every ring must have one
\* egress rule, pool ids are unique, every tier and pool has its families.
Families(spec)   == ToSet(spec.families)
TiersDeclared    == \A t \in DOMAIN file.tiers :
                      file.tiers[t] # <<>> /\ ToSet(file.tiers[t]) \subseteq file.families
ShapesDeclared   == file.shapes # {} /\ \A s \in file.shapes : s.tier \in DOMAIN file.tiers
RingsRuled       == \A r \in file.rings :
                      Cardinality({i \in DOMAIN file.egress : file.egress[i].ring = r}) = 1
EgressDeclared   == \A i \in DOMAIN file.egress :
                      /\ file.egress[i].ring \in file.rings
                      /\ file.egress[i].allow \subseteq file.classes
PoolsDeclared    == /\ \A i, j \in DOMAIN file.pools :
                         file.pools[i].id = file.pools[j].id => i = j
                    /\ \A i \in DOMAIN file.pools :
                         /\ file.pools[i].class \in file.classes
                         /\ Families(file.pools[i]) # {}
                         /\ Families(file.pools[i]) \subseteq file.families
                         /\ file.pools[i].max >= 1

LoadPolicy ==
  /\ policy = "none"
  /\ policy' = IF TiersDeclared /\ ShapesDeclared /\ EgressDeclared /\ RingsRuled
                  /\ PoolsDeclared
               THEN "loaded" ELSE "halted"
  /\ UNCHANGED <<rows, held, call, completion, reached, calls, file, assignment>>

\* The classes the ring's rule lets the work cross to.
\* Mutant of Allowed: the rules of all rings are read together.
AllowedAnyRing(ring) == UNION {file.egress[i].allow : i \in DOMAIN file.egress}

Allowed(ring) ==
  (CHOOSE e \in ToSet(file.egress) : e.ring = ring).allow

Live == {i \in DOMAIN file.pools : file.pools[i].status = "live"}

\* The loops of resolve: family by family in the tier's order, and for each
\* the live pools in the file's order; the first one inside the fence.
Picks(tier, ring) ==
  {p \in (1 .. Len(file.tiers[tier])) \X Live :
     /\ file.tiers[tier][p[1]] \in Families(file.pools[p[2]])
     /\ file.pools[p[2]].class \in Allowed(ring)}

FirstPick(tier, ring) ==
  CHOOSE p \in Picks(tier, ring) : \A q \in Picks(tier, ring) :
    p[1] < q[1] \/ (p[1] = q[1] /\ p[2] <= q[2])

FencedOut(tier, ring) ==
  {i \in Live : /\ Families(file.pools[i]) \cap ToSet(file.tiers[tier]) # {}
                /\ file.pools[i].class \notin Allowed(ring)}

\* Assignment: the whole answer, the negative ones included.
Assignment(shape, ring) ==
  LET met   == Picks(shape.tier, ring) # {}
      first == FirstPick(shape.tier, ring)
  IN  [shape |-> shape, ring |-> ring,
       effort |-> IF shape.effort # "none" THEN shape.effort ELSE "tier-default",
       verdict |-> IF met THEN "permitted"
                   ELSE IF FencedOut(shape.tier, ring) # {} THEN "refused" ELSE "unmet",
       pool |-> IF met THEN first[2] ELSE 0,
       family |-> IF met THEN first[1] ELSE 0]

\* resolve.
Resolve(shape, ring) ==
  /\ policy = "loaded" /\ shape \in file.shapes /\ ring \in file.rings
  /\ assignment' = Assignment(shape, ring)
  /\ UNCHANGED <<rows, held, call, completion, reached, calls, file, policy>>

InferenceNext ==
  \/ \E id \in {"none", "a", "b", "c"} : SelectProvider(id)
  \/ \E i \in 1 .. 2 : EditRow(i)
  \/ NullComplete
  \/ \E p \in {"empty", "words"}, asked \in {"negative", "positive"} : RefuseAsk(p, asked)
  \/ \E asked \in 0 .. MaxTokens : Ask(asked)
  \/ \E a \in RuntimeAnswers : Answer(a)
  \/ LoadPolicy
  \/ \E s \in file.shapes, r \in file.rings : Resolve(s, r)
----------------------------------------------------------------------------
(* Properties.                                                             *)

\* No prompt leaves the fence: whatever the runtime answers and whatever the
\* estate declares beside it, a host that has been sent a prompt is on this
\* machine or its private network, unless the very row it was asked through
\* opens the fence and says why; and a local_only pool never leaves the
\* machine (parse_pool, classify_endpoint, openai_compat._OPENER).
PromptStaysInFence ==
  \A r \in reached :
    /\ r[1] \in {"loopback", "private"} \/ r[2].remote = "yes-with-reason"
    /\ r[2].fence = "local_only" => r[1] = "loopback"

\* The route is the best the fence allows and never past it: a permitted
\* assignment names a live pool the ring may cross to, serving a family of
\* the tier that no pool inside the fence could better; one that names no
\* pool says whether it was the fence or the estate that left it without
\* (routing.policy.resolve).
RouteHoldsFence ==
  assignment # None =>
    LET tier == file.tiers[assignment.shape.tier]
        may  == UNION {e.allow : e \in {x \in ToSet(file.egress) : x.ring = assignment.ring}}
        serves(i, f) == /\ file.pools[i].status = "live"
                        /\ tier[f] \in ToSet(file.pools[i].families)
    IN  CASE assignment.verdict = "permitted" ->
               /\ serves(assignment.pool, assignment.family)
               /\ file.pools[assignment.pool].class \in may
               /\ \A f \in 1 .. assignment.family - 1, i \in DOMAIN file.pools :
                    serves(i, f) => file.pools[i].class \notin may
          [] assignment.verdict = "refused" ->
               /\ \E i \in DOMAIN file.pools, f \in DOMAIN tier : serves(i, f)
               /\ \A i \in DOMAIN file.pools, f \in DOMAIN tier :
                    serves(i, f) => file.pools[i].class \notin may
          [] assignment.verdict = "unmet" ->
               \A i \in DOMAIN file.pools, f \in DOMAIN tier : ~serves(i, f)
=============================================================================
