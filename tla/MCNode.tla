------------------------------- MODULE MCNode -------------------------------
(* What a running node serves and keeps, for TLC: the MCP saddle, the       *)
(* knowledge store and its watermark, the estate and the classifier that    *)
(* reads it, the model pools and the routing policy.  They share no file    *)
(* that two of them write, so a behaviour is about one while the others     *)
(* rest.                                                                    *)
EXTENDS Mcp

CONSTANTS
  Collections, RowIds, SourceTypes, Absorbers, MaxRing, GrowRows, Claims, Shapes,
  Taxonomies, MaxWrites, MaxStoreEdits, MaxReadings, MaxMark,
  Contents, Shipped, Roots, NoRoot, Words, MaxEstateEdits,
  PoolRows, Policies, MaxTokens, MaxCalls

VARIABLES
  part,      \* what this behaviour is about
  env, taxfile, taxonomy, specs, store, broken, led, ins, mark, abs, writes, storeEdits,
  root, disk, loader, estate, estateMap, verdict, estateEdits,
  rows, held, call, completion, reached, calls, file, policy, assignment

K == INSTANCE Knowledge WITH MaxEdits <- MaxStoreEdits, edits <- storeEdits
E == INSTANCE Estate    WITH MaxEdits <- MaxEstateEdits, edits <- estateEdits
I == INSTANCE Inference

\* What the three modules assume of their constants, and that the states in which
\* a part rests are states of it.
ASSUME NodeAssumption ==
  /\ K!KnowledgeAssumption
  /\ E!EstateAssumption
  /\ I!InferenceAssumption
  /\ <<"missing">> \in Taxonomies /\ <<>> \in PoolRows /\ Policies # {}

kVars == <<env, taxfile, taxonomy, specs, store, broken, led, ins, mark, abs, writes,
           storeEdits>>
eVars == <<root, disk, loader, estate, estateMap, verdict, estateEdits>>
iVars == <<rows, held, call, completion, reached, calls, file, policy, assignment>>

----------------------------------------------------------------------------
(* The saddle: a directory listing the gate allows, a push it asks about.  *)

MCOps == {[tool |-> "shell", command |-> {}, args |-> {}],
          [tool |-> "shell", command |-> {"push"}, args |-> {}]}
MCGrades == <<"hit", "malformed", "hit", "miss">>
Quiet == [marker |-> FALSE, estate |-> "readable", allowed |-> Clients, record |-> 1,
          ledgerUp |-> TRUE, repo |-> TRUE]

----------------------------------------------------------------------------
(* The estate. *)

Entry(id, shape) ==
  [id |-> id, shape |-> shape, ref |-> 0, by |-> "none", revoked |-> FALSE,
   probe |-> "given", kind |-> "internal", keywords |-> {"gate"}]
Manifest(list) == [header |-> "ok", rows |-> list, kinds |-> "whole"]
Broken(why) == [header |-> why, rows |-> <<>>, kinds |-> "whole"]
Venture(id) == [Entry(id, "ok") EXCEPT !.kind = "venture", !.keywords = {"side"}]
Served(id)  == [Entry(id, "ok") EXCEPT !.kind = "served", !.keywords = {"side", "gate"}]
MCContents ==
  [f \in {"ESTATE-MAP", "ASSETS", "RESOURCES", "CAPABILITIES", "GRANTS", "DEPENDENCIES"} |->
    CASE f = "ESTATE-MAP" ->
           {Manifest(<<Entry(1, "ok"), Venture(2), Served(3)>>), Manifest(<<Venture(2)>>),
            Manifest(<<Entry(1, "ok"), [Venture(2) EXCEPT !.keywords = {}]>>)}
      [] f = "ASSETS" ->
           {Manifest(<<>>), Manifest(<<[Entry(5, "ok") EXCEPT !.ref = 1]>>),
            Manifest(<<[Entry(5, "ok") EXCEPT !.ref = 2], [Entry(5, "ok") EXCEPT !.ref = 2]>>),
            Broken("missing")}
      [] f = "RESOURCES" ->
           {Manifest(<<Entry(6, "ok")>>), Manifest(<<Entry(6, "field-null")>>)}
      [] f = "CAPABILITIES" ->
           {Manifest(<<Entry(7, "ok")>>), [Manifest(<<>>) EXCEPT !.kinds = "kind-missing"]}
      [] f = "GRANTS" ->
           {Manifest(<<[Entry(8, "ok") EXCEPT !.ref = 2, !.by = "root"],
                       [Entry(9, "ok") EXCEPT !.ref = 2, !.by = "foreign"]>>),
            Manifest(<<[Entry(8, "ok") EXCEPT !.ref = 2, !.by = "root", !.revoked = TRUE]>>)}
      [] f = "DEPENDENCIES" ->
           {Manifest(<<[Entry(10, "ok") EXCEPT !.probe = p], Entry(11, "ok")>>) :
              p \in {"given", "null", "null-with-reason", "absent"}}]
MCShipped ==
  [f \in DOMAIN MCContents |->
     IF f = "ESTATE-MAP" THEN Manifest(<<Entry(1, "ok"), Venture(2), Served(3)>>)
     ELSE IF f = "CAPABILITIES" THEN Manifest(<<Entry(7, "ok")>>) ELSE Manifest(<<>>)]

----------------------------------------------------------------------------
(* The model pools and the routing policy. *)

Pool(id, e, r, f, on, c) ==
  [id |-> id, endpoint |-> e, remote |-> r, fence |-> f, enabled |-> on,
   ceiling |-> 2, fields |-> c]
MCPoolRows ==
  {<<>>, <<Pool("a", "malformed", "absent", "local_only", TRUE, "whole")>>,
         <<Pool("a", "loopback", "absent", "local_only", TRUE, "missing")>>,
         <<Pool("a", "loopback", "absent", "local_only", TRUE, "not-positive")>>}
    \cup {<<Pool("a", e, r, f, TRUE, "whole")>> :
            e \in {"loopback", "private", "public", "unresolved"},
            r \in {"absent", "yes", "yes-with-reason", "word"},
            f \in {"local_only", "in_family", "third_party", "prose"}}
    \cup {<<Pool("a", "loopback", "absent", "local_only", on, "whole"),
            Pool("b", "public", "yes-with-reason", "third_party", off, "whole")>> :
            on \in BOOLEAN, off \in BOOLEAN}
Route(id, class, fams, status) ==
  [id |-> id, class |-> class, families |-> fams, status |-> status, max |-> 1]
MCRoutes ==
  [families: {{"small", "large"}}, classes: {{"local", "vendor"}},
   tiers: {[light |-> <<"small", "large">>, heavy |-> <<"large">>]},
   shapes: {{[tier |-> "light", effort |-> "low"], [tier |-> "heavy", effort |-> "none"]}},
   rings: {{"private", "open"}},
   egress: {<<[ring |-> "private", allow |-> {"local"}], [ring |-> "open", allow |-> o]>> :
              o \in {{"vendor"}, {"local", "vendor"}, {"nobody"}}}
           \cup {<<[ring |-> "private", allow |-> {}]>>},
   pools: {<<>>,
           <<Route("v", "vendor", <<"large", "small">>, "live")>>,
           <<Route("v", "vendor", <<"small">>, "live"), Route("l", "local", <<"large">>, "live")>>,
           <<Route("l", "local", <<"large">>, "live"), Route("v", "vendor", <<"small">>, "live")>>,
           <<Route("l", "local", <<"small">>, "asleep"), Route("v", "vendor", <<"large">>, "live")>>,
           <<Route("l", "local", <<"small">>, "live"), Route("l", "vendor", <<"large">>, "live")>>}]

----------------------------------------------------------------------------
(* The knowledge store. *)

\* The instance's values for a key that is missing and for a value that is not in
\* the vocabulary.
NoKey == 9
NoWord == 8
ASSUME NoKey = K!Absent /\ NoWord = K!Unreadable

MCShapes == [c \in Collections |->
               IF c = "notes" THEN [dims |-> 1, sens |-> 2, st |-> "letter", floor |-> 0]
               ELSE [dims |-> 1, sens |-> 2, st |-> "chat", floor |-> 1]]
MCTaxonomies == {<<"missing">>, <<"bad">>, [s \in SourceTypes |-> NoKey],
                 [s \in SourceTypes |-> IF s = "letter" THEN 1 ELSE NoKey]}
\* A row's claims: its ring, its sigma, the confidence behind it, its source type.
Meta(ring, sigma, conf, st) == [ring |-> ring, sigma |-> sigma, conf |-> conf, st |-> st]
MCClaims == {Meta(NoKey, NoKey, NoKey, ""), Meta(2, NoKey, NoKey, "letter"),
             Meta(0, 2, 95450, ""), Meta(NoWord, 1, NoWord, ""),
             Meta(2, 2, 68269, "chat"), Meta(2, NoKey, 0, ""), Meta(2, 1, NoKey, "")}

----------------------------------------------------------------------------
MCInit ==
  /\ part \in {"saddle", "store", "mark", "estate", "pools"}
  /\ part # "saddle" => party = "client" /\ node = Quiet
  /\ McpInit
  /\ part # "store"  => taxfile = <<"missing">> /\ specs = [c \in Collections |-> Shapes[c]]
  /\ K!KnowledgeInit
  /\ part # "estate" => root = NoRoot
  /\ E!EstateInit
  /\ IF part = "pools" THEN rows \in PoolRows ELSE rows = <<>>
  /\ IF part = "pools" /\ rows = <<>> THEN file \in Policies ELSE file = CHOOSE p \in Policies : TRUE
  /\ I!InferenceInit

MCNext ==
  \/ part = "saddle" /\ McpNext      /\ UNCHANGED <<part, kVars, eVars, iVars>>
  \/ part = "store"  /\ K!StoreNext  /\ UNCHANGED <<part, mcpVars, eVars, iVars>>
  \/ part = "mark"   /\ K!MarkNext   /\ UNCHANGED <<part, mcpVars, eVars, iVars>>
  \/ part = "estate" /\ E!EstateNext /\ UNCHANGED <<part, mcpVars, kVars, iVars>>
  \/ part = "pools"  /\ I!InferenceNext /\ UNCHANGED <<part, mcpVars, kVars, eVars>>

MCVars == <<part, mcpVars, kVars, eVars, iVars>>
NodeSpec == MCInit /\ [][MCNext]_MCVars

----------------------------------------------------------------------------
\* The saddle: every verdict on the wire is in the ledger, and while no request
\* has timed out an effect is performed only on the gate's ALLOW of that very
\* operation (saddles/mcp).
PerformedOnRecord == VerdictOnRecord /\ PerformedInSync

\* Both ratchets of the store: no write is opened up beyond its claim, its
\* collection and the operator's ruling, and no clean bill of coverage is had
\* by measuring less than an earlier reading did (knowledge/).
RatchetsHold == K!NeverLoosened /\ K!CoverageRatchet

\* However two absorbers overlap, the watermark never goes back
\* (knowledge/absorber.py).
WatermarkNeverBack == [][K!NeverBack]_mark

\* A loaded estate is whole, its applied grants are the operator's, and the
\* classifier answers with the strictest entry it hit (estate/, routing/).
EstateIsSound == E!EstateIsWhole /\ E!GrantsAreTheOperators /\ E!StrictestEstateWins

\* No prompt leaves a pool's fence, and no assignment leaves the ring's
\* (inference/, routing/).
FenceHolds == I!PromptStaysInFence /\ I!RouteHoldsFence
=============================================================================
