----------------------------- MODULE NodeProofs -----------------------------
(***************************************************************************)
(* What a running node serves and keeps, for every alphabet of operations, *)
(* clients, collections, rows, manifests, pools and policies and every     *)
(* number of requests, edits, readings and absorbers.                      *)
(*                                                                         *)
(* A pool row that parsed is inside its fence, so a prompt is (PoolInv), and *)
(* an assignment is what the rule of its ring gives under the file it was  *)
(* read from (RouteInv).  A row of the store carries the claim, declaration *)
(* and ruling it was gated by (StoreInv); a record of the coverage ledger is *)
(* held against every record before it (LedInv); a mark, and what an       *)
(* absorber would move it to, are counts (MarkInv).  The loader has read   *)
(* every file up to its place whole or has listed what it left out, and the *)
(* classifier reads what was loaded (LoaderInv, MapInv).  The saddle and its *)
(* client take turns as long as no request times out, so the answer taken is *)
(* the one waited for (SaddleInv).                                         *)
(***************************************************************************)
EXTENDS MCNode, FiniteSetTheorems, WellFoundedInduction, SequenceTheorems, TLAPS

\* A set of naturals has a least member.
LEMMA LeastNat ==
    ASSUME NEW S \in SUBSET Nat, S # {}
    PROVE  \E x \in S : \A y \in S : x <= y
<1> DEFINE Below(x) == {y \in S : y < x}
           T == {Below(x) : x \in S}
<1>1. \A x \in S : Below(x) \in SUBSET Nat /\ IsFiniteSet(Below(x))
  <2> TAKE x \in S
  <2>1. x \in Nat /\ 0 \in Int /\ x \in Int
    OBVIOUS
  <2>2. \A y \in S : y \in Nat
    OBVIOUS
  <2>3. \A y \in S : y < x => y \in 0 .. x
    BY <2>1, <2>2
  <2>4. Below(x) \subseteq 0 .. x
    BY <2>3
  <2>5. IsFiniteSet(0 .. x)
    BY <2>1, FS_Interval
  <2>6. IsFiniteSet(Below(x))
    BY <2>4, <2>5, FS_Subset
  <2>7. Below(x) \in SUBSET Nat
    BY <2>2
  <2> QED
    BY <2>6, <2>7
<1>2. T \subseteq FiniteSubsetsOf(Nat) /\ T # {}
  BY <1>1 DEF FiniteSubsetsOf
<1>3. PICK a \in T : \A b \in T : ~ (<<b, a>> \in StrictSubsetOrdering(Nat))
  BY <1>2, FS_StrictSubsetOrderingWellFounded, WFMin
<1>4. PICK x \in S : a = Below(x)
  OBVIOUS
<1>5. ASSUME NEW y \in S, y < x PROVE FALSE
  <2>1. /\ Below(y) \in T /\ y \in Below(x) /\ y \notin Below(y)
        /\ \A z \in S : z < y => z < x
    BY <1>5
  <2>2. Below(y) \subseteq Below(x)
    BY <2>1
  <2>3. <<Below(y), Below(x)>> \in StrictSubsetOrdering(Nat)
    BY <2>1, <2>2 DEF StrictSubsetOrdering
  <2> QED
    BY <1>3, <1>4, <2>1, <2>3
<1>6. x \in Nat /\ \A y \in S : y \in Nat /\ x <= y
  BY <1>5
<1> QED
  BY <1>6

\* Of numbers that a number bounds one is the greatest.
LEMMA Greatest ==
    ASSUME NEW n \in Nat, NEW S \in SUBSET (0 .. n), S # {}
    PROVE  \E x \in S : \A y \in S : y <= x
<1> DEFINE T == {n - x : x \in S}
<1>1. \A x \in S : x \in 0 .. n
  OBVIOUS
<1>2. T \in SUBSET Nat /\ T # {}
  <2>1. \A x \in S : n - x \in Nat
    BY <1>1
  <2> QED
    BY <2>1
<1>3. PICK t \in T : \A u \in T : t <= u
  BY <1>2, LeastNat
<1>4. PICK x \in S : t = n - x
  OBVIOUS
<1>5. \A y \in S : y <= x
  <2> TAKE y \in S
  <2>1. n - y \in T /\ x \in 0 .. n /\ y \in 0 .. n
    BY <1>1
  <2>2. n - x <= n - y
    BY <1>3, <1>4, <2>1
  <2> QED
    BY <2>1, <2>2
<1> QED
  BY <1>5

\* What is a sequence of something, and what appending to it does.
IsSeq(s) == \E S : s \in Seq(S)

LEMMA Appended ==
    ASSUME NEW s, IsSeq(s), NEW x
    PROVE  /\ IsSeq(Append(s, x)) /\ Len(s) \in Nat /\ DOMAIN s = 1 .. Len(s)
           /\ DOMAIN Append(s, x) = 1 .. (Len(s) + 1)
           /\ Append(s, x)[Len(s) + 1] = x
           /\ \A k \in DOMAIN s : Append(s, x)[k] = s[k]
<1>1. PICK S : s \in Seq(S)
  BY DEF IsSeq
<1> DEFINE U == S \cup {x}
<1>2. s \in Seq(U) /\ x \in U
  BY <1>1
<1> HIDE DEF U
<1>3. /\ Append(s, x) \in Seq(U) /\ Len(s) \in Nat /\ DOMAIN s = 1 .. Len(s)
      /\ DOMAIN Append(s, x) = 1 .. (Len(s) + 1)
      /\ Append(s, x)[Len(s) + 1] = x
      /\ \A k \in DOMAIN s : Append(s, x)[k] = s[k]
  BY <1>2
<1> QED
  BY <1>3 DEF IsSeq

\* Of pairs of naturals one comes first: by its first half, then its second.
LEMMA LeastPair ==
    ASSUME NEW S \in SUBSET (Nat \X Nat), S # {}
    PROVE  \E p \in S : \A q \in S : p[1] < q[1] \/ (p[1] = q[1] /\ p[2] <= q[2])
<1> DEFINE A == {p[1] : p \in S}
<1>1. A \in SUBSET Nat /\ A # {}
  OBVIOUS
<1>2. PICK a \in A : \A b \in A : a <= b
  BY <1>1, LeastNat
<1> DEFINE B == {n \in Nat : <<a, n>> \in S}
<1>3. B \in SUBSET Nat /\ B # {}
  <2>1. PICK p \in S : p[1] = a
    OBVIOUS
  <2>2. p = <<a, p[2]>> /\ p[2] \in Nat
    BY <2>1
  <2> QED
    BY <2>2
<1>4. PICK b \in B : \A c \in B : b <= c
  BY <1>3, LeastNat
<1> DEFINE m == <<a, b>>
<1>5. m \in S
  OBVIOUS
<1>6. \A q \in S : a < q[1] \/ (a = q[1] /\ b <= q[2])
  <2> TAKE q \in S
  <2>1. q[1] \in A /\ q[1] \in Nat /\ q[2] \in Nat /\ q = <<q[1], q[2]>> /\ a \in Nat
    BY <1>1
  <2>2. a <= q[1]
    BY <1>2, <2>1
  <2>3. CASE q[1] = a
    <3>1. q[2] \in B
      BY <2>1, <2>3
    <3> QED
      BY <1>4, <2>3, <3>1
  <2> QED
    BY <2>1, <2>2, <2>3
<1>7. m[1] = a /\ m[2] = b
  OBVIOUS
<1> HIDE DEF m
<1> QED
  BY <1>5, <1>6, <1>7
----------------------------------------------------------------------------
(* The pools and the route.                                                *)

\* A provider over HTTP was made of a row that parses, and a prompt went only
\* where the row it was asked through says.
PoolInv ==
  /\ DOMAIN rows \in SUBSET Nat
  /\ held # <<>> /\ held.kind = "http" => I!Parses(held.pool)
  /\ \A r \in reached : I!Parses(r[2]) /\ r[1] = r[2].endpoint

\* The file is one of the policies, and an answer was given under it once it
\* had loaded.
RouteInv ==
  /\ file \in Policies
  /\ policy = "loaded" =>
       I!TiersDeclared /\ I!ShapesDeclared /\ I!EgressDeclared /\ I!RingsRuled /\ I!PoolsDeclared
  /\ assignment # <<>> =>
       \E shape \in file.shapes, ring \in file.rings :
         policy = "loaded" /\ assignment = I!Assignment(shape, ring)

\* A row that parses keeps its fence.
LEMMA ParsedIsFenced ==
    ASSUME NEW row, I!Parses(row)
    PROVE  /\ row.endpoint \in {"loopback", "private"} \/ row.remote = "yes-with-reason"
           /\ row.fence = "local_only" => row.endpoint = "loopback"
BY DEF I!Parses, I!Classifiable, I!ENDPOINT_CLASSES, I!REFUSED_ENDPOINT_CLASSES

\* The provider a caller is handed was made of a row that parses.
LEMMA SelectedParses ==
    ASSUME NEW id, DOMAIN rows \in SUBSET Nat, I!select_provider(id).kind = "http"
    PROVE  I!Parses(I!select_provider(id).pool)
<1> DEFINE on    == {i \in DOMAIN rows : rows[i].enabled}
           named == {i \in DOMAIN rows : rows[i].id = id}
           first(S) == rows[CHOOSE i \in S : \A j \in S : i <= j]
<1>2. \A S \in SUBSET DOMAIN rows : S # {} => \E i \in DOMAIN rows : first(S) = rows[i]
  <2> TAKE S \in SUBSET DOMAIN rows
  <2> HAVE S # {}
  <2>1. \E i \in S : \A j \in S : i <= j
    BY LeastNat
  <2> DEFINE k == CHOOSE i \in S : \A j \in S : i <= j
  <2>2. k \in S
    BY <2>1
  <2> QED
    BY <2>2
<1> HIDE DEF first
<1>3. on \in SUBSET DOMAIN rows /\ named \in SUBSET DOMAIN rows
  OBVIOUS
<1>4. I!select_provider(id) =
        IF ~I!PoolsLoad THEN [kind |-> "halt"]
        ELSE IF id # "none"
             THEN IF named = {} THEN [kind |-> "halt"] ELSE I!provider_for_pool(first(named))
        ELSE IF on = {} THEN [kind |-> "null"]
        ELSE IF \E i, j \in on : i # j THEN [kind |-> "halt"]
        ELSE I!provider_for_pool(first(on))
  BY DEF I!select_provider, first
<1> HIDE DEF on, named
<1>5. \/ I!select_provider(id) = [kind |-> "halt"]
      \/ I!select_provider(id) = [kind |-> "null"]
      \/ \E i \in DOMAIN rows : I!PoolsLoad /\ I!select_provider(id) = I!provider_for_pool(rows[i])
  <2>1. CASE ~I!PoolsLoad
    BY <1>4, <2>1
  <2>2. CASE I!PoolsLoad /\ id # "none" /\ named # {}
    <3>1. PICK i \in DOMAIN rows : first(named) = rows[i]
      BY <1>2, <1>3, <2>2
    <3> QED
      BY <1>4, <2>2, <3>1
  <2>3. CASE I!PoolsLoad /\ id = "none" /\ on # {}
    <3>1. PICK i \in DOMAIN rows : first(on) = rows[i]
      BY <1>2, <1>3, <2>3
    <3> QED
      BY <1>4, <2>3, <3>1
  <2>4. CASE (id # "none" /\ named = {}) \/ (id = "none" /\ on = {})
    BY <1>4, <2>4
  <2> QED
    BY <2>1, <2>2, <2>3, <2>4
<1>6. PICK i \in DOMAIN rows : I!PoolsLoad /\ I!select_provider(id) = I!provider_for_pool(rows[i])
  <2>1. [kind |-> "halt"].kind # "http" /\ [kind |-> "null"].kind # "http"
    OBVIOUS
  <2> QED
    BY <1>5, <2>1
<1>7. I!select_provider(id).pool = rows[i]
  BY <1>6 DEF I!provider_for_pool
<1> QED
  BY <1>6, <1>7 DEF I!PoolsLoad

LEMMA PoolInit == I!InferenceInit => PoolInv
<1> SUFFICES ASSUME I!InferenceInit PROVE PoolInv
  OBVIOUS
<1>1. held = <<>> /\ reached = {} /\ rows \in PoolRows
  BY DEF I!InferenceInit, I!None
<1>2. DOMAIN rows \in SUBSET Nat
  BY <1>1, NodeAssumption DEF I!InferenceAssumption, I!IsList
<1> QED
  BY <1>1, <1>2 DEF PoolInv

LEMMA PoolStep == PoolInv /\ [I!InferenceNext]_iVars => PoolInv'
<1> SUFFICES ASSUME PoolInv, [I!InferenceNext]_iVars PROVE PoolInv'
  OBVIOUS
<1> USE DEF PoolInv
<1>1. ASSUME NEW id, I!SelectProvider(id) PROVE PoolInv'
  <2>1. rows' = rows /\ reached' = reached /\ held' = I!select_provider(id)
    BY <1>1 DEF I!SelectProvider
  <2> QED
    BY <2>1, SelectedParses
<1>2. ASSUME NEW i, I!EditRow(i) PROVE PoolInv'
  <2>1. held' = held /\ reached' = reached /\ DOMAIN rows' = DOMAIN rows
    BY <1>2 DEF I!EditRow
  <2> QED
    BY <2>1
<1>3. ASSUME NEW asked, I!Ask(asked) PROVE PoolInv'
  <2>1. /\ rows' = rows /\ held' = held /\ held # <<>> /\ held.kind = "http"
        /\ reached' = reached \cup {<<held.pool.endpoint, held.pool>>}
    BY <1>3 DEF I!Ask, I!None
  <2> QED
    BY <2>1
<1>4. ASSUME NEW a, I!Answer(a) PROVE PoolInv'
  BY <1>4 DEF I!Answer, I!Transported
<1>5. CASE UNCHANGED <<rows, held, reached>>
  BY <1>5
<1> QED
  BY <1>1, <1>2, <1>3, <1>4, <1>5
     DEF I!InferenceNext, I!NullComplete, I!RefuseAsk, I!LoadPolicy, I!Resolve, iVars

LEMMA PoolImplies == PoolInv => I!PromptStaysInFence
BY ParsedIsFenced DEF PoolInv, I!PromptStaysInFence

\* Under a policy that loaded, a ring has one rule, so what its work may cross
\* to is what every rule of that ring allows.
LEMMA OneRule ==
    ASSUME I!IsList(file.egress), I!RingsRuled, NEW ring \in file.rings
    PROVE  I!Allowed(ring) =
             UNION {e.allow : e \in {x \in I!ToSet(file.egress) : x.ring = ring}}
<1> DEFINE S == {i \in DOMAIN file.egress : file.egress[i].ring = ring}
           R == {x \in I!ToSet(file.egress) : x.ring = ring}
<1>1. IsFiniteSet(S)
  <2>1. IsFiniteSet(1 .. Len(file.egress))
    BY FS_Interval DEF I!IsList
  <2> QED
    BY <2>1, FS_Subset DEF I!IsList
<1>2. Cardinality(S) = 1
  BY DEF I!RingsRuled, I!Cardinality, Cardinality
<1>3. PICK i : S = {i}
  BY <1>1, <1>2, FS_Singleton
<1>4. i \in DOMAIN file.egress /\ file.egress[i].ring = ring
  BY <1>3
<1>5. R = {file.egress[i]}
  BY <1>3, <1>4 DEF I!ToSet
<1>6. (CHOOSE e \in I!ToSet(file.egress) : e.ring = ring) = file.egress[i]
  BY <1>5
<1> QED
  BY <1>5, <1>6 DEF I!Allowed

\* The first pick is a pick, and no pick comes before it.
LEMMA FirstIsFirst ==
    ASSUME NEW tier \in DOMAIN file.tiers, NEW ring,
           I!IsList(file.tiers[tier]), I!IsList(file.pools), I!Picks(tier, ring) # {}
    PROVE  /\ I!FirstPick(tier, ring) \in I!Picks(tier, ring)
           /\ \A q \in I!Picks(tier, ring) : I!FirstPick(tier, ring)[1] <= q[1]
<1> DEFINE P == I!Picks(tier, ring)
           first == I!FirstPick(tier, ring)
<1>1. P \in SUBSET (Nat \X Nat)
  BY DEF I!Picks, I!Live, I!IsList
<1>2. \E p \in P : \A q \in P : p[1] < q[1] \/ (p[1] = q[1] /\ p[2] <= q[2])
  BY <1>1, LeastPair
<1>3. first \in P /\ \A q \in P : first[1] < q[1] \/ (first[1] = q[1] /\ first[2] <= q[2])
  BY <1>2 DEF I!FirstPick
<1>4. \A p \in P : p[1] \in Nat
  BY <1>1
<1> HIDE DEF P, first
<1>5. \A q \in P : first[1] <= q[1]
  BY <1>3, <1>4
<1> QED
  BY <1>3, <1>5 DEF P, first

\* The answer resolve gives under a policy that loaded.
LEMMA AnswerHoldsFence ==
    ASSUME file \in Policies, I!ShapesDeclared, I!RingsRuled,
           NEW shape \in file.shapes, NEW ring \in file.rings,
           assignment = I!Assignment(shape, ring)
    PROVE  I!RouteHoldsFence
<1> DEFINE tier == file.tiers[shape.tier]
           may  == UNION {e.allow : e \in {x \in I!ToSet(file.egress) : x.ring = ring}}
           serves(i, f) == /\ file.pools[i].status = "live"
                           /\ tier[f] \in I!ToSet(file.pools[i].families)
           P    == I!Picks(shape.tier, ring)
           out  == I!FencedOut(shape.tier, ring)
<1>1. shape.tier \in DOMAIN file.tiers
  BY DEF I!ShapesDeclared
<1>2. I!IsList(tier) /\ I!IsList(file.pools) /\ I!IsList(file.egress)
  BY <1>1, NodeAssumption DEF I!InferenceAssumption
<1>3. I!Allowed(ring) = may
  BY <1>2, OneRule
<1>4. \A p : p \in P <=> /\ p \in (1 .. Len(tier)) \X DOMAIN file.pools
                         /\ serves(p[2], p[1]) /\ file.pools[p[2]].class \in may
  BY <1>3 DEF I!Picks, I!Live, I!Families
<1>5. \A i : i \in out <=> /\ i \in DOMAIN file.pools /\ file.pools[i].class \notin may
                           /\ \E f \in DOMAIN tier : serves(i, f)
  <2>1. \A i : I!Families(file.pools[i]) \cap I!ToSet(tier) # {} <=>
                 \E f \in DOMAIN tier : tier[f] \in I!ToSet(file.pools[i].families)
    <3>1. \A x : x \in I!ToSet(tier) <=> \E f \in DOMAIN tier : x = tier[f]
      BY DEF I!ToSet
    <3> HIDE DEF tier
    <3> QED
      BY <3>1 DEF I!Families
  <2> HIDE DEF tier
  <2>2. \A i : i \in out <=> /\ i \in DOMAIN file.pools /\ file.pools[i].status = "live"
                             /\ I!Families(file.pools[i]) \cap I!ToSet(tier) # {}
                             /\ file.pools[i].class \notin may
    BY <1>3 DEF I!FencedOut, I!Live, tier
  <2> HIDE DEF out, may
  <2> QED
    BY <2>1, <2>2
<1>6. DOMAIN tier = 1 .. Len(tier) /\ Len(tier) \in Nat
  BY <1>2 DEF I!IsList
<1>7. /\ assignment.shape = shape /\ assignment.ring = ring
      /\ assignment.verdict = IF P # {} THEN "permitted"
                              ELSE IF out # {} THEN "refused" ELSE "unmet"
      /\ P # {} => /\ assignment.pool = I!FirstPick(shape.tier, ring)[2]
                   /\ assignment.family = I!FirstPick(shape.tier, ring)[1]
  BY DEF I!Assignment
<1>8. P # {} => /\ I!FirstPick(shape.tier, ring) \in P
                /\ \A q \in P : I!FirstPick(shape.tier, ring)[1] <= q[1]
  BY <1>1, <1>2, FirstIsFirst
<1> HIDE DEF P, out, may, serves, tier
<1>9. CASE P # {}
  <2> DEFINE p == I!FirstPick(shape.tier, ring)
  <2>1. p \in P /\ \A q \in P : p[1] <= q[1]
    BY <1>8, <1>9
  <2>2. assignment.pool = p[2] /\ assignment.family = p[1] /\ assignment.verdict = "permitted"
    BY <1>7, <1>9
  <2> HIDE DEF p
  <2>3. p[1] \in 1 .. Len(tier) /\ serves(p[2], p[1]) /\ file.pools[p[2]].class \in may
    BY <1>4, <2>1
  <2>4. ASSUME NEW f \in 1 .. p[1] - 1, NEW i \in DOMAIN file.pools, serves(i, f)
        PROVE  file.pools[i].class \notin may
    <3>1. f \in 1 .. Len(tier) /\ ~ (p[1] <= f)
      BY <1>6, <2>3
    <3> DEFINE q == <<f, i>>
    <3>2. q[1] = f /\ q[2] = i /\ q \in (1 .. Len(tier)) \X DOMAIN file.pools
      BY <3>1
    <3> HIDE DEF q
    <3>3. q \notin P
      BY <2>1, <3>1, <3>2
    <3>4. serves(q[2], q[1])
      BY <2>4, <3>2
    <3>5. file.pools[q[2]].class \notin may
      BY <1>4, <3>2, <3>3, <3>4
    <3> QED
      BY <3>2, <3>5
  <2>5. /\ file.pools[assignment.pool].status = "live"
        /\ tier[assignment.family] \in I!ToSet(file.pools[assignment.pool].families)
        /\ file.pools[assignment.pool].class \in may
    BY <2>2, <2>3 DEF serves
  <2>6. \A f \in 1 .. assignment.family - 1, i \in DOMAIN file.pools :
           /\ file.pools[i].status = "live"
           /\ tier[f] \in I!ToSet(file.pools[i].families)
           => file.pools[i].class \notin may
    BY <2>2, <2>4 DEF serves
  <2>7. file.tiers[assignment.shape.tier] = tier
    BY <1>7 DEF tier
  <2>8. UNION {e.allow : e \in {x \in I!ToSet(file.egress) : x.ring = assignment.ring}} = may
    BY <1>7 DEF may
  <2> QED
    BY <2>2, <2>5, <2>6, <2>7, <2>8 DEF I!RouteHoldsFence
<1>10. CASE P = {}
  <2>1. ASSUME NEW i \in DOMAIN file.pools, NEW f \in DOMAIN tier, serves(i, f)
        PROVE  file.pools[i].class \notin may
    <3> DEFINE q == <<f, i>>
    <3>1. q[1] = f /\ q[2] = i /\ q \in (1 .. Len(tier)) \X DOMAIN file.pools
      BY <1>6
    <3> HIDE DEF q
    <3> QED
      BY <1>4, <1>10, <2>1, <3>1
  <2>2. CASE out # {}
    <3>1. \E i \in DOMAIN file.pools, f \in DOMAIN tier : serves(i, f)
      BY <1>5, <2>2
    <3>2. assignment.verdict = "refused"
      BY <1>7, <1>10, <2>2
    <3> QED
      BY <1>7, <2>1, <3>1, <3>2 DEF I!RouteHoldsFence, serves, may, tier
  <2>3. CASE out = {}
    <3>1. \A i \in DOMAIN file.pools, f \in DOMAIN tier : ~serves(i, f)
      BY <1>5, <2>1, <2>3
    <3>2. assignment.verdict = "unmet"
      BY <1>7, <1>10, <2>3
    <3> QED
      BY <1>7, <3>1, <3>2 DEF I!RouteHoldsFence, serves, tier
  <2> QED
    BY <2>2, <2>3
<1> QED
  BY <1>9, <1>10

LEMMA RouteInit == I!InferenceInit => RouteInv
BY DEF I!InferenceInit, I!None, RouteInv

\* What is said of the file does not change while the file does not.
LEMMA SameFile ==
    ASSUME file' = file
    PROVE  /\ I!TiersDeclared' <=> I!TiersDeclared
           /\ I!ShapesDeclared' <=> I!ShapesDeclared
           /\ I!EgressDeclared' <=> I!EgressDeclared
           /\ I!RingsRuled' <=> I!RingsRuled
           /\ I!PoolsDeclared' <=> I!PoolsDeclared
           /\ \A shape, ring : I!Assignment(shape, ring)' = I!Assignment(shape, ring)
<1>1. /\ I!TiersDeclared' <=> I!TiersDeclared
      /\ I!ShapesDeclared' <=> I!ShapesDeclared
  BY DEF I!TiersDeclared, I!ShapesDeclared
<1>2. /\ I!EgressDeclared' <=> I!EgressDeclared
      /\ I!RingsRuled' <=> I!RingsRuled
  BY DEF I!EgressDeclared, I!RingsRuled
<1>3. I!PoolsDeclared' <=> I!PoolsDeclared
  BY DEF I!PoolsDeclared, I!Families
<1>4. ASSUME NEW tier, NEW ring
      PROVE  /\ I!Picks(tier, ring)' = I!Picks(tier, ring)
             /\ I!FirstPick(tier, ring)' = I!FirstPick(tier, ring)
             /\ I!FencedOut(tier, ring)' = I!FencedOut(tier, ring)
  <2>1. I!Live' = I!Live
    BY DEF I!Live
  <2>2. I!Allowed(ring)' = I!Allowed(ring)
    BY DEF I!Allowed
  <2>3. I!Picks(tier, ring)' = I!Picks(tier, ring)
    BY <2>1, <2>2 DEF I!Picks, I!Families
  <2>4. I!FirstPick(tier, ring)' = I!FirstPick(tier, ring)
    BY <2>3 DEF I!FirstPick
  <2>5. I!FencedOut(tier, ring)' = I!FencedOut(tier, ring)
    BY <2>1, <2>2 DEF I!FencedOut, I!Families
  <2> QED
    BY <2>3, <2>4, <2>5
<1>5. ASSUME NEW shape, NEW ring
      PROVE  I!Assignment(shape, ring)' = I!Assignment(shape, ring)
  BY <1>4 DEF I!Assignment
<1> QED
  BY <1>1, <1>2, <1>3, <1>5

LEMMA RouteStep == RouteInv /\ [I!InferenceNext]_iVars => RouteInv'
<1> SUFFICES ASSUME RouteInv, [I!InferenceNext]_iVars PROVE RouteInv'
  OBVIOUS
<1> USE DEF RouteInv
<1>1. CASE I!LoadPolicy
  <2>1. /\ file' = file /\ assignment' = assignment /\ policy = "none"
        /\ policy' = IF I!TiersDeclared /\ I!ShapesDeclared /\ I!EgressDeclared
                        /\ I!RingsRuled /\ I!PoolsDeclared THEN "loaded" ELSE "halted"
    BY <1>1 DEF I!LoadPolicy
  <2>2. assignment = <<>>
    BY <2>1
  <2> QED
    BY <2>1, <2>2, SameFile
<1>2. ASSUME NEW shape \in file.shapes, NEW ring \in file.rings, I!Resolve(shape, ring)
      PROVE  RouteInv'
  <2>1. /\ policy = "loaded" /\ file' = file /\ policy' = policy
        /\ assignment' = I!Assignment(shape, ring)
    BY <1>2 DEF I!Resolve
  <2>2. assignment' = I!Assignment(shape, ring)'
    BY <2>1, SameFile
  <2> QED
    BY <2>1, <2>2, SameFile
<1>3. CASE UNCHANGED <<file, policy, assignment>>
  BY <1>3, SameFile
<1> QED
  BY <1>1, <1>2, <1>3 DEF I!InferenceNext, I!SelectProvider, I!EditRow, I!NullComplete,
     I!RefuseAsk, I!Ask, I!Answer, iVars

LEMMA RouteImplies == RouteInv => I!RouteHoldsFence
<1> SUFFICES ASSUME RouteInv PROVE I!RouteHoldsFence
  OBVIOUS
<1>1. CASE assignment # <<>>
  BY <1>1, AnswerHoldsFence DEF RouteInv
<1>2. CASE assignment = <<>>
  BY <1>2 DEF I!RouteHoldsFence, I!None
<1> QED
  BY <1>1, <1>2
----------------------------------------------------------------------------
(* The watermark.                                                          *)

\* A mark has a position and a count, and every absorber a position to move
\* it to.
MarkInv ==
  /\ mark # <<>> => /\ mark = [comparable |-> mark.comparable, runs |-> mark.runs]
                    /\ mark.comparable \in Nat /\ mark.runs \in Nat
  /\ DOMAIN abs = Absorbers
  /\ \A a \in Absorbers : abs[a].at \in Nat

LEMMA MarkInit == K!KnowledgeInit => MarkInv
<1> SUFFICES ASSUME K!KnowledgeInit PROVE MarkInv
  OBVIOUS
<1>1. mark = <<>> /\ abs = [a \in Absorbers |-> [pc |-> "idle", at |-> 0, seen |-> <<>>]]
  BY DEF K!KnowledgeInit
<1>2. DOMAIN abs = Absorbers /\ \A a \in Absorbers : abs[a].at = 0
  BY <1>1
<1> QED
  BY <1>1, <1>2 DEF MarkInv

\* An absorber's own step moves no other absorber.
LEMMA SetKeeps ==
    ASSUME MarkInv, NEW a \in Absorbers, NEW pc, NEW at \in Nat, NEW seen, K!Set(a, pc, at, seen)
    PROVE  DOMAIN abs' = Absorbers /\ \A b \in Absorbers : abs'[b].at \in Nat
BY DEF MarkInv, K!Set

\* A step of an absorber keeps the mark's shape and never moves it back.
LEMMA MarkMoves ==
    ASSUME MarkInv, NEW a \in Absorbers,
           K!read_watermark(a) \/ K!TakeLock(a) \/ K!advance_watermark(a)
    PROVE  MarkInv' /\ K!NeverBack
<1>1. CASE K!read_watermark(a)
  <2>1. MaxMark \in Nat
    BY NodeAssumption DEF K!KnowledgeAssumption
  <2>2. PICK at \in 1 .. MaxMark : K!Set(a, "swept", at, mark)
    BY <1>1 DEF K!read_watermark
  <2>3. mark' = mark /\ at \in Nat
    BY <1>1, <2>1 DEF K!read_watermark
  <2> QED
    BY <2>2, <2>3, SetKeeps DEF MarkInv, K!NeverBack
<1>2. CASE K!TakeLock(a)
  <2>1. mark' = mark /\ K!Set(a, "locked", abs[a].at, abs[a].seen) /\ abs[a].at \in Nat
    BY <1>2 DEF K!TakeLock, MarkInv
  <2> QED
    BY <2>1, SetKeeps DEF MarkInv, K!NeverBack
<1>3. CASE K!advance_watermark(a)
  <2> DEFINE raises == IF mark = <<>> THEN FALSE ELSE abs[a].at < mark.comparable
             moved == [comparable |-> abs[a].at,
                       runs |-> IF mark = <<>> THEN 1 ELSE mark.runs + 1]
  <2>1. /\ mark' = IF raises THEN mark ELSE moved
        /\ K!Set(a, IF raises THEN "refused" ELSE "done", 0, <<>>)
    BY <1>3 DEF K!advance_watermark, K!Current
  <2>2. DOMAIN abs' = Absorbers /\ \A b \in Absorbers : abs'[b].at \in Nat
    BY <2>1, SetKeeps
  <2>3. abs[a].at \in Nat
    BY DEF MarkInv
  <2>4. /\ moved = [comparable |-> moved.comparable, runs |-> moved.runs]
        /\ moved.comparable \in Nat /\ moved.runs \in Nat
        /\ mark # <<>> => moved.runs >= mark.runs /\ moved.comparable = abs[a].at
    BY <2>3 DEF MarkInv
  <2>5. moved # <<>>
    <3>1. DOMAIN moved # DOMAIN <<>>
      OBVIOUS
    <3> QED
      BY <3>1
  <2> HIDE DEF moved
  <2>6. CASE raises
    BY <2>1, <2>2, <2>6 DEF MarkInv, K!NeverBack
  <2>7. CASE ~raises
    BY <2>1, <2>2, <2>3, <2>4, <2>5, <2>7 DEF MarkInv, K!NeverBack
  <2> QED
    BY <2>6, <2>7
<1> QED
  BY <1>1, <1>2, <1>3

LEMMA MarkStep ==
    MarkInv /\ [K!StoreNext \/ K!MarkNext]_kVars => MarkInv' /\ (mark' = mark \/ K!NeverBack)
<1> SUFFICES ASSUME MarkInv, [K!StoreNext \/ K!MarkNext]_kVars
             PROVE  MarkInv' /\ (mark' = mark \/ K!NeverBack)
  OBVIOUS
<1>1. CASE K!MarkNext
  BY <1>1, MarkMoves DEF K!MarkNext
<1>2. CASE UNCHANGED <<mark, abs>>
  BY <1>2 DEF MarkInv
<1>3. CASE K!StoreNext
  <2>1. UNCHANGED <<mark, abs>>
    BY <1>3 DEF K!StoreNext, K!Declare, K!PostgresUpsert, K!Fault, K!upsert, K!Restart,
       K!Measure, K!append_reading, K!TornAppend, K!SetEnv, K!EditTaxonomy
  <2> QED
    BY <1>2, <2>1
<1> QED
  BY <1>1, <1>2, <1>3 DEF kVars
----------------------------------------------------------------------------
(* The write gate.                                                         *)

\* What the gate rules of a row.
Gated(r) ==
  r.mode # "off" =>
    /\ \A bound \in {r.sens, r.ruled, r.claim} \cap K!Rings : r.ring <= bound
    /\ r.claim = K!Unreadable => r.ring = K!Quarantine
    /\ r.mode = "enforce" => r.ring # K!Quarantine /\ ~K!SigmaViolates(r.sigma, r.floor)

\* The taxonomy in memory is a map of rulings or none, and every collection in
\* the registry has a declaration.
StoreInv ==
  /\ taxfile \in Taxonomies
  /\ taxonomy = <<>> \/ taxonomy \in K!Rulings
  /\ \A c \in DOMAIN specs : specs[c].sens \in K!Rings
  /\ \A k \in DOMAIN store : Gated(store[k])

\* Of a claim, a declaration and a ruling the strictest stands, an unreadable
\* claim being the strictest of all.
LEMMA StrictestStands ==
    ASSUME NEW claim \in K!Rings \cup {K!Absent, K!Unreadable}, NEW sens \in K!Rings,
           NEW ruled \in K!Rings \cup {K!Absent}
    PROVE  LET ring == K!ResolvedRing(claim, sens, ruled) IN
           /\ ring \in K!Rings
           /\ \A bound \in {sens, ruled, claim} \cap K!Rings : ring <= bound
           /\ claim = K!Unreadable => ring = K!Quarantine
<1>1. MaxRing \in Nat /\ MaxRing < 8
  BY NodeAssumption DEF K!KnowledgeAssumption, K!Unreadable
<1>2. K!Rings = 0 .. MaxRing /\ K!Absent = 9 /\ K!Unreadable = 8 /\ K!Quarantine = 0
  BY DEF K!Rings, K!Absent, K!Unreadable, K!Quarantine
<1>3. \A l, r \in K!Rings : /\ K!stricter(l, r) \in K!Rings
                           /\ K!stricter(l, r) <= l /\ K!stricter(l, r) <= r
  BY <1>1, <1>2 DEF K!stricter
<1>4. /\ K!ring_from_metadata(claim) \in K!Rings
      /\ claim \in K!Rings => K!ring_from_metadata(claim) = claim
      /\ claim = K!Unreadable => K!ring_from_metadata(claim) = 0
  BY <1>1, <1>2 DEF K!ring_from_metadata
<1> DEFINE own == IF claim = K!Absent THEN sens ELSE K!stricter(K!ring_from_metadata(claim), sens)
           ring == IF ruled = K!Absent THEN own ELSE K!stricter(own, ruled)
<1>5. /\ own \in K!Rings /\ own <= sens
      /\ claim \in K!Rings => own <= claim
      /\ claim = K!Unreadable => own <= 0
  <2>1. CASE claim = K!Absent
    BY <1>1, <1>2, <2>1
  <2>2. CASE claim # K!Absent
    <3>1. own = K!stricter(K!ring_from_metadata(claim), sens)
      BY <2>2
    <3>2. own \in K!Rings /\ own <= K!ring_from_metadata(claim) /\ own <= sens
      BY <1>3, <1>4, <3>1
    <3> HIDE DEF own
    <3> QED
      BY <1>4, <3>2
  <2> QED
    BY <2>1, <2>2
<1> HIDE DEF own
<1>6. /\ ring \in K!Rings /\ ring <= own
      /\ ruled \in K!Rings => ring <= ruled
  <2>1. CASE ruled = K!Absent
    BY <1>1, <1>2, <1>5, <2>1
  <2>2. CASE ruled \in K!Rings
    <3>1. ring = K!stricter(own, ruled)
      BY <1>1, <1>2, <2>2
    <3> HIDE DEF ring
    <3> QED
      BY <1>3, <1>5, <2>2, <3>1
  <2> QED
    BY <2>1, <2>2
<1>7. ring = K!ResolvedRing(claim, sens, ruled)
  BY DEF K!ResolvedRing, own
<1> HIDE DEF ring
<1>8. \A x \in K!Rings : x \in Int /\ x >= 0
  BY <1>1, <1>2
<1>9. /\ ring <= sens
      /\ claim \in K!Rings => ring <= claim
      /\ claim = K!Unreadable => ring = 0
  BY <1>5, <1>6, <1>8
<1> QED
  BY <1>2, <1>6, <1>7, <1>9

\* A row that passed the gate is as the gate rules.
LEMMA PassedIsGated ==
    ASSUME NEW meta, meta.ring \in K!Rings \cup {K!Absent, K!Unreadable},
           NEW spec, spec.sens \in K!Rings,
           NEW tax, tax = <<>> \/ tax \in K!Rulings, NEW mode,
           ~K!gate_write(meta, spec, tax, mode).refused
    PROVE  Gated(K!gate_write(meta, spec, tax, mode).row)
<1> DEFINE st == IF meta.st = "" THEN spec.st ELSE meta.st
           ruled == K!declared_ring_for(tax, st)
           ring == K!ResolvedRing(meta.ring, spec.sens, ruled)
           sigma == K!SigmaStatus(meta.sigma, meta.conf, spec.floor)
           bad == ring = K!Quarantine \/ K!SigmaViolates(sigma, spec.floor)
           row == K!gate_write(meta, spec, tax, mode).row
<1>1. ruled \in K!Rings \cup {K!Absent}
  BY DEF K!declared_ring_for, K!Rulings
<1> HIDE DEF st, ruled
<1>2. /\ ring \in K!Rings
      /\ \A bound \in {spec.sens, ruled, meta.ring} \cap K!Rings : ring <= bound
      /\ meta.ring = K!Unreadable => ring = K!Quarantine
  BY <1>1, StrictestStands
<1> HIDE DEF ring, sigma, bad
<1>3. K!gate_write(meta, spec, tax, mode) =
        [refused |-> mode = "halt" \/ (mode = "enforce" /\ bad),
         row |-> [ring |-> IF mode = "off" THEN meta.ring ELSE ring,
                  sigma |-> IF mode = "off" THEN "untouched" ELSE sigma,
                  mode |-> mode, claim |-> meta.ring, ruled |-> ruled,
                  sens |-> spec.sens, floor |-> spec.floor]]
  BY DEF K!gate_write, st, ruled, ring, sigma, bad
<1>4. /\ row.mode = mode /\ row.claim = meta.ring /\ row.ruled = ruled
      /\ row.sens = spec.sens /\ row.floor = spec.floor
      /\ mode # "off" => row.ring = ring /\ row.sigma = sigma
  BY <1>3
<1> DEFINE refuses == mode = "halt" \/ (mode = "enforce" /\ bad)
           kept == [ring |-> IF mode = "off" THEN meta.ring ELSE ring,
                    sigma |-> IF mode = "off" THEN "untouched" ELSE sigma,
                    mode |-> mode, claim |-> meta.ring, ruled |-> ruled,
                    sens |-> spec.sens, floor |-> spec.floor]
<1>5. ~refuses
  <2>1. K!gate_write(meta, spec, tax, mode) = [refused |-> refuses, row |-> kept]
    BY <1>3
  <2> HIDE DEF refuses, kept
  <2>2. K!gate_write(meta, spec, tax, mode).refused = refuses
    BY <2>1
  <2> QED
    BY <2>2
<1> HIDE DEF row
<1>6. mode = "enforce" => ring # K!Quarantine /\ ~K!SigmaViolates(sigma, spec.floor)
  BY <1>5 DEF bad
<1>7. Gated(row)
  BY <1>2, <1>4, <1>6 DEF Gated
<1> QED
  BY <1>7 DEF row

LEMMA StoreInit == K!KnowledgeInit => StoreInv
<1> SUFFICES ASSUME K!KnowledgeInit PROVE StoreInv
  OBVIOUS
<1>1. /\ taxfile \in Taxonomies /\ store = <<>>
      /\ taxonomy = IF K!LoadHalts(taxfile) THEN <<>> ELSE taxfile
  BY DEF K!KnowledgeInit
<1>2. taxonomy = <<>> \/ taxonomy \in K!Rulings
  BY <1>1, NodeAssumption DEF K!KnowledgeAssumption, K!LoadHalts
<1>3. \A c \in DOMAIN specs : specs[c].sens \in K!Rings
  <2>1. PICK D \in SUBSET Collections : specs = [c \in D |-> Shapes[c]]
    BY DEF K!KnowledgeInit
  <2> QED
    BY <2>1, NodeAssumption DEF K!KnowledgeAssumption
<1> QED
  BY <1>1, <1>2, <1>3 DEF StoreInv

LEMMA StoreStep == StoreInv /\ [K!StoreNext \/ K!MarkNext]_kVars => StoreInv'
<1> SUFFICES ASSUME StoreInv, [K!StoreNext \/ K!MarkNext]_kVars PROVE StoreInv'
  OBVIOUS
<1>1. CASE UNCHANGED <<taxfile, taxonomy, specs, store>>
  BY <1>1 DEF StoreInv, Gated
<1>2. ASSUME NEW c \in Collections, K!Declare(c, Shapes[c]) PROVE StoreInv'
  <2>1. /\ specs' = [d \in DOMAIN specs \cup {c} |-> IF d = c THEN Shapes[c] ELSE specs[d]]
        /\ UNCHANGED <<taxfile, taxonomy, store>>
    BY <1>2 DEF K!Declare
  <2>2. Shapes[c].sens \in K!Rings
    BY NodeAssumption DEF K!KnowledgeAssumption
  <2> QED
    BY <2>1, <2>2 DEF StoreInv, Gated
<1>3. ASSUME NEW c \in DOMAIN specs, NEW id \in RowIds, NEW dims \in {1, 2}, NEW m \in Claims,
             K!upsert(c, id, dims, m)
      PROVE  StoreInv'
  <2> DEFINE g == K!gate_write(m, specs[c], taxonomy, K!gate_mode(env.sigma))
  <2>1. /\ store' = IF dims # specs[c].dims \/ g.refused THEN store
                    ELSE [k \in DOMAIN store \cup {<<c, id>>} |->
                            IF k = <<c, id>> THEN g.row ELSE store[k]]
        /\ UNCHANGED <<taxfile, taxonomy, specs>>
    BY <1>3 DEF K!upsert
  <2>2. m.ring \in K!Rings \cup {K!Absent, K!Unreadable}
    BY NodeAssumption DEF K!KnowledgeAssumption
  <2>3. ~g.refused => Gated(g.row)
    BY <2>2, PassedIsGated DEF StoreInv
  <2> HIDE DEF g
  <2>4. \A k \in DOMAIN store' : Gated(store'[k])
    BY <2>1, <2>3 DEF StoreInv
  <2> QED
    BY <2>1, <2>4 DEF StoreInv, Gated
<1>4. CASE K!Restart
  <2>1. /\ taxonomy' = taxfile /\ taxfile' = taxfile /\ specs' = <<>> /\ store' = <<>>
        /\ ~K!LoadHalts(taxfile)
    BY <1>4 DEF K!Restart
  <2>2. taxonomy' \in K!Rulings
    BY <2>1, NodeAssumption DEF K!KnowledgeAssumption, K!LoadHalts, StoreInv
  <2> QED
    BY <2>1, <2>2 DEF StoreInv, K!Rulings
<1>5. CASE K!TornAppend
  <2>1. taxonomy' = <<>> /\ taxfile' = taxfile /\ specs' = <<>> /\ store' = <<>>
    BY <1>5 DEF K!TornAppend
  <2> QED
    BY <2>1 DEF StoreInv
<1>6. ASSUME NEW doc \in Taxonomies, K!EditTaxonomy(doc) PROVE StoreInv'
  <2>1. taxfile' = doc /\ UNCHANGED <<taxonomy, specs, store>>
    BY <1>6 DEF K!EditTaxonomy
  <2> QED
    BY <2>1 DEF StoreInv, Gated
<1>7. CASE K!MarkNext
  <2>1. UNCHANGED <<taxfile, taxonomy, specs, store>>
    BY <1>7 DEF K!MarkNext, K!read_watermark, K!TakeLock, K!advance_watermark
  <2> QED
    BY <1>1, <2>1
<1>8. CASE \/ \E c \in Collections : K!PostgresUpsert(c) \/ K!Fault(c)
           \/ K!Measure \/ K!append_reading
           \/ \E s \in {"", "enforce", "off", "typo"}, r \in {"", "enforce", "typo"} :
                K!SetEnv(s, r)
  <2>1. UNCHANGED <<taxfile, taxonomy, specs, store>>
    BY <1>8 DEF K!PostgresUpsert, K!Fault, K!Measure, K!append_reading, K!SetEnv
  <2> QED
    BY <1>1, <2>1
<1>9. CASE UNCHANGED kVars
  BY <1>1, <1>9 DEF kVars
<1> QED
  BY <1>2, <1>3, <1>4, <1>5, <1>6, <1>7, <1>8, <1>9 DEF K!StoreNext

LEMMA StoreImplies == StoreInv => K!NeverLoosened
BY DEF StoreInv, K!NeverLoosened, Gated
----------------------------------------------------------------------------
(* The coverage ledger.                                                    *)

Sound(v) == v \notin {"DEGRADED", "LOST"}

\* A record that is neither degraded nor lost follows no lost one and measured
\* whatever a record before it did, the degraded ones aside; a clean bill is
\* besides no fall below any of them.  This chains where posture compares only
\* with the last clean record.
LedInv ==
  /\ IsSeq(led)
  /\ \A j \in DOMAIN led : Sound(led[j].verdict) =>
       \A i \in DOMAIN led : i < j =>
         /\ led[i].verdict # "LOST"
         /\ led[i].verdict # "DEGRADED" =>
              /\ led[i].measured \subseteq led[j].measured
              /\ led[j].verdict \in {"COVERED", "ATTENTION"} => ~K!FellBelow(led[j], led[i])

LEMMA LedInit == K!KnowledgeInit => LedInv
<1> SUFFICES ASSUME K!KnowledgeInit PROVE LedInv
  OBVIOUS
<1>1. led = <<>>
  BY DEF K!KnowledgeInit
<1>2. IsSeq(<<>>) /\ DOMAIN <<>> = {}
  BY <<>> \in Seq({}) DEF IsSeq
<1> QED
  BY <1>1, <1>2 DEF LedInv

\* A record that says more than DEGRADED lost nothing that the ledger has.
LEMMA SoundLostNothing ==
    ASSUME LedInv, NEW r, K!posture(r, led) # "DEGRADED", NEW i \in DOMAIN led
    PROVE  /\ led[i].verdict # "LOST"
           /\ led[i].verdict # "DEGRADED" =>
                /\ led[i].measured \subseteq r.measured
                /\ K!posture(r, led) \in {"COVERED", "ATTENTION"} => ~K!FellBelow(r, led[i])
<1>1. Len(led) \in Nat /\ DOMAIN led = 1 .. Len(led)
  BY Appended DEF LedInv
<1>2. /\ \A j \in DOMAIN led : led[j].verdict # "LOST"
      /\ \A j \in K!LastClean(led) : led[j].measured \subseteq r.measured
      /\ K!posture(r, led) \in {"COVERED", "ATTENTION"} =>
           \A h \in K!Marks(led) : ~K!FellBelow(r, h)
  BY <1>1 DEF K!posture
<1>3. ASSUME led[i].verdict # "DEGRADED"
      PROVE  led[i].measured \subseteq r.measured /\ led[i] \in K!Marks(led)
  <2> DEFINE C == K!Clean(led)
  <2>1. i \in C /\ C \in SUBSET (0 .. Len(led))
    BY <1>1, <1>3 DEF K!Clean
  <2>2. PICK k \in C : \A j \in C : j <= k
    BY <1>1, <2>1, Greatest
  <2>3. k \in K!LastClean(led) /\ i <= k /\ k \in DOMAIN led /\ led[k].verdict # "DEGRADED"
    BY <1>1, <2>1, <2>2 DEF K!LastClean, K!Clean
  <2>4. led[i].measured \subseteq led[k].measured
    <3>1. CASE i = k
      BY <3>1
    <3>2. CASE i < k
      BY <1>2, <1>3, <2>3, <3>2 DEF LedInv, Sound
    <3> QED
      BY <1>1, <2>3, <3>1, <3>2
  <2> QED
    BY <1>2, <2>1, <2>3, <2>4 DEF K!Marks
<1> QED
  BY <1>2, <1>3

\* A record appended is judged by what stands before it.
LEMMA LedGrows ==
    ASSUME LedInv, NEW r, NEW v, led' = Append(led, K!Graded(r, v)),
           v \notin {"LOST", "DEGRADED"} => v = K!posture(r, led)
    PROVE  LedInv'
<1> DEFINE e == K!Graded(r, v)
           n == Len(led) + 1
<1>1. /\ e.verdict = v /\ e.measured = r.measured
      /\ \A h : K!FellBelow(e, h) <=> K!FellBelow(r, h)
  <2>1. e.verdict = v /\ e.measured = r.measured /\ e.rows = r.rows /\ e.classified = r.classified
    BY DEF K!Graded
  <2> HIDE DEF e
  <2> QED
    BY <2>1 DEF K!FellBelow
<1> HIDE DEF e
<1>2. /\ IsSeq(led') /\ Len(led) \in Nat /\ DOMAIN led = 1 .. Len(led)
      /\ DOMAIN led' = 1 .. n /\ led'[n] = e /\ \A k \in DOMAIN led : led'[k] = led[k]
  BY Appended DEF LedInv, e
<1>3. ASSUME NEW j \in DOMAIN led', Sound(led'[j].verdict), NEW i \in DOMAIN led', i < j
      PROVE  /\ led'[i].verdict # "LOST"
             /\ led'[i].verdict # "DEGRADED" =>
                  /\ led'[i].measured \subseteq led'[j].measured
                  /\ led'[j].verdict \in {"COVERED", "ATTENTION"} => ~K!FellBelow(led'[j], led'[i])
  <2>1. i \in DOMAIN led /\ led'[i] = led[i]
    BY <1>2, <1>3
  <2>2. CASE j = n
    <3>1. led'[j] = e /\ v \notin {"LOST", "DEGRADED"}
      BY <1>1, <1>2, <1>3, <2>2 DEF Sound
    <3>2. K!posture(r, led) = v
      BY <3>1
    <3> QED
      BY <1>1, <2>1, <3>1, <3>2, SoundLostNothing
  <2>3. CASE j # n
    <3>1. j \in DOMAIN led /\ led'[j] = led[j]
      BY <1>2, <2>3
    <3> QED
      BY <1>3, <2>1, <3>1 DEF LedInv
  <2> QED
    BY <2>2, <2>3
<1>4. \A j, i : K!FellBelow(led[j], led[i])' <=> K!FellBelow(led'[j], led'[i])
  BY DEF K!FellBelow
<1> QED
  BY <1>2, <1>3, <1>4 DEF LedInv

LEMMA LedStep == LedInv /\ [K!StoreNext \/ K!MarkNext]_kVars => LedInv'
<1> SUFFICES ASSUME LedInv, [K!StoreNext \/ K!MarkNext]_kVars PROVE LedInv'
  OBVIOUS
<1>1. CASE UNCHANGED led
  BY <1>1 DEF LedInv, K!FellBelow
<1>2. CASE K!append_reading
  <2>1. led' = Append(led, K!Graded(ins, K!posture(ins, led)))
    BY <1>2 DEF K!append_reading
  <2> QED
    BY <2>1, LedGrows
<1>3. CASE K!TornAppend
  <2>1. led' = Append(led, K!Graded(ins, "LOST"))
    BY <1>3 DEF K!TornAppend
  <2> QED
    BY <2>1, LedGrows
<1>4. CASE K!MarkNext
  BY <1>1, <1>4 DEF K!MarkNext, K!read_watermark, K!TakeLock, K!advance_watermark
<1> QED
  BY <1>1, <1>2, <1>3, <1>4 DEF K!StoreNext, K!Declare, K!PostgresUpsert, K!Fault, K!upsert,
     K!Restart, K!Measure, K!SetEnv, K!EditTaxonomy, kVars

LEMMA LedImplies == LedInv => K!CoverageRatchet
<1> SUFFICES ASSUME LedInv,
                    NEW i \in 1 .. Len(led), led[i].verdict \in {"COVERED", "ATTENTION"},
                    NEW j \in 1 .. (i - 1)
             PROVE  LET h == led[j] IN
                      /\ h.verdict # "LOST"
                      /\ h.verdict # "DEGRADED" => /\ h.measured \subseteq led[i].measured
                                                   /\ ~K!FellBelow(led[i], h)
  BY DEF K!CoverageRatchet
<1>1. Len(led) \in Nat /\ DOMAIN led = 1 .. Len(led)
  BY Appended DEF LedInv
<1>2. i \in DOMAIN led /\ j \in DOMAIN led /\ j < i
  BY <1>1
<1> QED
  BY <1>2 DEF LedInv, Sound
----------------------------------------------------------------------------
(* The estate.                                                             *)

Files == E!ToSet(E!FILES)

\* A manifest the operator may put there; what its assumption says of a row.
Fit(f, m) ==
  /\ m \in E!Manifest
  /\ \A i \in DOMAIN m.rows :
       m.rows[i].shape = "ok" =>
         /\ m.rows[i].id # 0 /\ m.rows[i].probe # "unprobeable"
         /\ f \in {"ASSETS", "GRANTS"} => m.rows[i].ref # 0

\* What was read of file f without a problem: rows, the rows read, the
\* warnings w given and the grants a applied, by the operator root own.
ReadWhole(own, f, read, rs, w, a) ==
  /\ DOMAIN rs = 1 .. read
  /\ \A i, j \in DOMAIN rs : rs[i].id = rs[j].id => i = j
  /\ f = "ESTATE-MAP" => rs \in Seq(E!Row)
  /\ f \in {"ASSETS", "GRANTS"} => \A i \in DOMAIN rs : rs[i].ref # 0
  /\ f = "DEPENDENCIES" =>
       \A i \in DOMAIN rs :
         rs[i].probe = "given" \/ <<"DEPENDENCY-UNPROBEABLE", rs[i].id>> \in w
  /\ f = "GRANTS" =>
       \A i \in DOMAIN rs : IF i \in a THEN rs[i].by = own /\ rs[i].by # NoRoot
                            ELSE <<"GRANT", rs[i].id>> \in w

AllWhole(own, loaded, w, a) ==
  \A f \in DOMAIN loaded : ReadWhole(own, f, loaded[f].read, loaded[f].rows, w, a)

\* Until it meets a problem the loader has every manifest up to where it
\* stands, each of them whole; an estate it returned has all of them.
LoaderInv ==
  /\ DOMAIN disk = Files /\ \A f \in Files : Fit(f, disk[f])
  /\ loader = [pc |-> loader.pc, loaded |-> loader.loaded, problems |-> loader.problems,
               warnings |-> loader.warnings, applied |-> loader.applied,
               ignored |-> loader.ignored]
  /\ loader.pc \in 0 .. 7
  /\ loader.problems = {} =>
       /\ DOMAIN loader.loaded = {E!FILES[k] : k \in 1 .. (loader.pc - 1)}
       /\ AllWhole(root, loader.loaded, loader.warnings, loader.applied)
  /\ estate # <<>> =>
       /\ DOMAIN estate.loaded = Files
       /\ AllWhole(root, estate.loaded, estate.warnings, estate.applied)
       /\ \A f \in {"ASSETS", "GRANTS"} : \A r \in E!ToSet(estate.loaded[f].rows) :
            \E e \in E!ToSet(estate.loaded["ESTATE-MAP"].rows) : e.id = r.ref

\* The classifier answers with the map it loaded.
MapInv ==
  /\ estateMap # <<>> => estateMap.entries \in Seq(E!Row)
  /\ verdict # <<>> =>
       /\ estateMap # <<>>
       /\ verdict.explicit.by = "none" =>
            verdict.says = E!classify_text(estateMap.entries, verdict.text)

LEMMA FilesAre ==
  /\ DOMAIN E!FILES = 1 .. 6 /\ Len(E!FILES) = 6
  /\ Files = {E!FILES[k] : k \in 1 .. 6}
BY DEF Files, E!FILES, E!ToSet

LEMMA ShippedFit == \A f \in Files : \A m \in Contents[f] \cup {Shipped[f]} : Fit(f, m)
BY NodeAssumption DEF E!EstateAssumption, Fit, Files

\* A manifest in which no check found anything.
LEMMA NoProblemIsWhole ==
    ASSUME NEW f \in Files, NEW m, Fit(f, m), NEW rs, NEW w, NEW a,
           rs = IF f = "DEPENDENCIES" THEN E!Materialised(m.rows) ELSE m.rows,
           \A i \in DOMAIN m.rows : E!EntryProblems(f, m.rows[i]) = {},
           E!DuplicateIds(f, m.rows) = {},
           f = "DEPENDENCIES" => /\ E!Unreasoned(m.rows) = {}
                                 /\ E!UnprobeableWarnings(m.rows) \subseteq w,
           f = "GRANTS" => /\ a = E!Applied(m.rows)
                           /\ {<<"GRANT", m.rows[i].id>> : i \in DOMAIN m.rows \ a} \subseteq w
    PROVE  ReadWhole(root, f, Len(m.rows), rs, w, a)
<1> DEFINE rr == m.rows
<1>1. rr \in Seq(E!Row)
  BY DEF Fit, E!Manifest
<1>2. Len(rr) \in Nat /\ DOMAIN rr = 1 .. Len(rr) /\ \A i \in DOMAIN rr : rr[i] \in E!Row
  BY <1>1
<1>3. ASSUME NEW i \in DOMAIN rr
      PROVE  rr[i].shape = "ok" /\ rr[i].probe # "absent"
  <2>1. E!EntryProblems(f, rr[i]) = {}
    OBVIOUS
  <2>2. /\ rr[i].shape # "not-a-mapping" /\ rr[i].shape # "field-missing"
        /\ rr[i].shape # "field-null" /\ rr[i].shape # "undeclared-word"
        /\ rr[i].probe # "absent"
    BY <2>1 DEF E!EntryProblems
  <2>3. rr[i].shape \in {"ok", "not-a-mapping", "field-missing", "field-null", "undeclared-word"}
    BY <1>2 DEF E!Row
  <2> QED
    BY <2>2, <2>3
<1>4. \A i \in DOMAIN rr : /\ rr[i].id # 0 /\ rr[i].probe # "unprobeable"
                           /\ f \in {"ASSETS", "GRANTS"} => rr[i].ref # 0
  BY <1>3 DEF Fit
<1>5. \A i, j \in DOMAIN rr : rr[i].id = rr[j].id => i = j
  BY <1>4 DEF E!DuplicateIds
<1>6. CASE f # "DEPENDENCIES"
  <2>1. rs = rr
    BY <1>6
  <2>2. f = "GRANTS" =>
          \A i \in DOMAIN rr : IF i \in a THEN rr[i].by = root /\ rr[i].by # NoRoot
                               ELSE <<"GRANT", rr[i].id>> \in w
    BY DEF E!Applied
  <2> HIDE DEF rr
  <2> QED
    BY <1>1, <1>2, <1>4, <1>5, <1>6, <2>1, <2>2 DEF ReadWhole, rr
<1>7. CASE f = "DEPENDENCIES"
  <2>1. \A i \in DOMAIN rr : rr[i].probe \in {"given", "null-with-reason"}
    <3> TAKE i \in DOMAIN rr
    <3>1. rr[i].probe # "null"
      BY <1>7 DEF E!Unreasoned
    <3>2. rr[i].probe \in {"given", "absent", "null", "null-with-reason", "unprobeable"}
      BY <1>2 DEF E!Row
    <3> QED
      BY <1>3, <1>4, <3>1, <3>2
  <2>2. \A i \in DOMAIN rr : E!Kept(rr[i])
    BY <1>3 DEF E!Kept
  <2>3. /\ DOMAIN rs = DOMAIN rr
        /\ \A i \in DOMAIN rr : rs[i] = IF rr[i].probe = "null-with-reason"
                                        THEN [rr[i] EXCEPT !.probe = "unprobeable"] ELSE rr[i]
    BY <1>7, <2>2 DEF E!Materialised
  <2>4. ASSUME NEW i \in DOMAIN rr
        PROVE  /\ rs[i].id = rr[i].id
               /\ rs[i].probe = "given" \/ <<"DEPENDENCY-UNPROBEABLE", rs[i].id>> \in w
    <3>1. CASE rr[i].probe = "given"
      BY <2>3, <3>1
    <3>2. CASE rr[i].probe = "null-with-reason"
      <4>1. rs[i] = [rr[i] EXCEPT !.probe = "unprobeable"]
        BY <2>3, <3>2
      <4>2. rs[i].id = rr[i].id
        BY <1>2, <4>1 DEF E!Row
      <4>3. <<"DEPENDENCY-UNPROBEABLE", rr[i].id>> \in w
        BY <1>7, <3>2 DEF E!UnprobeableWarnings
      <4> QED
        BY <4>2, <4>3
    <3> QED
      BY <2>1, <3>1, <3>2
  <2> QED
    BY <1>2, <1>5, <1>7, <2>3, <2>4 DEF ReadWhole
<1> QED
  BY <1>6, <1>7

\* Warnings only add up.
LEMMA MoreWarnings ==
    ASSUME NEW f, NEW read, NEW rs, NEW w, NEW a, NEW v, w \subseteq v,
           ReadWhole(root, f, read, rs, w, a)
    PROVE  ReadWhole(root, f, read, rs, v, a)
BY DEF ReadWhole

LEMMA LoaderInit == E!EstateInit => LoaderInv
<1> SUFFICES ASSUME E!EstateInit PROVE LoaderInv
  OBVIOUS
<1>1. disk = Shipped /\ estate = <<>> /\ loader = E!IdleLoader
  BY DEF E!EstateInit, E!None
<1>2. DOMAIN disk = Files /\ \A f \in Files : Fit(f, disk[f])
  BY <1>1, ShippedFit, NodeAssumption DEF E!EstateAssumption, Files
<1>3. /\ loader = [pc |-> loader.pc, loaded |-> loader.loaded, problems |-> loader.problems,
                   warnings |-> loader.warnings, applied |-> loader.applied,
                   ignored |-> loader.ignored]
      /\ loader.pc = 0 /\ loader.loaded = <<>>
  BY <1>1 DEF E!IdleLoader
<1>4. DOMAIN loader.loaded = {} /\ {E!FILES[k] : k \in 1 .. (loader.pc - 1)} = {}
  BY <1>3
<1>5. AllWhole(root, loader.loaded, loader.warnings, loader.applied)
  BY <1>4 DEF AllWhole
<1> QED
  BY <1>1, <1>2, <1>3, <1>4, <1>5 DEF LoaderInv

\* The loader's next file, with a problem or without one.
LEMMA ReadKeeps == LoaderInv /\ E!ReadManifest => LoaderInv'
<1> SUFFICES ASSUME LoaderInv, E!ReadManifest PROVE LoaderInv'
  OBVIOUS
<1> DEFINE f    == E!FILES[loader.pc]
           m    == disk[f]
           rs   == m.rows
           kept == IF f = "DEPENDENCIES" THEN E!Materialised(rs) ELSE rs
           new  == [g \in DOMAIN loader.loaded \cup {f} |->
                      IF g = f THEN [read |-> Len(rs), rows |-> kept] ELSE loader.loaded[g]]
           entries == UNION {E!EntryProblems(f, rs[i]) : i \in DOMAIN rs}
           twice == E!DuplicateIds(f, rs)
           kinds == IF f = "CAPABILITIES" THEN E!KindProblems(m) ELSE {}
           unreasoned == IF f = "DEPENDENCIES" THEN E!Unreasoned(rs) ELSE {}
           warned == loader.warnings
                      \cup (IF f = "DEPENDENCIES" THEN E!UnprobeableWarnings(rs) ELSE {})
                      \cup (IF f = "GRANTS"
                            THEN {<<"GRANT", rs[i].id>> : i \in DOMAIN rs \ E!Applied(rs)}
                            ELSE {})
           granted == IF f = "GRANTS" THEN E!Applied(rs) ELSE loader.applied
           ignored == IF f = "GRANTS" THEN DOMAIN rs \ E!Applied(rs) ELSE loader.ignored
           bad == loader.problems \cup {<<f, m.header, 0>>}
           all == loader.problems \cup entries \cup twice \cup kinds \cup unreasoned
<1>1. /\ loader.pc \in 1 .. 6 /\ UNCHANGED <<root, disk, estate>>
  BY FilesAre DEF E!ReadManifest
<1>2. loader' = IF ~E!Readable(m)
                   THEN [loader EXCEPT !.pc = loader.pc + 1, !.problems = bad]
                   ELSE [loader EXCEPT !.pc = loader.pc + 1, !.loaded = new, !.problems = all,
                                       !.warnings = warned, !.applied = granted,
                                       !.ignored = ignored]
  BY DEF E!ReadManifest
<1>3. f \in Files /\ Fit(f, m)
  BY <1>1, FilesAre DEF LoaderInv
<1> HIDE DEF f, m, rs, kept, new, entries, twice, kinds, unreasoned, warned, granted, ignored, bad, all
<1>4. loader = [pc |-> loader.pc, loaded |-> loader.loaded, problems |-> loader.problems,
                warnings |-> loader.warnings, applied |-> loader.applied,
                ignored |-> loader.ignored]
  BY DEF LoaderInv
<1>5. \A g \in Files : Fit(g, disk'[g])
  BY <1>1 DEF LoaderInv
<1>6. /\ estate # <<>> =>
         /\ DOMAIN estate.loaded = Files
         /\ AllWhole(root', estate.loaded, estate.warnings, estate.applied)
         /\ \A g \in {"ASSETS", "GRANTS"} : \A r \in E!ToSet(estate.loaded[g].rows) :
              \E e \in E!ToSet(estate.loaded["ESTATE-MAP"].rows) : e.id = r.ref
  BY <1>1 DEF LoaderInv
<1>7. CASE ~E!Readable(m)
  <2>1. loader' = [loader EXCEPT !.pc = loader.pc + 1, !.problems = bad]
    BY <1>2, <1>7
  <2>2. /\ loader' = [pc |-> loader'.pc, loaded |-> loader'.loaded,
                      problems |-> loader'.problems, warnings |-> loader'.warnings,
                      applied |-> loader'.applied, ignored |-> loader'.ignored]
        /\ loader'.pc = loader.pc + 1 /\ loader'.problems = bad
    BY <1>4, <2>1
  <2>3. bad # {}
    BY DEF bad
  <2> QED
    BY <1>1, <1>5, <1>6, <2>2, <2>3 DEF LoaderInv
<1>8. CASE E!Readable(m)
  <2>1. loader' = [loader EXCEPT !.pc = loader.pc + 1, !.loaded = new, !.problems = all,
                                 !.warnings = warned, !.applied = granted, !.ignored = ignored]
    BY <1>2, <1>8
  <2>2. /\ loader' = [pc |-> loader'.pc, loaded |-> loader'.loaded,
                      problems |-> loader'.problems, warnings |-> loader'.warnings,
                      applied |-> loader'.applied, ignored |-> loader'.ignored]
        /\ loader'.pc = loader.pc + 1 /\ loader'.problems = all /\ loader'.loaded = new
        /\ loader'.warnings = warned /\ loader'.applied = granted
    BY <1>4, <2>1
  <2>3. ASSUME all = {}
        PROVE  /\ DOMAIN new = {E!FILES[k] : k \in 1 .. loader.pc}
               /\ AllWhole(root, new, warned, granted)
    <3>1. /\ loader.problems = {}
          /\ DOMAIN loader.loaded = {E!FILES[k] : k \in 1 .. (loader.pc - 1)}
          /\ AllWhole(root, loader.loaded, loader.warnings, loader.applied)
      BY <2>3 DEF LoaderInv, all
    <3>2. DOMAIN new = {E!FILES[k] : k \in 1 .. loader.pc}
      BY <1>1, <3>1 DEF new, f
    <3>3. ReadWhole(root, f, Len(rs), kept, warned, granted)
      <4>1. entries = {} /\ twice = {} /\ unreasoned = {}
        BY <2>3 DEF all
      <4>2. \A i \in DOMAIN rs : E!EntryProblems(f, rs[i]) = {}
        BY <4>1 DEF entries
      <4>3. /\ E!DuplicateIds(f, rs) = {}
            /\ f = "DEPENDENCIES" => E!Unreasoned(rs) = {}
        BY <4>1 DEF twice, unreasoned
      <4>4. /\ f = "DEPENDENCIES" => E!UnprobeableWarnings(rs) \subseteq warned
            /\ f = "GRANTS" => /\ granted = E!Applied(rs)
                               /\ {<<"GRANT", rs[i].id>> : i \in DOMAIN rs \ granted} \subseteq warned
        BY DEF warned, granted
      <4> QED
        BY <1>3, <4>2, <4>3, <4>4, NoProblemIsWhole DEF kept, rs
    <3>4. ASSUME NEW g \in DOMAIN loader.loaded, g # f
          PROVE  ReadWhole(root, g, loader.loaded[g].read, loader.loaded[g].rows, warned, granted)
      <4>1. ReadWhole(root, g, loader.loaded[g].read, loader.loaded[g].rows, loader.warnings,
                      loader.applied)
        BY <3>1 DEF AllWhole
      <4>2. ReadWhole(root, g, loader.loaded[g].read, loader.loaded[g].rows, warned, loader.applied)
        BY <4>1, MoreWarnings DEF warned
      <4>3. g = "GRANTS" => granted = loader.applied
        BY <3>4 DEF granted
      <4> QED
        BY <4>2, <4>3 DEF ReadWhole
    <3>5. ASSUME NEW g \in DOMAIN new
          PROVE  ReadWhole(root, g, new[g].read, new[g].rows, warned, granted)
      <4>1. CASE g = f
        <5>1. new[g] = [read |-> Len(rs), rows |-> kept]
          BY <4>1 DEF new
        <5> QED
          BY <3>3, <4>1, <5>1
      <4>2. CASE g # f
        BY <3>4, <4>2 DEF new
      <4> QED
        BY <4>1, <4>2
    <3> QED
      BY <3>2, <3>5 DEF AllWhole
  <2>4. loader'.pc - 1 = loader.pc /\ loader'.pc \in 0 .. 7 /\ root' = root
    BY <1>1, <2>2
  <2>5. loader'.problems = {} =>
          /\ DOMAIN loader'.loaded = {E!FILES[k] : k \in 1 .. (loader'.pc - 1)}
          /\ AllWhole(root', loader'.loaded, loader'.warnings, loader'.applied)
    BY <2>2, <2>3, <2>4
  <2> QED
    BY <1>1, <1>5, <1>6, <2>2, <2>4, <2>5 DEF LoaderInv
<1> QED
  BY <1>7, <1>8

\* An estate is returned only when the loader met no problem and no reference
\* of it dangles.
LEMMA FinishKeeps == LoaderInv /\ E!FinishLoad => LoaderInv'
<1> SUFFICES ASSUME LoaderInv, E!FinishLoad PROVE LoaderInv'
  OBVIOUS
<1> DEFINE found == loader.problems \cup E!DanglingReferences
           made == [loaded |-> loader.loaded, applied |-> loader.applied,
                    ignored |-> loader.ignored, warnings |-> loader.warnings]
<1>1. /\ loader.pc = 7 /\ UNCHANGED <<root, disk>>
      /\ estate' = IF found # {} THEN <<>> ELSE made
      /\ loader' = [E!IdleLoader EXCEPT !.problems = found]
  BY FilesAre DEF E!FinishLoad, E!None
<1>2. /\ loader' = [pc |-> loader'.pc, loaded |-> loader'.loaded,
                    problems |-> loader'.problems, warnings |-> loader'.warnings,
                    applied |-> loader'.applied, ignored |-> loader'.ignored]
      /\ loader'.pc = 0 /\ loader'.loaded = <<>>
  <2> HIDE DEF found
  <2> QED
    BY <1>1 DEF E!IdleLoader
<1>3. DOMAIN loader'.loaded = {} /\ {E!FILES[k] : k \in 1 .. (loader'.pc - 1)} = {}
  BY <1>2
<1>4. AllWhole(root', loader'.loaded, loader'.warnings, loader'.applied)
  BY <1>3 DEF AllWhole
<1>5. CASE found # {}
  <2>1. estate' = <<>>
    BY <1>1, <1>5
  <2> QED
    BY <1>1, <1>2, <1>3, <1>4, <2>1 DEF LoaderInv
<1>6. CASE found = {}
  <2>1. /\ loader.problems = {} /\ E!DanglingReferences = {}
        /\ estate' = made
    BY <1>1, <1>6
  <2>2. /\ DOMAIN loader.loaded = {E!FILES[k] : k \in 1 .. (loader.pc - 1)}
        /\ AllWhole(root, loader.loaded, loader.warnings, loader.applied)
    BY <2>1 DEF LoaderInv
  <2>3. DOMAIN loader.loaded = Files
    <3>1. loader.pc - 1 = 6
      BY <1>1
    <3> QED
      BY <2>2, <3>1, FilesAre
  <2>4. {"ESTATE-MAP", "ASSETS", "GRANTS"} \subseteq Files
    BY DEF Files, E!FILES, E!ToSet
  <2>5. ASSUME NEW f \in {"ASSETS", "GRANTS"}, NEW r \in E!ToSet(loader.loaded[f].rows)
        PROVE  \E e \in E!ToSet(loader.loaded["ESTATE-MAP"].rows) : e.id = r.ref
    <3> DEFINE known == {e.id : e \in E!ToSet(loader.loaded["ESTATE-MAP"].rows)} \ {0}
               dangling == {g \in {"ASSETS", "GRANTS"} \cap DOMAIN loader.loaded :
                              \E x \in E!ToSet(loader.loaded[g].rows) :
                                x.ref # 0 /\ x.ref \notin known}
    <3>1. E!DanglingReferences = {<<g, "reference", 0>> : g \in dangling}
      BY <2>3, <2>4 DEF E!DanglingReferences
    <3>2. dangling = {}
      BY <2>1, <3>1
    <3>3. f \in DOMAIN loader.loaded /\ (r.ref = 0 \/ r.ref \in known)
      BY <2>3, <2>4, <3>2
    <3>4. r.ref # 0
      <4>1. ReadWhole(root, f, loader.loaded[f].read, loader.loaded[f].rows, loader.warnings,
                      loader.applied)
        BY <2>2, <3>3 DEF AllWhole
      <4> QED
        BY <4>1 DEF ReadWhole, E!ToSet
    <3> QED
      BY <3>3, <3>4
  <2>6. /\ made.loaded = loader.loaded /\ made.applied = loader.applied
        /\ made.warnings = loader.warnings
    OBVIOUS
  <2> HIDE DEF made
  <2> QED
    BY <1>1, <1>2, <1>3, <1>4, <2>1, <2>2, <2>3, <2>5, <2>6 DEF LoaderInv
<1> QED
  BY <1>5, <1>6

LEMMA LoaderStep == LoaderInv /\ [E!EstateNext]_eVars => LoaderInv'
<1> SUFFICES ASSUME LoaderInv, [E!EstateNext]_eVars PROVE LoaderInv'
  OBVIOUS
<1>1. CASE E!StartLoad
  <2>1. /\ loader' = [E!IdleLoader EXCEPT !.pc = 1]
        /\ UNCHANGED <<root, disk, estate>>
    BY <1>1 DEF E!StartLoad
  <2>2. /\ loader' = [pc |-> loader'.pc, loaded |-> loader'.loaded,
                      problems |-> loader'.problems, warnings |-> loader'.warnings,
                      applied |-> loader'.applied, ignored |-> loader'.ignored]
        /\ loader'.pc = 1 /\ loader'.loaded = <<>>
    BY <2>1 DEF E!IdleLoader
  <2>3. DOMAIN loader'.loaded = {} /\ {E!FILES[k] : k \in 1 .. (loader'.pc - 1)} = {}
    BY <2>2
  <2>4. AllWhole(root', loader'.loaded, loader'.warnings, loader'.applied)
    BY <2>3 DEF AllWhole
  <2> QED
    BY <2>1, <2>2, <2>3, <2>4 DEF LoaderInv
<1>2. CASE E!ReadManifest
  BY <1>2, ReadKeeps
<1>3. CASE E!FinishLoad
  BY <1>3, FinishKeeps
<1>4. ASSUME NEW f \in Files, NEW m \in Contents[f], E!EditManifest(f, m) PROVE LoaderInv'
  <2>1. disk' = [disk EXCEPT ![f] = m] /\ UNCHANGED <<root, loader, estate>>
    BY <1>4 DEF E!EditManifest
  <2>2. Fit(f, m)
    BY ShippedFit
  <2>3. DOMAIN disk' = Files /\ \A g \in Files : Fit(g, disk'[g])
    BY <2>1, <2>2 DEF LoaderInv
  <2> QED
    BY <2>1, <2>3 DEF LoaderInv
<1>5. CASE UNCHANGED <<root, disk, loader, estate>>
  BY <1>5 DEF LoaderInv
<1> QED
  BY <1>1, <1>2, <1>3, <1>4, <1>5 DEF E!EstateNext, E!ClassifierLoads, E!ClassifierReadsFile,
     E!ClassifyItem, eVars, Files

LEMMA MapInit == E!EstateInit => MapInv
BY DEF E!EstateInit, E!None, MapInv

LEMMA MapStep == LoaderInv /\ MapInv /\ [E!EstateNext]_eVars => MapInv'
<1> SUFFICES ASSUME LoaderInv, MapInv, [E!EstateNext]_eVars PROVE MapInv'
  OBVIOUS
<1>0. ASSUME NEW rs \in Seq(E!Row) PROVE E!MapOf(rs).entries \in Seq(E!Row)
  <2>1. <<>> \in Seq(E!Row)
    OBVIOUS
  <2> QED
    BY <2>1 DEF E!MapOf
<1>1. CASE E!ClassifierLoads
  <2>1. /\ estate # <<>> /\ estateMap = <<>> /\ verdict' = verdict
        /\ estateMap' = E!MapOf(estate.loaded["ESTATE-MAP"].rows)
    BY <1>1 DEF E!ClassifierLoads, E!None
  <2>2. estate.loaded["ESTATE-MAP"].rows \in Seq(E!Row)
    <3>1. "ESTATE-MAP" \in Files
      BY DEF Files, E!FILES, E!ToSet
    <3> QED
      BY <2>1, <3>1 DEF LoaderInv, AllWhole, ReadWhole
  <2> QED
    BY <1>0, <2>1, <2>2 DEF MapInv
<1>2. CASE E!ClassifierReadsFile
  <2> DEFINE m == disk["ESTATE-MAP"]
  <2>1. /\ estateMap = <<>> /\ verdict' = verdict
        /\ \/ estateMap' = [error |-> TRUE, entries |-> <<>>]
           \/ estateMap' = E!MapOf(m.rows)
    BY <1>2 DEF E!ClassifierReadsFile, E!None
  <2>2. m.rows \in Seq(E!Row)
    <3>1. "ESTATE-MAP" \in Files
      BY DEF Files, E!FILES, E!ToSet
    <3> QED
      BY <3>1 DEF LoaderInv, Fit, E!Manifest
  <2> DEFINE unread == [error |-> TRUE, entries |-> <<>>]
  <2>3. unread.entries = <<>> /\ <<>> \in Seq(E!Row)
    OBVIOUS
  <2> HIDE DEF unread
  <2>4. estateMap' = unread \/ estateMap' = E!MapOf(m.rows)
    BY <2>1 DEF unread
  <2>5. E!MapOf(m.rows).entries \in Seq(E!Row)
    BY <1>0, <2>2
  <2>6. estateMap'.entries \in Seq(E!Row)
    BY <2>3, <2>4, <2>5
  <2> QED
    BY <2>1, <2>6 DEF MapInv
<1>3. ASSUME NEW explicit, NEW text, E!ClassifyItem(explicit, text) PROVE MapInv'
  <2>1. /\ estateMap # <<>> /\ estateMap' = estateMap
        /\ verdict' = [explicit |-> explicit, text |-> text,
                       says |-> E!classify_item(estateMap.entries, explicit, text)]
    BY <1>3 DEF E!ClassifyItem, E!None
  <2>2. explicit.by = "none" =>
          E!classify_item(estateMap.entries, explicit, text)
            = E!classify_text(estateMap.entries, text)
    BY DEF E!classify_item
  <2>3. /\ verdict'.explicit = explicit /\ verdict'.text = text
        /\ verdict'.says = E!classify_item(estateMap.entries, explicit, text)
    BY <2>1
  <2> QED
    BY <2>1, <2>2, <2>3 DEF MapInv
<1>4. CASE UNCHANGED <<estateMap, verdict>>
  BY <1>4 DEF MapInv
<1> QED
  BY <1>1, <1>2, <1>3, <1>4 DEF E!EstateNext, E!StartLoad, E!ReadManifest, E!FinishLoad,
     E!EditManifest, eVars

\* Of the entries a text hits, classify_text answers with one whose kind no
\* other comes before.
LEMMA TextIsStrictest ==
    ASSUME NEW entries \in Seq(E!Row), NEW text
    PROVE  LET hits == {e \in E!ToSet(entries) : e.keywords \cap text # {}}
               rank(kind) == CHOOSE k \in DOMAIN E!PRECEDENCE : E!PRECEDENCE[k] = kind
               says == E!classify_text(entries, text)
           IN  IF hits = {} THEN says.kind = "unknown"
               ELSE /\ \E e \in hits : e.kind = says.kind /\ e.id = says.id
                    /\ \A e \in hits : rank(says.kind) <= rank(e.kind)
<1> DEFINE hits == {e \in E!ToSet(entries) : e.keywords \cap text # {}}
           rank(kind) == CHOOSE k \in DOMAIN E!PRECEDENCE : E!PRECEDENCE[k] = kind
           says == E!classify_text(entries, text)
           H == E!HitRanks(entries, text)
           first == CHOOSE p \in H : \A q \in H : p[1] < q[1] \/ (p[1] = q[1] /\ p[2] <= q[2])
<1>1. Len(entries) \in Nat /\ DOMAIN entries = 1 .. Len(entries)
  OBVIOUS
<1>2. DOMAIN E!PRECEDENCE = 1 .. 4 /\ Len(E!PRECEDENCE) = 4
  BY DEF E!PRECEDENCE
<1>3. \A k \in 1 .. 4 : rank(E!PRECEDENCE[k]) = k
  BY DEF E!PRECEDENCE
<1>4. \A p : p \in H <=> /\ p \in (1 .. 4) \X (1 .. Len(entries))
                         /\ entries[p[2]].kind = E!PRECEDENCE[p[1]]
                         /\ entries[p[2]].keywords \cap text # {}
  BY <1>2 DEF E!HitRanks
<1>5. \A e : e \in hits <=> \E i \in 1 .. Len(entries) : e = entries[i] /\ e.keywords \cap text # {}
  BY <1>1 DEF E!ToSet
<1>6. ASSUME NEW i \in 1 .. Len(entries), entries[i].keywords \cap text # {}
      PROVE  \E k \in 1 .. 4 : /\ <<k, i>> \in H
                               /\ entries[i].kind = E!PRECEDENCE[k]
  <2>1. entries[i] \in E!Row
    BY <1>1
  <2>2. entries[i].kind \in E!ToSet(E!PRECEDENCE)
    BY <2>1 DEF E!Row
  <2>3. PICK k \in 1 .. 4 : entries[i].kind = E!PRECEDENCE[k]
    BY <1>2, <2>2 DEF E!ToSet
  <2> QED
    BY <1>4, <1>6, <2>3
<1> HIDE DEF H, hits, rank
<1>7. CASE hits = {}
  <2>1. H = {}
    <3> SUFFICES ASSUME NEW p \in H PROVE FALSE
      OBVIOUS
    <3>1. p[2] \in 1 .. Len(entries) /\ entries[p[2]].keywords \cap text # {}
      BY <1>4
    <3> QED
      BY <1>5, <1>7, <3>1
  <2>2. says.kind = "unknown"
    BY <2>1 DEF E!classify_text, H
  <2> QED
    BY <1>7, <2>2 DEF hits, rank
<1>8. CASE hits # {}
  <2>1. H # {}
    BY <1>5, <1>6, <1>8
  <2>2. H \in SUBSET (Nat \X Nat)
    BY <1>1, <1>4
  <2>3. \E p \in H : \A q \in H : p[1] < q[1] \/ (p[1] = q[1] /\ p[2] <= q[2])
    BY <2>1, <2>2, LeastPair
  <2>4. first \in H /\ \A q \in H : first[1] < q[1] \/ (first[1] = q[1] /\ first[2] <= q[2])
    BY <2>3
  <2>5. says = [kind |-> E!PRECEDENCE[first[1]], id |-> entries[first[2]].id]
    BY <2>1 DEF E!classify_text, H
  <2> HIDE DEF first
  <2>6. /\ first[1] \in 1 .. 4 /\ first[2] \in 1 .. Len(entries)
        /\ entries[first[2]].kind = E!PRECEDENCE[first[1]]
        /\ entries[first[2]].keywords \cap text # {}
    BY <1>4, <2>4
  <2>7. \E e \in hits : e.kind = says.kind /\ e.id = says.id
    BY <1>5, <2>5, <2>6
  <2>8. ASSUME NEW e \in hits PROVE rank(says.kind) <= rank(e.kind)
    <3>1. PICK i \in 1 .. Len(entries) : e = entries[i] /\ e.keywords \cap text # {}
      BY <1>5
    <3>2. PICK k \in 1 .. 4 : <<k, i>> \in H /\ e.kind = E!PRECEDENCE[k]
      BY <1>6, <3>1
    <3>3. first[1] <= k
      <4> DEFINE q == <<k, i>>
      <4>1. q[1] = k /\ q \in H
        BY <3>2
      <4> HIDE DEF q
      <4> QED
        BY <2>4, <2>6, <4>1
    <3>4. rank(says.kind) = first[1] /\ rank(e.kind) = k
      BY <1>3, <2>5, <2>6, <3>2
    <3> QED
      BY <3>3, <3>4
  <2> QED
    BY <1>8, <2>7, <2>8 DEF hits, rank
<1> QED
  BY <1>7, <1>8

LEMMA EstateImplies == LoaderInv /\ MapInv => EstateIsSound
<1> SUFFICES ASSUME LoaderInv, MapInv PROVE EstateIsSound
  OBVIOUS
<1>1. /\ Files = E!ToSet(E!FILES)
      /\ {"ESTATE-MAP", "ASSETS", "GRANTS", "DEPENDENCIES"} \subseteq Files
  BY DEF Files, E!FILES, E!ToSet
<1>2. ASSUME estate # <<>>, NEW f \in Files
      PROVE  ReadWhole(root, f, estate.loaded[f].read, estate.loaded[f].rows, estate.warnings,
                       estate.applied)
  BY <1>2 DEF LoaderInv, AllWhole
<1>3. E!EstateIsWhole
  <2> SUFFICES ASSUME estate # <<>> PROVE E!EstateIsWhole
    BY DEF E!EstateIsWhole, E!None
  <2> DEFINE rs(f) == estate.loaded[f].rows
  <2>1. DOMAIN estate.loaded = E!ToSet(E!FILES)
    BY <1>1 DEF LoaderInv
  <2>2. \A f \in E!ToSet(E!FILES) :
          /\ DOMAIN rs(f) = 1 .. estate.loaded[f].read
          /\ \A i, j \in DOMAIN rs(f) : rs(f)[i].id = rs(f)[j].id => i = j
    BY <1>1, <1>2 DEF ReadWhole
  <2>3. \A i \in DOMAIN rs("DEPENDENCIES") :
          \/ rs("DEPENDENCIES")[i].probe = "given"
          \/ <<"DEPENDENCY-UNPROBEABLE", rs("DEPENDENCIES")[i].id>> \in estate.warnings
    BY <1>1, <1>2 DEF ReadWhole
  <2>4. \A f \in {"ASSETS", "GRANTS"} : \A r \in E!ToSet(rs(f)) :
          \E e \in E!ToSet(rs("ESTATE-MAP")) : e.id = r.ref
    BY DEF LoaderInv
  <2> QED
    BY <2>1, <2>2, <2>3, <2>4 DEF E!EstateIsWhole
<1>4. E!GrantsAreTheOperators
  BY <1>1, <1>2 DEF E!GrantsAreTheOperators, E!None, ReadWhole
<1>5. E!StrictestEstateWins
  <2> SUFFICES ASSUME verdict # <<>>, verdict.explicit.by = "none" PROVE E!StrictestEstateWins
    BY DEF E!StrictestEstateWins, E!None
  <2>1. /\ estateMap.entries \in Seq(E!Row)
        /\ verdict.says = E!classify_text(estateMap.entries, verdict.text)
    BY DEF MapInv
  <2> QED
    BY <2>1, TextIsStrictest DEF E!StrictestEstateWins
<1> QED
  BY <1>3, <1>4, <1>5 DEF EstateIsSound
----------------------------------------------------------------------------
(* The saddle.                                                             *)

ServerFields ==
  server = [up |-> server.up, halted |-> server.halted, known |-> server.known,
            row |-> server.row, initialized |-> server.initialized,
            name |-> server.name, repo |-> server.repo]
CallerFields == caller = [phase |-> caller.phase, id |-> caller.id, op |-> caller.op]

\* What the reference client asks, as it lies in the pipe.
Asks(m) == /\ m.id = caller.id /\ m.op = caller.op
           /\ m.method \in {"initialize", "tools/call"}
           /\ m.method = "tools/call" => m.tool = "gate"
           /\ m.method = "initialize" => m.op = NoOp

\* The pipes hold lines, and a server that is down has none to read.
PipeInv == /\ IsSeq(inbox) /\ IsSeq(outbox) /\ ServerFields /\ CallerFields
           /\ ~server.up => inbox = <<>>

\* As long as no request has timed out the client and the server take turns:
\* at most one request is under way, it is the one the client waits for, and a
\* result in the pipe is the answer to it.
TurnsInv ==
  (party = "client" /\ ~late) =>
     /\ server.up => Len(outbox) <= 1
     /\ (server.up /\ (caller.phase # "waiting" \/ inbox # <<>>)) => outbox = <<>>
     /\ inbox # <<>> => caller.phase = "waiting" /\ Len(inbox) = 1 /\ Asks(inbox[1])
     /\ \A i \in DOMAIN outbox :
          outbox[i].kind = "result" =>
             /\ i = 1 /\ caller.phase = "waiting"
             /\ outbox[i].id = caller.id /\ outbox[i].op = caller.op
             /\ outbox[i].decision = "ALLOW" => outbox[i].tool = "gate"

SaddleInv == PipeInv /\ TurnsInv /\ VerdictOnRecord /\ PerformedInSync

\* What the server may write in answer to m.
Fitting(m, f) ==
  /\ f.kind \in {"result", "toolerror"} =>
       /\ ~server.halted /\ m.token = node.record /\ node.record # 0
       /\ server'.name \in server.row /\ server'.initialized
  /\ f.kind = "result" =>
       /\ f.id = m.id
       /\ f.tool = "gate" => \E r \in ledger' : /\ r.kind = "gate" /\ r.id = f.id
                                                /\ r.op = f.op /\ r.what = f.decision
       /\ m.method = "tools/call" => f.tool = m.tool /\ f.op = m.op
       /\ m.method = "initialize" => f.op = NoOp /\ f.decision = "none"

\* One line or none goes out, and with a line that is no error of the ledger's
\* goes the row.
LEMMA Sends ==
    ASSUME NEW m, NEW rs, NEW f, NEW frames, IsSeq(outbox),
           frames = <<>> \/ frames = <<f>>, Recorded(m, rs, frames)
    PROVE  /\ ledger \subseteq ledger'
           /\ \/ outbox' = outbox
              \/ outbox' = Append(outbox, Error(m.id, "ledger"))
              \/ outbox' = Append(outbox, f) /\ ledger' = ledger \cup rs
<1>1. outbox \o <<>> = outbox /\ outbox \o <<f>> = Append(outbox, f)
  <2>1. PICK S : outbox \in Seq(S)
    BY DEF IsSeq
  <2> DEFINE T == S \cup {f}
  <2>2. outbox \in Seq(T) /\ f \in T
    BY <2>1
  <2> QED
    BY <2>2
<1> QED
  BY <1>1 DEF Recorded

LEMMA ErrorFits == \A m, id, code : Fitting(m, Error(id, code))
BY DEF Fitting, Error

\* A request got past the checks: it carried the token, and the server is not
\* stood down.
LEMMA AdmittedIs ==
    ASSUME NEW m, Refusal(m) = "admitted"
    PROVE  ~server.halted /\ m.token = node.record /\ node.record # 0
BY DEF Refusal, AuthUnavailable, verify

LEMMA Handled ==
    ASSUME PipeInv, Handle
    PROVE  /\ server.up /\ inbox # <<>> /\ inbox' = Tail(inbox)
           /\ UNCHANGED <<party, node, caller, performed, late>>
           /\ ledger \subseteq ledger' /\ ServerFields' /\ server'.up = server.up
           /\ \/ outbox' = outbox
              \/ \E f : outbox' = Append(outbox, f) /\ Fitting(Head(inbox), f)
<1> DEFINE m == Head(inbox)
           Out == /\ ledger \subseteq ledger'
                  /\ outbox' = outbox \/ \E f : outbox' = Append(outbox, f) /\ Fitting(m, f)
<1> HIDE DEF m
<1>0. /\ server.up /\ inbox # <<>> /\ inbox' = Tail(inbox)
      /\ UNCHANGED <<party, node, caller, performed, late>>
  BY DEF Handle
<1>1. ASSUME NEW rs, NEW f, NEW frames, frames = <<>> \/ frames = <<f>>,
             Recorded(m, rs, frames), ledger' = ledger \cup rs => Fitting(m, f)
      PROVE  Out
  BY <1>1, Sends, ErrorFits DEF PipeInv
<1>2. ASSUME NEW id, NEW code, NEW rs, Recorded(m, rs, <<Error(id, code)>>) PROVE Out
  BY <1>1, <1>2, ErrorFits
<1>3. CASE m.method = "garbage" /\ Recorded(m, {}, <<Error(0, "parse-error")>>)
           /\ UNCHANGED server
  BY <1>0, <1>2, <1>3 DEF m, PipeInv, ServerFields
<1>4. CASE Refuse(m)
  <2>1. server' = server /\ \E rs : Recorded(m, rs, IF ~m.object THEN <<Error(0, Refusal(m))>>
                                                    ELSE Quietly(m, Refusal(m)))
    BY <1>4 DEF Refuse
  <2>2. PICK rs : Recorded(m, rs, IF ~m.object THEN <<Error(0, Refusal(m))>>
                                  ELSE Quietly(m, Refusal(m)))
    BY <2>1
  <2>3. CASE ~m.object
    BY <1>0, <1>2, <2>1, <2>2, <2>3 DEF m, PipeInv, ServerFields
  <2>4. CASE m.object /\ m.id = 0
    <3> DEFINE f == Error(0, "none")
    <3>1. Recorded(m, rs, <<>>)
      BY <2>2, <2>4 DEF Quietly
    <3> QED
      BY <1>0, <1>1, <2>1, <3>1, ErrorFits DEF m, PipeInv, ServerFields
  <2>5. CASE m.object /\ m.id # 0
    <3>1. Recorded(m, rs, <<Error(m.id, Refusal(m))>>)
      BY <2>2, <2>5 DEF Quietly
    <3> QED
      BY <1>0, <1>2, <2>1, <3>1 DEF m, PipeInv, ServerFields
  <2> QED
    BY <2>3, <2>4, <2>5
<1>5. CASE HandleInitialize(m)
  <2>1. /\ ~server.halted /\ m.token = node.record /\ node.record # 0
        /\ m.method = "initialize"
    BY <1>5, AdmittedIs DEF HandleInitialize
  <2>2. CASE permits(server.row, m.name)
    <3> DEFINE open == TRUE
               rs   == {Row("session", m, "initialize")}
               f    == Result(m.id, "initialize", NoOp, "none")
    <3>1. /\ server' = [server EXCEPT !.initialized = open, !.name = m.name]
          /\ Recorded(m, rs, <<f>>)
      BY <1>5, <2>2 DEF HandleInitialize
    <3>2. open
      OBVIOUS
    <3> HIDE DEF open, rs
    <3>3. /\ ServerFields' /\ server'.up = server.up
          /\ server'.name = m.name /\ server'.initialized = open
      BY <3>1 DEF PipeInv, ServerFields
    <3>4. server'.name \in server.row /\ server'.initialized
      BY <2>2, <3>2, <3>3 DEF permits
    <3>5. /\ f.kind = "result" /\ f.id = m.id /\ f.tool = "initialize" /\ f.op = NoOp
          /\ f.decision = "none"
      BY DEF Result
    <3>6. Fitting(m, f)
      <4> HIDE DEF f
      <4> QED
        BY <2>1, <3>4, <3>5 DEF Fitting
    <3>7. Out
      BY <1>1, <3>1, <3>6
    <3> QED
      BY <1>0, <3>3, <3>7 DEF m
  <2>3. CASE ~permits(server.row, m.name)
    <3>1. server' = server /\ Recorded(m, {Row("refusal", m, "allowlist")},
                                       <<Error(m.id, "allowlist")>>)
      BY <1>5, <2>3 DEF HandleInitialize
    <3> QED
      BY <1>0, <1>2, <3>1 DEF m, PipeInv, ServerFields
  <2> QED
    BY <2>2, <2>3
<1>6. CASE HandleNotification(m)
  <2> DEFINE open == server.initialized \/ m.method = "notifications/initialized"
  <2>1. /\ server' = [server EXCEPT !.initialized = open]
        /\ ledger' = ledger /\ outbox' = outbox
    BY <1>6 DEF HandleNotification
  <2> HIDE DEF open
  <2>2. ServerFields' /\ server'.up = server.up
    BY <2>1 DEF PipeInv, ServerFields
  <2> QED
    BY <1>0, <2>1, <2>2
<1>7. CASE HandleStranger(m)
  <2>1. /\ server' = server
        /\ \E rs, code : Recorded(m, rs, <<Error(m.id, code)>>)
    BY <1>7 DEF HandleStranger
  <2> QED
    BY <1>0, <1>2, <2>1 DEF m, PipeInv, ServerFields
<1>8. ASSUME Later(m), PermittedNow(m), server' = server
      PROVE  /\ ~server.halted /\ m.token = node.record /\ node.record # 0
             /\ server'.name \in server.row /\ server'.initialized
  BY <1>8, AdmittedIs DEF Later, PermittedNow, permits
<1>9. CASE HandleSimple(m)
  <2>1. /\ server' = server /\ Later(m) /\ PermittedNow(m)
        /\ m.method \in {"ping", "tools/list", "other"}
    BY <1>9 DEF HandleSimple
  <2>2. CASE m.method = "other"
    <3>1. Recorded(m, {}, <<Error(m.id, "method-not-found")>>)
      BY <1>9, <2>2 DEF HandleSimple
    <3> QED
      BY <1>0, <1>2, <2>1, <3>1 DEF m, PipeInv, ServerFields
  <2>3. CASE m.method # "other"
    <3> DEFINE f == Result(m.id, m.method, NoOp, "none")
    <3>1. Recorded(m, {}, <<f>>)
      BY <1>9, <2>3 DEF HandleSimple
    <3>2. f.kind = "result" /\ f.id = m.id /\ f.tool = m.method
      BY DEF Result
    <3> HIDE DEF f
    <3>3. Fitting(m, f)
      BY <1>8, <2>1, <3>2 DEF Fitting
    <3>4. Out
      BY <1>1, <3>1, <3>3
    <3> QED
      BY <1>0, <2>1, <3>4 DEF m, PipeInv, ServerFields
  <2> QED
    BY <2>2, <2>3
<1>10. CASE HandleToolsCall(m)
  <2>1. /\ server' = server /\ Later(m) /\ PermittedNow(m) /\ m.method = "tools/call"
    BY <1>10 DEF HandleToolsCall
  <2>2. Out
    <3>1. CASE m.tool = "unnamed"
      <4>1. Recorded(m, {}, <<Error(m.id, "invalid-params")>>)
        BY <1>10, <3>1 DEF HandleToolsCall
      <4> QED
        BY <1>2, <4>1
    <3>2. CASE m.tool # "unnamed"
      <4>1. PICK answer \in Dispatch(m) :
              IF answer = "refused"
              THEN Recorded(m, {Row("tool", m, "REFUSED")}, <<ToolRefusal(m.id)>>)
              ELSE Recorded(m, {Row("tool", m, "OK")}
                                 \cup (IF m.tool = "gate" THEN {Row("gate", m, answer)}
                                                          ELSE {}),
                            <<Result(m.id, m.tool, m.op, answer)>>)
        BY <1>10, <3>2 DEF HandleToolsCall
      <4>2. CASE answer = "refused"
        <5> DEFINE f  == ToolRefusal(m.id)
                   rs == {Row("tool", m, "REFUSED")}
        <5>1. f.kind = "toolerror"
          BY DEF ToolRefusal
        <5>2. Recorded(m, rs, <<f>>)
          BY <4>1, <4>2
        <5> HIDE DEF f, rs
        <5>3. Fitting(m, f)
          BY <1>8, <2>1, <5>1 DEF Fitting
        <5> QED
          BY <1>1, <5>2, <5>3
      <4>3. CASE answer # "refused"
        <5> DEFINE f  == Result(m.id, m.tool, m.op, answer)
                   g  == Row("gate", m, answer)
                   rs == {Row("tool", m, "OK")} \cup (IF m.tool = "gate" THEN {g} ELSE {})
        <5>1. /\ f.kind = "result" /\ f.id = m.id /\ f.tool = m.tool /\ f.op = m.op
              /\ f.decision = answer
          BY DEF Result
        <5>2. g.kind = "gate" /\ g.id = m.id /\ g.op = m.op /\ g.what = answer
          BY DEF Row
        <5>3. m.tool = "gate" => g \in rs
          OBVIOUS
        <5>4. Recorded(m, rs, <<f>>)
          BY <4>1, <4>3
        <5> HIDE DEF f, g, rs
        <5>5. ASSUME ledger' = ledger \cup rs PROVE Fitting(m, f)
          BY <1>8, <2>1, <5>1, <5>2, <5>3, <5>5 DEF Fitting
        <5> QED
          BY <1>1, <5>4, <5>5
      <4> QED
        BY <4>2, <4>3
    <3> QED
      BY <3>1, <3>2
  <2> QED
    BY <1>0, <2>1, <2>2 DEF m, PipeInv, ServerFields
<1> QED
  BY <1>3, <1>4, <1>5, <1>6, <1>7, <1>9, <1>10 DEF Handle, m

LEMMA Down == /\ ~DownServer.up
              /\ DownServer = [up |-> DownServer.up, halted |-> DownServer.halted,
                    known |-> DownServer.known, row |-> DownServer.row,
                    initialized |-> DownServer.initialized, name |-> DownServer.name,
                    repo |-> DownServer.repo]
<1> DEFINE no == FALSE
           d  == [up |-> no, halted |-> no, known |-> no, row |-> {}, initialized |-> no,
                  name |-> NoName, repo |-> no]
<1>1. ~no /\ DownServer = d
  BY DEF DownServer
<1> HIDE DEF no
<1>2. d.up = no /\ d = [up |-> d.up, halted |-> d.halted, known |-> d.known, row |-> d.row,
                        initialized |-> d.initialized, name |-> d.name, repo |-> d.repo]
  OBVIOUS
<1> QED
  BY <1>1, <1>2

\* A server starts with empty pipes, or does not start and says so.
LEMMA Started ==
    ASSUME StartServer
    PROVE  /\ ~server.up /\ inbox' = <<>> /\ ServerFields'
           /\ \/ ~server'.up /\ outbox' = <<[kind |-> "eof"]>>
              \/ server'.up /\ outbox' = <<>>
<1>1. ~server.up /\ inbox' = <<>>
  BY DEF StartServer
<1>2. CASE node.estate = "unreadable"
  <2>1. server' = DownServer /\ outbox' = <<[kind |-> "eof"]>>
    BY <1>2 DEF StartServer
  <2> QED
    BY <1>1, <2>1, Down DEF ServerFields
<1>3. CASE node.estate # "unreadable"
  <2> DEFINE yes  == TRUE
             no   == FALSE
             read == node.estate = "readable"
             s    == [up |-> yes, halted |-> node.marker, known |-> read,
                      row |-> node.allowed, initialized |-> no, name |-> NoName,
                      repo |-> node.repo]
  <2>1. yes /\ server' = s /\ outbox' = <<>>
    BY <1>3 DEF StartServer
  <2> HIDE DEF yes, no, read
  <2>2. s.up = yes /\ s = [up |-> s.up, halted |-> s.halted, known |-> s.known, row |-> s.row,
                           initialized |-> s.initialized, name |-> s.name, repo |-> s.repo]
    OBVIOUS
  <2> HIDE DEF s
  <2> QED
    BY <1>1, <2>1, <2>2 DEF ServerFields
<1> QED
  BY <1>2, <1>3

\* Lines go in at the end of a pipe and come out at its head.
LEMMA Piped ==
    ASSUME NEW s, IsSeq(s), NEW f
    PROVE  /\ IsSeq(Append(s, f)) /\ Len(Append(s, f)) = Len(s) + 1 /\ Len(s) \in Nat
           /\ DOMAIN s = 1 .. Len(s) /\ DOMAIN Append(s, f) = 1 .. Len(s) + 1
           /\ \A i \in 1 .. Len(s) : Append(s, f)[i] = s[i]
           /\ Append(s, f)[Len(s) + 1] = f
<1>1. PICK S : s \in Seq(S)
  BY DEF IsSeq
<1> DEFINE T == S \cup {f}
<1>2. s \in Seq(T) /\ f \in T
  BY <1>1
<1>3. Append(s, f) \in Seq(T)
  BY <1>2
<1> QED
  BY <1>2, <1>3 DEF IsSeq

LEMMA Taken ==
    ASSUME NEW s, IsSeq(s), s # <<>>
    PROVE  /\ IsSeq(Tail(s)) /\ Head(s) = s[1] /\ 1 \in DOMAIN s /\ Len(s) \in Nat \ {0}
           /\ DOMAIN s = 1 .. Len(s) /\ Len(Tail(s)) = Len(s) - 1
           /\ DOMAIN Tail(s) = 1 .. Len(s) - 1
           /\ \A i \in 1 .. Len(s) - 1 : i + 1 \in DOMAIN s /\ Tail(s)[i] = s[i + 1]
<1>1. PICK S : s \in Seq(S)
  BY DEF IsSeq
<1>2. Tail(s) \in Seq(S)
  BY <1>1
<1> QED
  BY <1>1, <1>2 DEF IsSeq

LEMMA NoLines == IsSeq(<<>>) /\ DOMAIN <<>> = {} /\ Len(<<>>) = 0
<1>1. <<>> \in Seq({})
  OBVIOUS
<1>2. DOMAIN <<>> = {} /\ Len(<<>>) = 0
  OBVIOUS
<1> QED
  BY <1>1, <1>2 DEF IsSeq

LEMMA OneLine == \A f : /\ IsSeq(<<f>>) /\ DOMAIN <<f>> = {1} /\ Len(<<f>>) = 1
                        /\ \A i \in DOMAIN <<f>> : <<f>>[i] = f
<1> TAKE f
<1>1. <<f>> \in Seq({f})
  OBVIOUS
<1>2. DOMAIN <<f>> = {1} /\ Len(<<f>>) = 1 /\ \A i \in DOMAIN <<f>> : <<f>>[i] = f
  OBVIOUS
<1> QED
  BY <1>1, <1>2 DEF IsSeq

LEMMA SaddleInit == McpInit => SaddleInv
<1> SUFFICES ASSUME McpInit PROVE SaddleInv
  OBVIOUS
<1>1. PipeInv
  <2>1. server = DownServer /\ inbox = <<>> /\ outbox = <<>>
        /\ caller = [phase |-> "off", id |-> 0, op |-> NoOp]
    BY DEF McpInit
  <2>2. CallerFields
    BY <2>1 DEF CallerFields
  <2> QED
    BY <2>1, <2>2, NoLines, Down DEF PipeInv, ServerFields
<1>2. inbox = <<>> /\ outbox = <<>> /\ performed = {} /\ Len(<<>>) <= 1
  BY NoLines DEF McpInit
<1>3. TurnsInv
  BY <1>2, NoLines DEF TurnsInv
<1>4. VerdictOnRecord /\ PerformedInSync
  BY <1>2, NoLines DEF VerdictOnRecord, PerformedInSync
<1> QED
  BY <1>1, <1>3, <1>4 DEF SaddleInv

LEMMA PipeStep == PipeInv /\ [McpNext]_mcpVars => PipeInv'
<1> SUFFICES ASSUME PipeInv, [McpNext]_mcpVars PROVE PipeInv'
  OBVIOUS
<1>0. DownServer = server' => ServerFields' /\ ~server'.up
  BY Down DEF ServerFields
<1>1. ASSUME StartServer, caller' = [caller EXCEPT !.phase = "idle"] PROVE PipeInv'
  <2>1. CallerFields'
    BY <1>1 DEF PipeInv, CallerFields
  <2>2. IsSeq(outbox')
    BY <1>1, Started, NoLines, OneLine
  <2> QED
    BY <1>1, <2>1, <2>2, Started, NoLines DEF PipeInv
<1>2. CASE ClientStart
  BY <1>1, <1>2 DEF ClientStart
<1>3. CASE HostStart
  BY <1>1, <1>3 DEF HostStart
<1>4. CASE Handle
  <2>1. /\ inbox # <<>> /\ inbox' = Tail(inbox) /\ caller' = caller
        /\ server.up /\ server'.up = server.up /\ ServerFields'
        /\ outbox' = outbox \/ \E f : outbox' = Append(outbox, f)
    BY <1>4, Handled
  <2>2. IsSeq(inbox')
    BY <2>1, Taken DEF PipeInv
  <2>3. IsSeq(outbox')
    <3>1. CASE outbox' = outbox
      BY <3>1 DEF PipeInv
    <3>2. ASSUME NEW f, outbox' = Append(outbox, f) PROVE IsSeq(outbox')
      BY <3>2, Piped DEF PipeInv
    <3> QED
      BY <2>1, <3>1, <3>2
  <2> QED
    BY <2>1, <2>2, <2>3 DEF PipeInv, CallerFields
<1>5. CASE ServerDies
  <2>1. /\ server' = DownServer /\ inbox' = <<>> /\ caller' = caller
        /\ \E f : outbox' = Append(outbox, f)
    BY <1>5 DEF ServerDies
  <2>2. IsSeq(outbox')
    BY <2>1, Piped DEF PipeInv
  <2> QED
    BY <1>0, <2>1, <2>2, NoLines DEF PipeInv, CallerFields
<1>6. ASSUME NEW method, NEW name, NEW tool, NEW op, Send(method, 1, name, tool, op)
      PROVE  PipeInv'
  <2>1. server' = server /\ outbox' = outbox
    BY <1>6 DEF Send
  <2>2. CASE server.up
    <3>1. /\ \E f : inbox' = Append(inbox, f)
          /\ caller' = [phase |-> "waiting", id |-> caller.id + 1, op |-> op]
      BY <1>6, <2>2 DEF Send
    <3>2. IsSeq(inbox') /\ CallerFields'
      BY <3>1, Piped DEF PipeInv, CallerFields
    <3> QED
      BY <2>1, <2>2, <3>2 DEF PipeInv, ServerFields
  <2>3. CASE ~server.up
    <3>1. inbox' = inbox /\ caller' = [caller EXCEPT !.id = @ + 1]
      BY <1>6, <2>3 DEF Send
    <3>2. CallerFields'
      BY <3>1 DEF PipeInv, CallerFields
    <3> QED
      BY <2>1, <3>1, <3>2 DEF PipeInv, ServerFields
  <2> QED
    BY <2>2, <2>3
<1>7. ASSUME NEW name, ClientInitialize(name) PROVE PipeInv'
  BY <1>6, <1>7 DEF ClientInitialize
<1>8. ASSUME NEW op, ClientAct(op) PROVE PipeInv'
  BY <1>6, <1>8 DEF ClientAct
<1>9. CASE ClientReceive
  <2>1. /\ outbox # <<>> /\ outbox' = Tail(outbox) /\ inbox' = inbox /\ server' = server
        /\ caller' = [caller EXCEPT !.phase = "idle", !.op = NoOp]
    BY <1>9 DEF ClientReceive
  <2>2. IsSeq(outbox') /\ CallerFields'
    BY <2>1, Taken DEF PipeInv, CallerFields
  <2> QED
    BY <2>1, <2>2 DEF PipeInv, ServerFields
<1>10. CASE ClientTimesOut
  <2>1. /\ outbox' = outbox /\ inbox' = inbox /\ server' = server
        /\ caller' = [caller EXCEPT !.phase = "idle", !.op = NoOp]
    BY <1>10 DEF ClientTimesOut
  <2>2. CallerFields'
    BY <2>1 DEF PipeInv, CallerFields
  <2> QED
    BY <2>1, <2>2 DEF PipeInv, ServerFields
<1>11. CASE ClientClose
  <2>1. /\ server' = DownServer /\ inbox' = <<>> /\ outbox' = <<>>
        /\ caller' = [caller EXCEPT !.phase = "closed"]
    BY <1>11 DEF ClientClose
  <2>2. CallerFields'
    BY <2>1 DEF PipeInv, CallerFields
  <2> QED
    BY <1>0, <2>1, <2>2, NoLines DEF PipeInv
<1>12. ASSUME NEW m, NEW asked, HostSends(m, asked) PROVE PipeInv'
  <2>1. /\ server.up /\ server' = server /\ outbox' = <<>> /\ \E f : inbox' = <<f>>
        /\ caller' = [caller EXCEPT !.id = @ + 1]
    BY <1>12 DEF HostSends
  <2>2. CallerFields'
    BY <2>1 DEF PipeInv, CallerFields
  <2> QED
    BY <2>1, <2>2, NoLines, OneLine DEF PipeInv, ServerFields
<1>13. ASSUME NEW change, Edit(change) PROVE PipeInv'
  BY <1>13 DEF Edit, PipeInv, ServerFields, CallerFields
<1>14. CASE UNCHANGED mcpVars
  BY <1>14 DEF mcpVars, PipeInv, ServerFields, CallerFields
<1> QED
  BY <1>2, <1>3, <1>4, <1>5, <1>7, <1>8, <1>9, <1>10, <1>11, <1>12, <1>13, <1>14 DEF McpNext

LEMMA TurnsStep == PipeInv /\ TurnsInv /\ [McpNext]_mcpVars => TurnsInv'
<1> SUFFICES ASSUME PipeInv, TurnsInv, [McpNext]_mcpVars, party' = "client", ~late' PROVE TurnsInv'
  BY DEF TurnsInv
<1>1. party' = party
  BY DEF McpNext, ClientStart, HostStart, Handle, ServerDies, ClientInitialize, ClientAct, Send,
     ClientReceive, ClientTimesOut, ClientClose, HostSends, Edit, mcpVars
<1>2. ~late
  BY DEF McpNext, ClientStart, HostStart, Handle, ServerDies, ClientInitialize, ClientAct, Send,
     ClientReceive, ClientTimesOut, ClientClose, HostSends, Edit, mcpVars
<1>3. /\ server.up => Len(outbox) <= 1
      /\ (server.up /\ (caller.phase # "waiting" \/ inbox # <<>>)) => outbox = <<>>
      /\ inbox # <<>> => caller.phase = "waiting" /\ Len(inbox) = 1 /\ Asks(inbox[1])
      /\ \A i \in DOMAIN outbox :
           outbox[i].kind = "result" =>
              /\ i = 1 /\ caller.phase = "waiting"
              /\ outbox[i].id = caller.id /\ outbox[i].op = caller.op
              /\ outbox[i].decision = "ALLOW" => outbox[i].tool = "gate"
  BY <1>1, <1>2 DEF TurnsInv
<1> DEFINE eof == [kind |-> "eof"]
<1>4. eof.kind # "result"
  OBVIOUS
<1> HIDE DEF eof
<1>5. CASE ClientStart
  <2>1. /\ inbox' = <<>>
        /\ \/ ~server'.up /\ outbox' = <<eof>>
           \/ server'.up /\ outbox' = <<>>
    <3>1. StartServer
      BY <1>5 DEF ClientStart
    <3>2. inbox' = <<>>
      BY <3>1, Started
    <3>3. \/ ~server'.up /\ outbox' = <<[kind |-> "eof"]>>
          \/ server'.up /\ outbox' = <<>>
      BY <3>1, Started
    <3> QED
      BY <3>2, <3>3 DEF eof
  <2>2. \A i \in DOMAIN outbox' : outbox'[i].kind # "result"
    BY <1>4, <2>1, NoLines, OneLine
  <2>3. server'.up => outbox' = <<>> /\ Len(outbox') <= 1
    BY <2>1, NoLines
  <2>4. inbox' = <<>> /\ (server'.up => outbox' = <<>> /\ Len(outbox') <= 1)
    BY <2>1, <2>3
  <2> QED
    BY <2>2, <2>4 DEF TurnsInv
<1>6. CASE Handle
  <2>1. /\ server.up /\ inbox # <<>> /\ inbox' = Tail(inbox) /\ caller' = caller
        /\ outbox' = outbox \/ \E f : outbox' = Append(outbox, f) /\ Fitting(Head(inbox), f)
    BY <1>6, Handled
  <2>2. /\ outbox = <<>> /\ caller.phase = "waiting" /\ Asks(Head(inbox)) /\ inbox' = <<>>
    <3>1. outbox = <<>> /\ caller.phase = "waiting" /\ Len(inbox) = 1 /\ Asks(inbox[1])
      BY <1>3, <2>1
    <3>2. Head(inbox) = inbox[1] /\ IsSeq(inbox') /\ Len(inbox') = 0
      BY <2>1, <3>1, Taken DEF PipeInv
    <3>3. inbox' = <<>>
      BY <3>2 DEF IsSeq
    <3> QED
      BY <3>1, <3>2, <3>3
  <2>3. CASE outbox' = outbox
    BY <2>1, <2>2, <2>3, NoLines DEF TurnsInv
  <2>4. ASSUME NEW f, outbox' = Append(outbox, f), Fitting(Head(inbox), f) PROVE TurnsInv'
    <3>1. outbox' = <<f>>
      BY <2>2, <2>4
    <3>2. Len(outbox') = 1 /\ \A i \in DOMAIN outbox' : i = 1 /\ outbox'[i] = f
      BY <3>1, OneLine
    <3>3. f.kind = "result" =>
            /\ f.id = caller.id /\ f.op = caller.op
            /\ f.decision = "ALLOW" => f.tool = "gate"
      BY <1>3, <2>1, <2>2, <2>4 DEF Fitting, Asks
    <3> QED
      BY <2>1, <2>2, <3>2, <3>3 DEF TurnsInv
  <2> QED
    BY <2>1, <2>3, <2>4
<1>7. CASE ServerDies
  <2>1. /\ server' = DownServer /\ inbox' = <<>> /\ caller' = caller
        /\ outbox' = Append(outbox, eof)
    BY <1>7 DEF ServerDies, eof
  <2>2. ~server'.up
    BY <2>1, Down
  <2>3. /\ DOMAIN outbox = 1 .. Len(outbox) /\ DOMAIN outbox' = 1 .. Len(outbox) + 1
        /\ Len(outbox) \in Nat /\ \A i \in 1 .. Len(outbox) : outbox'[i] = outbox[i]
        /\ outbox'[Len(outbox) + 1] = eof
    BY <2>1, Piped DEF PipeInv
  <2>4. ASSUME NEW i \in DOMAIN outbox', outbox'[i].kind = "result"
        PROVE  i \in DOMAIN outbox /\ outbox'[i] = outbox[i]
    <3>1. i # Len(outbox) + 1
      BY <1>4, <2>3, <2>4
    <3>2. i \in 1 .. Len(outbox)
      BY <2>3, <2>4, <3>1
    <3> QED
      BY <2>3, <3>2
  <2> QED
    BY <1>3, <2>1, <2>2, <2>4 DEF TurnsInv
<1>8. ASSUME NEW method, NEW name, NEW tool, NEW op, Send(method, 1, name, tool, op),
             method \in {"initialize", "tools/call"},
             method = "tools/call" => tool = "gate", method = "initialize" => op = NoOp
      PROVE  TurnsInv'
  <2>1. /\ caller.phase = "idle" /\ server' = server /\ outbox' = outbox /\ inbox = <<>>
        /\ \A i \in DOMAIN outbox : outbox[i].kind # "result"
    BY <1>3, <1>8 DEF Send
  <2>2. CASE server.up
    <3> DEFINE m == Message(caller.id + 1, method, 1, name, tool, op)
    <3>1. /\ inbox' = Append(inbox, m)
          /\ caller' = [phase |-> "waiting", id |-> caller.id + 1, op |-> op]
      BY <1>8, <2>2 DEF Send
    <3>2. m.id = caller.id + 1 /\ m.op = op /\ m.method = method /\ m.tool = tool
      BY DEF Message
    <3> HIDE DEF m
    <3>3. caller'.phase = "waiting" /\ caller'.id = caller.id + 1 /\ caller'.op = op
      BY <3>1
    <3>4. inbox' = <<m>>
      BY <2>1, <3>1
    <3>5. Len(inbox') = 1 /\ inbox'[1] = m
      BY <3>4, OneLine
    <3>6. Asks(inbox[1])'
      BY <1>8, <3>2, <3>3, <3>5 DEF Asks
    <3>7. outbox' = <<>> /\ Len(outbox') <= 1
      BY <1>3, <2>1, <2>2, NoLines
    <3> QED
      BY <2>1, <3>3, <3>5, <3>6, <3>7 DEF TurnsInv
  <2>3. CASE ~server.up
    <3>1. inbox' = <<>> /\ ~server'.up
      BY <1>8, <2>1, <2>3 DEF Send
    <3> QED
      BY <2>1, <3>1 DEF TurnsInv
  <2> QED
    BY <2>2, <2>3
<1>9. ASSUME NEW name, ClientInitialize(name) PROVE TurnsInv'
  BY <1>8, <1>9 DEF ClientInitialize
<1>10. ASSUME NEW op, ClientAct(op) PROVE TurnsInv'
  BY <1>8, <1>10 DEF ClientAct
<1>11. CASE ClientReceive
  <2>1. /\ outbox # <<>> /\ outbox' = Tail(outbox) /\ inbox' = inbox /\ server' = server
    BY <1>11 DEF ClientReceive
  <2>2. inbox = <<>>
    BY <1>3, <2>1 DEF PipeInv
  <2>3. /\ Len(outbox) \in Nat \ {0} /\ Len(Tail(outbox)) = Len(outbox) - 1
        /\ DOMAIN Tail(outbox) = 1 .. Len(outbox) - 1 /\ IsSeq(Tail(outbox))
        /\ \A i \in 1 .. Len(outbox) - 1 : i + 1 \in DOMAIN outbox /\ Tail(outbox)[i] = outbox[i + 1]
    BY <2>1, Taken DEF PipeInv
  <2>4. server.up => Len(outbox') = 0 /\ Len(outbox') <= 1
    BY <1>3, <2>1, <2>3
  <2>5. Len(outbox') = 0 => outbox' = <<>>
    BY <2>1, <2>3 DEF IsSeq
  <2>6. \A i \in DOMAIN outbox' : outbox'[i].kind # "result"
    <3> SUFFICES ASSUME NEW i \in DOMAIN outbox' PROVE outbox'[i].kind # "result"
      OBVIOUS
    <3>1. i \in Nat \ {0} /\ i + 1 \in DOMAIN outbox /\ outbox'[i] = outbox[i + 1] /\ i + 1 # 1
      BY <2>1, <2>3
    <3> QED
      BY <1>3, <3>1
  <2> QED
    BY <2>1, <2>2, <2>4, <2>5, <2>6 DEF TurnsInv
<1>12. CASE ClientTimesOut
  <2>1. late' = TRUE
    BY <1>12 DEF ClientTimesOut
  <2> QED
    BY <2>1
<1>13. CASE ClientClose
  BY <1>13, NoLines DEF ClientClose, TurnsInv
<1>14. ASSUME NEW change, Edit(change) PROVE TurnsInv'
  <2>1. UNCHANGED <<server, inbox, outbox, caller>>
    BY <1>14 DEF Edit
  <2> QED
    BY <1>3, <2>1 DEF TurnsInv, Asks
<1>15. CASE UNCHANGED mcpVars
  BY <1>3, <1>15 DEF mcpVars, TurnsInv, Asks
<1> QED
  BY <1>1, <1>5, <1>6, <1>7, <1>9, <1>10, <1>11, <1>12, <1>13, <1>14, <1>15
     DEF McpNext, HostStart, HostSends

\* The row of the ledger that stands behind a gate's answer.
Stated(f, rs) ==
  (f.kind = "result" /\ f.tool = "gate") =>
     \E r \in rs : r.kind = "gate" /\ r.id = f.id /\ r.op = f.op /\ r.what = f.decision

LEMMA VerdictStep == PipeInv /\ VerdictOnRecord /\ [McpNext]_mcpVars => VerdictOnRecord'
<1> SUFFICES ASSUME PipeInv, VerdictOnRecord, [McpNext]_mcpVars
             PROVE  \A i \in DOMAIN outbox' : Stated(outbox'[i], ledger')
  BY DEF VerdictOnRecord, Stated
<1>1. \A i \in DOMAIN outbox : Stated(outbox[i], ledger)
  BY DEF VerdictOnRecord, Stated
<1>2. ASSUME NEW f, ledger \subseteq ledger', Stated(f, ledger) PROVE Stated(f, ledger')
  BY <1>2 DEF Stated
<1>3. ASSUME NEW f, outbox' = Append(outbox, f), ledger \subseteq ledger', Stated(f, ledger')
      PROVE  \A i \in DOMAIN outbox' : Stated(outbox'[i], ledger')
  <2>1. /\ DOMAIN outbox = 1 .. Len(outbox) /\ DOMAIN outbox' = 1 .. Len(outbox) + 1
        /\ Len(outbox) \in Nat /\ \A i \in 1 .. Len(outbox) : outbox'[i] = outbox[i]
        /\ outbox'[Len(outbox) + 1] = f
    BY <1>3, Piped DEF PipeInv
  <2> SUFFICES ASSUME NEW i \in DOMAIN outbox' PROVE Stated(outbox'[i], ledger')
    OBVIOUS
  <2>2. i \in 1 .. Len(outbox) \/ i = Len(outbox) + 1
    BY <2>1
  <2> QED
    BY <1>1, <1>2, <1>3, <2>1, <2>2
<1>4. ASSUME outbox' = <<>> PROVE \A i \in DOMAIN outbox' : Stated(outbox'[i], ledger')
  BY <1>4, NoLines
<1> DEFINE eof == [kind |-> "eof"]
<1>5. Stated(eof, ledger')
  BY DEF Stated
<1> HIDE DEF eof
<1>6. ASSUME StartServer PROVE \A i \in DOMAIN outbox' : Stated(outbox'[i], ledger')
  <2>1. outbox' = <<eof>> \/ outbox' = <<>>
    BY <1>6, Started DEF eof
  <2> QED
    BY <1>4, <1>5, <2>1, OneLine
<1>7. CASE ClientStart \/ HostStart
  BY <1>6, <1>7 DEF ClientStart, HostStart
<1>8. CASE Handle
  <2>1. /\ ledger \subseteq ledger'
        /\ outbox' = outbox \/ \E f : outbox' = Append(outbox, f) /\ Fitting(Head(inbox), f)
    BY <1>8, Handled
  <2>2. ASSUME NEW f, outbox' = Append(outbox, f), Fitting(Head(inbox), f)
        PROVE  \A i \in DOMAIN outbox' : Stated(outbox'[i], ledger')
    <3>1. Stated(f, ledger')
      BY <2>2 DEF Fitting, Stated
    <3> QED
      BY <1>3, <2>1, <2>2, <3>1
  <2>3. CASE outbox' = outbox
    BY <1>1, <1>2, <2>1, <2>3
  <2> QED
    BY <2>1, <2>2, <2>3
<1>9. CASE ServerDies
  <2>1. outbox' = Append(outbox, eof) /\ ledger' = ledger
    BY <1>9 DEF ServerDies, eof
  <2> QED
    BY <1>3, <1>5, <2>1
<1>10. CASE ClientReceive
  <2>1. outbox # <<>> /\ outbox' = Tail(outbox) /\ ledger' = ledger
    BY <1>10 DEF ClientReceive
  <2>2. /\ DOMAIN outbox' = 1 .. Len(outbox) - 1
        /\ \A i \in 1 .. Len(outbox) - 1 : i + 1 \in DOMAIN outbox /\ outbox'[i] = outbox[i + 1]
    BY <2>1, Taken DEF PipeInv
  <2> QED
    BY <1>1, <2>1, <2>2
<1>11. CASE ClientClose \/ \E m \in HostMessages, asked \in BOOLEAN : HostSends(m, asked)
  BY <1>4, <1>11 DEF ClientClose, HostSends
<1>12. CASE outbox' = outbox /\ ledger' = ledger
  BY <1>1, <1>12
<1> QED
  BY <1>7, <1>8, <1>9, <1>10, <1>11, <1>12
     DEF McpNext, ClientInitialize, ClientAct, Send, ClientTimesOut, Edit, mcpVars

LEMMA SyncStep ==
    PipeInv /\ TurnsInv /\ VerdictOnRecord /\ PerformedInSync /\ [McpNext]_mcpVars
      => PerformedInSync'
<1> SUFFICES ASSUME PipeInv, TurnsInv, VerdictOnRecord, PerformedInSync, [McpNext]_mcpVars,
                    ~late'
             PROVE  \A p \in performed' : OwnVerdictAllows(p)'
  BY DEF PerformedInSync
<1>1. ~late
  BY DEF McpNext, ClientStart, HostStart, Handle, ServerDies, ClientInitialize, ClientAct, Send,
     ClientReceive, ClientTimesOut, ClientClose, HostSends, Edit, mcpVars
<1>2. \A p \in performed : OwnVerdictAllows(p)
  BY <1>1 DEF PerformedInSync
<1>3. ASSUME NEW p, ledger \subseteq ledger', OwnVerdictAllows(p) PROVE OwnVerdictAllows(p)'
  BY <1>3 DEF OwnVerdictAllows
<1>4. CASE Handle
  <2>1. performed' = performed /\ ledger \subseteq ledger'
    BY <1>4, Handled
  <2> QED
    BY <1>2, <1>3, <2>1
<1>5. CASE ClientReceive
  <2> DEFINE f == Head(outbox)
             p == [id |-> caller.id, op |-> caller.op]
  <2>1. /\ party = "client" /\ outbox # <<>> /\ ledger' = ledger
        /\ performed' = IF caller.op # NoOp /\ Permitting(f) THEN performed \cup {p}
                                                             ELSE performed
    BY <1>5 DEF ClientReceive
  <2>2. f = outbox[1] /\ 1 \in DOMAIN outbox
    BY <2>1, Taken DEF PipeInv
  <2>3. p.id = caller.id /\ p.op = caller.op
    OBVIOUS
  <2> HIDE DEF f, p
  <2>4. ASSUME Permitting(f) PROVE OwnVerdictAllows(p)
    <3>1. f.kind = "result" /\ f.decision = "ALLOW"
      BY <2>4 DEF Permitting
    <3>2. f.id = caller.id /\ f.op = caller.op /\ f.tool = "gate"
      BY <1>1, <2>1, <2>2, <3>1 DEF TurnsInv
    <3> QED
      BY <2>2, <2>3, <3>1, <3>2 DEF VerdictOnRecord, OwnVerdictAllows
  <2> QED
    BY <1>2, <1>3, <2>1, <2>4
<1>6. CASE performed' = performed /\ ledger' = ledger
  BY <1>2, <1>3, <1>6
<1> QED
  BY <1>4, <1>5, <1>6
     DEF McpNext, ClientStart, HostStart, ServerDies, ClientInitialize, ClientAct, Send,
         ClientTimesOut, ClientClose, HostSends, Edit, mcpVars

LEMMA SaddleStep == SaddleInv /\ [McpNext]_mcpVars => SaddleInv'
BY PipeStep, TurnsStep, VerdictStep, SyncStep DEF SaddleInv

LEMMA ServedStep ==
    PipeInv /\ [McpNext]_mcpVars =>
      [\A i \in DOMAIN outbox' \ DOMAIN outbox :
         LET f == outbox'[i] IN
           (inbox # <<>> /\ inbox' = Tail(inbox) /\ Answers(f, {"result", "toolerror"})) =>
              /\ ~server.halted /\ Head(inbox).token = node.record /\ node.record # 0
              /\ server'.name \in server.row /\ server'.initialized]_mcpVars
<1> SUFFICES ASSUME PipeInv, [McpNext]_mcpVars, NEW i \in DOMAIN outbox' \ DOMAIN outbox,
                    inbox # <<>>, inbox' = Tail(inbox),
                    outbox'[i].kind \in {"result", "toolerror"}
             PROVE  /\ ~server.halted /\ Head(inbox).token = node.record /\ node.record # 0
                    /\ server'.name \in server.row /\ server'.initialized
  BY DEF Answers
<1>1. CASE Handle
  <2>1. outbox' = outbox \/ \E f : outbox' = Append(outbox, f) /\ Fitting(Head(inbox), f)
    BY <1>1, Handled
  <2>2. PICK f : outbox' = Append(outbox, f) /\ Fitting(Head(inbox), f)
    BY <2>1
  <2>3. outbox'[i] = f
    BY <2>2, Piped DEF PipeInv
  <2> QED
    BY <2>2, <2>3 DEF Fitting
<1>2. CASE ServerDies
  <2> DEFINE eof == [kind |-> "eof"]
  <2>1. outbox' = Append(outbox, eof)
    BY <1>2 DEF ServerDies
  <2>2. eof.kind \notin {"result", "toolerror"}
    OBVIOUS
  <2> HIDE DEF eof
  <2>3. outbox'[i] = eof
    BY <2>1, Piped DEF PipeInv
  <2> QED
    BY <2>2, <2>3
<1>3. CASE ClientStart \/ HostStart
  BY <1>3 DEF ClientStart, HostStart, StartServer, PipeInv
<1>4. CASE ClientReceive
  <2>1. DOMAIN outbox' = 1 .. Len(outbox) - 1 /\ DOMAIN outbox = 1 .. Len(outbox)
        /\ Len(outbox) \in Nat
    BY <1>4, Taken DEF ClientReceive, PipeInv
  <2> QED
    BY <2>1
<1>5. CASE outbox' = <<>>
  BY <1>5, NoLines
<1>6. CASE outbox' = outbox
  BY <1>6
<1> QED
  BY <1>1, <1>2, <1>3, <1>4, <1>5, <1>6
     DEF McpNext, ClientInitialize, ClientAct, Send, ClientTimesOut, ClientClose, HostSends,
         Edit, mcpVars

----------------------------------------------------------------------------
(* The node: whichever part a behaviour is about, the others rest.         *)

LEMMA Parts ==
    ASSUME [MCNext]_MCVars
    PROVE  /\ [McpNext]_mcpVars /\ [K!StoreNext \/ K!MarkNext]_kVars
           /\ [E!EstateNext]_eVars /\ [I!InferenceNext]_iVars
BY DEF MCNext, MCVars

LEMMA Starts == MCInit => McpInit /\ K!KnowledgeInit /\ E!EstateInit /\ I!InferenceInit
BY DEF MCInit

\* No gate answer is on the wire without its row in the ledger, and while no
\* request has timed out the client performs an effect only on the gate's ALLOW
\* of that very operation (server.run_stdio, tools.tool_gate,
\* reference_client.act).
THEOREM GateOnRecord == NodeSpec => []PerformedOnRecord
<1>1. MCInit => SaddleInv
  BY Starts, SaddleInit
<1>2. SaddleInv /\ [MCNext]_MCVars => SaddleInv'
  BY Parts, SaddleStep
<1>3. SaddleInv => PerformedOnRecord
  BY DEF SaddleInv, PerformedOnRecord
<1> QED
  BY <1>1, <1>2, <1>3, PTL DEF NodeSpec

\* Nothing but errors goes out to a request that did not carry the token on
\* record, to a client whose introduction the row does not hold, or from a
\* server that started under a stand-down (protocol.handle_message).
THEOREM OnlyAdmitted == NodeSpec => ServedWasAdmitted
<1>1. MCInit => SaddleInv
  BY Starts, SaddleInit
<1>2. SaddleInv /\ [MCNext]_MCVars => SaddleInv'
  BY Parts, SaddleStep
<1>3. SaddleInv /\ [MCNext]_MCVars =>
        [\A i \in DOMAIN outbox' \ DOMAIN outbox :
           LET f == outbox'[i] IN
             (inbox # <<>> /\ inbox' = Tail(inbox) /\ Answers(f, {"result", "toolerror"})) =>
                /\ ~server.halted /\ Head(inbox).token = node.record /\ node.record # 0
                /\ server'.name \in server.row /\ server'.initialized]_mcpVars
  BY Parts, ServedStep DEF SaddleInv
<1> QED
  BY <1>1, <1>2, <1>3, PTL DEF NodeSpec, ServedWasAdmitted

\* A write is opened up neither beyond its claim nor beyond its collection nor
\* beyond the operator's ruling, and no reading of the coverage ledger is clean
\* that saw fewer rows than an earlier one (gating.py, coverage.py).
THEOREM StoreRatchets == NodeSpec => []RatchetsHold
<1>1. MCInit => StoreInv /\ LedInv
  BY Starts, StoreInit, LedInit
<1>2. (StoreInv /\ LedInv) /\ [MCNext]_MCVars => (StoreInv /\ LedInv)'
  BY Parts, StoreStep, LedStep
<1>3. StoreInv /\ LedInv => RatchetsHold
  BY StoreImplies, LedImplies DEF RatchetsHold
<1> QED
  BY <1>1, <1>2, <1>3, PTL DEF NodeSpec

\* However many absorbers overlap, the watermark never goes back (absorber.py).
THEOREM MarkMovesOn == NodeSpec => WatermarkNeverBack
<1>1. MCInit => MarkInv
  BY Starts, MarkInit
<1>2. MarkInv /\ [MCNext]_MCVars => MarkInv'
  BY Parts, MarkStep
<1>3. MarkInv /\ [MCNext]_MCVars => [K!NeverBack]_mark
  BY Parts, MarkStep
<1> QED
  BY <1>1, <1>2, <1>3, PTL DEF NodeSpec, WatermarkNeverBack

\* An estate that loaded holds every row of its files or says which it left
\* out, applies no grant but the operator's, and the classifier answers with the
\* strictest entry it hit, whatever the operator edits while files are read
\* (estate/loader.py, routing's classify.py).
THEOREM EstateHolds == NodeSpec => []EstateIsSound
<1>1. MCInit => LoaderInv /\ MapInv
  BY Starts, LoaderInit, MapInit
<1>2. (LoaderInv /\ MapInv) /\ [MCNext]_MCVars => (LoaderInv /\ MapInv)'
  BY Parts, LoaderStep, MapStep
<1>3. LoaderInv /\ MapInv => EstateIsSound
  BY EstateImplies
<1> QED
  BY <1>1, <1>2, <1>3, PTL DEF NodeSpec

\* No prompt reaches an endpoint outside its pool's fence, and no assignment
\* crosses what its ring allows (inference/, routing/).
THEOREM FencesHold == NodeSpec => []FenceHolds
<1>1. MCInit => PoolInv /\ RouteInv
  BY Starts, PoolInit, RouteInit
<1>2. (PoolInv /\ RouteInv) /\ [MCNext]_MCVars => (PoolInv /\ RouteInv)'
  BY Parts, PoolStep, RouteStep
<1>3. PoolInv /\ RouteInv => FenceHolds
  BY PoolImplies, RouteImplies DEF FenceHolds
<1> QED
  BY <1>1, <1>2, <1>3, PTL DEF NodeSpec
=============================================================================
