----------------------------- MODULE MCGateway -----------------------------
\* Instance for TLC: arrivals chosen so that every way in, every refusal and
\* every decision of the gate occurs.
EXTENDS Gateway

CONSTANTS h1, b1, b2

From(tk, h, kind, b, tier, args) ==
    [token |-> tk, harness |-> h, kind |-> kind, backend |-> b, tier |-> tier,
     op |-> [tool |-> "mcp", command |-> {}, args |-> args]]

MCArrivals ==
    {From(1, h1, "backend", b1, "T1", {}),
     From(1, h1, "backend", b1, "T1", {"send_verb"}),
     From(1, h1, "backend", b1, "undeclared", {}),
     From(1, h1, "backend", b2, "T1", {}),
     From(2, h1, "classify", b1, "T1", {}),
     From(1, h1, "malformed", NoBackend, "T0", {}),
     From(1, h1, "initialize", NoBackend, "T0", {}),
     From(1, NoHarness, "initialized", NoBackend, "T0", {}),
     From(1, NoHarness, "builtin", NoBackend, "T0", {}),
     From(0, NoHarness, "ping", NoBackend, "T0", {})}

MCPolicies == {{}, {<<h1, b1>>, <<h1, b2>>}}
=============================================================================
