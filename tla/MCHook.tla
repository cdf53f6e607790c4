------------------------------- MODULE MCHook -------------------------------
\* Instance for TLC: five operations chosen so that every tier, every reading
\* and a call the council does not concern all occur.
EXTENDS Hook, TLC

CONSTANTS c1, c2, imprint, config

Op(tool, command, path, words, weakening) ==
    [tool |-> tool, command |-> command, args |-> {}, path |-> path,
     words |-> words, weakening |-> weakening]

MCOps == {Op("shell", {"push", "owner"}, NoPath, {}, FALSE),
          Op("file", {}, imprint, {}, FALSE),
          Op("file", {}, config, {}, TRUE),
          Op("shell", {}, imprint, {"deception"}, FALSE),
          Op("shell", {"recursive_delete"}, config, {"hazard"}, FALSE)}

MCPredicates == {{<<"tool", "file">>}}

Symmetry == Permutations(Calls)
=============================================================================
