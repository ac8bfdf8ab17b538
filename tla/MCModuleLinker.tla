--------------------------- MODULE MCModuleLinker ---------------------------
\* a imports two modules, b one and c none; two calls of instantiate.
EXTENDS ModuleLinker, TLC

CONSTANTS a, b, c, l1, l2

ArityValue == a :> 2 @@ b :> 1 @@ c :> 0
=============================================================================
