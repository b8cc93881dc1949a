------------------------------ MODULE MCRunner ------------------------------
(***************************************************************************)
(* Runner on small instances: two live slots, one or two symbols.          *)
(***************************************************************************)
EXTENDS Runner

CONSTANTS s1, s2

OneSymbol == {s1}
TwoSymbols == {s1, s2}

AllCommands == {"pause", "resume", "flatten", "halt"}
PauseResume == {"pause", "resume"}
HaltResume == {"halt", "resume"}
NoCommands == {}
=============================================================================
