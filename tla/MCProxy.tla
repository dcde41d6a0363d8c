------------------------------ MODULE MCProxy ------------------------------
(***************************************************************************)
(* Small instances of the proxy's event loop for TLC.                      *)
(***************************************************************************)
EXTENDS ProxyRefinement, TLC

CONSTANTS c1, c2, c3

TwoConns   == {c1, c2}
ThreeConns == {c1, c2, c3}
OneRate    == {1}
TwoRates   == {1, 2}
AllFaults  == FaultKinds
NoFaults   == {}
OnlyCut    == {"cut"}
Stalls     == {"short", "stall"}
Hangups    == {"hangup", "short", "flood"}

Symmetry == Permutations(ThreeConns)
=============================================================================
