---------------------------- MODULE MCJobQueue ------------------------------
(* The queue by itself, every operation in any order, for TLC.             *)
EXTENDS JobQueue, TLC

CONSTANTS k1, b1, w1, c1, c2

MCKeys    == {k1}
MCBodies  == {b1}
MCWorkers == {w1}
MCParts   == {c1, c2}
MCClasses == {INFRASTRUCTURE}

Symmetry == Permutations(MCParts)
=============================================================================
