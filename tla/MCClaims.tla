------------------------------ MODULE MCClaims ------------------------------
(* The instance of Claims that TLC checks: two scrapers, two parts.        *)
EXTENDS Claims, TLC

CONSTANTS Ann, Bob, r1, r2

MCAccountIds == {Ann, Bob}
MCParts == {1, 2}
MCRequestIds == {r1, r2}

Symmetry == Permutations(MCRequestIds) \cup Permutations(MCAccountIds)
=============================================================================
