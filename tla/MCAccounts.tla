----------------------------- MODULE MCAccounts -----------------------------
(* The instance of Accounts that TLC checks.  Requests are interchangeable;*)
(* accounts are not, since some of them start with root.                   *)
EXTENDS Accounts, TLC

CONSTANTS Ada, Bea, Cyd, r1, r2

MCScopeNames == {"review", "admin", "root"}
MCAccountIds == {Ada, Bea, Cyd}
MCRoots == {Ada}
MCRequestIds == {r1, r2}

Symmetry == Permutations(MCRequestIds) \cup Permutations({Bea, Cyd})
=============================================================================
