------------------------------- MODULE Scopes -------------------------------
(***************************************************************************)
(* The permission scopes of an account and the two rules every handler     *)
(* consults: what a set of scopes allows, and who may suspend whom.        *)
(* Constant-level: Accounts and Moderation extend it.                      *)
(***************************************************************************)
CONSTANT ScopeNames   \* the values of the Scopes enum that occur

ASSUME ScopeNamesAssumption == {"review", "admin", "root"} \subseteq ScopeNames

(* Root accounts have every scope, admins every scope but root; any other  *)
(* account has the scopes linked to it.                                    *)
has_scope(linked, scope) ==
    \/ "root" \in linked
    \/ "admin" \in linked /\ scope # "root"
    \/ scope \in linked

(* The rule the report path uses: nobody suspends themselves, only roots   *)
(* suspend admins, and a root does not suspend a root.                     *)
can_suspend(self, selfScopes, other, otherScopes) ==
    /\ has_scope(selfScopes, "admin")
    /\ self # other
    /\ has_scope(selfScopes, "root") \/ ~ has_scope(otherScopes, "admin")
    /\ ~ (has_scope(selfScopes, "root") /\ has_scope(otherScopes, "root"))
=============================================================================
