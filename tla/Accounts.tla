------------------------------ MODULE Accounts ------------------------------
(***************************************************************************)
(* Authority over accounts: suspend, restore, grant and revoke of          *)
(* api/routes/review.py, and the suspension a resolved report carries out  *)
(* (Account.suspend).                                                      *)
(*                                                                         *)
(* A request runs in one of several worker processes against one SQLite    *)
(* database.  Its dependencies load the acting account and the target and  *)
(* the handler checks that copy; its writes reach the database at each     *)
(* commit.  So a request is a load, followed by its commits one by one,    *)
(* and other requests' commits fall in between.  A request may end early   *)
(* after any commit: the worker dies, or a later commit fails.             *)
(***************************************************************************)
EXTENDS Scopes, Naturals

CONSTANTS
    AccountIds,     \* rows of the accounts table
    RequestIds,     \* requests the workers can have in flight at once
    InitialRoots,   \* accounts that hold root when the instance starts
    MaxRequests     \* bound: requests served in a behaviour

ASSUME AccountsAssumption ==
    /\ InitialRoots \subseteq AccountIds
    /\ InitialRoots # {}
    /\ MaxRequests \in Nat
    /\ "suspension" \notin ScopeNames   \* a topic of the log, next to the scopes

VARIABLES
    scopes,       \* account -> the scopes linked to it (account_scope_links)
    suspended,    \* account -> is_suspended
    audit,        \* account -> topic -> action of the newest audit_log row
    request,      \* request id -> what the request loaded and where it stands
    served,       \* number of requests started so far
    overlapped,   \* history: two requests have been in flight at once
    aborted       \* history: a request has broken off before its last commit

vars == <<scopes, suspended, audit, request, served, overlapped, aborted>>

Topics == ScopeNames \cup {"suspension"}
AuditActions == {"none", "suspend", "restore", "add_scope", "remove_scope"}
Ops == {"suspend", "restore", "grant", "revoke", "report_suspend"}

Idle == [pc |-> "idle"]

(* actorScopes, targetScopes, targetSuspended: the copy the dependencies   *)
(* loaded, which the handler's checks and the ORM's change detection use.  *)
Requests ==
    [pc : {"loaded", "swept", "logged", "acted"}, op : Ops,
     actor : AccountIds, target : AccountIds, scope : ScopeNames,
     actorScopes : SUBSET ScopeNames, targetScopes : SUBSET ScopeNames,
     targetSuspended : BOOLEAN]

TypeOK ==
    /\ scopes \in [AccountIds -> SUBSET ScopeNames]
    /\ suspended \in [AccountIds -> BOOLEAN]
    /\ audit \in [AccountIds -> [Topics -> AuditActions]]
    /\ request \in [RequestIds -> Requests \cup {Idle}]
    /\ served \in 0..MaxRequests
    /\ overlapped \in BOOLEAN
    /\ aborted \in BOOLEAN

(* ensure_root: the first root has every scope linked.                     *)
Init_scopes(a) == IF a \in InitialRoots THEN ScopeNames ELSE {}

Init ==
    /\ scopes = [a \in AccountIds |-> Init_scopes(a)]
    /\ suspended = [a \in AccountIds |-> FALSE]
    /\ audit = [a \in AccountIds |-> [t \in Topics |-> "none"]]
    /\ request = [r \in RequestIds |-> Idle]
    /\ served = 0
    /\ overlapped = FALSE
    /\ aborted = FALSE

InFlight == {r \in RequestIds : request[r] # Idle}

At(r, op, pc) == request[r] # Idle /\ request[r].op = op /\ request[r].pc = pc

GoTo(r, pc) == request' = [request EXCEPT ![r] = [@ EXCEPT !.pc = pc]]

Finish(r) == request' = [request EXCEPT ![r] = Idle]

Unaudited == UNCHANGED <<audit, served, overlapped, aborted>>
-----------------------------------------------------------------------------
(* RequireAdmin, over require_current_account: a suspended account is      *)
(* refused, then the scope is checked.                                     *)
require_current_active_admin(actor) ==
    /\ ~ suspended[actor]
    /\ has_scope(scopes[actor], "admin")

(* The dependencies load the actor and the target in one go; a request     *)
(* that fails a check changes nothing, so only those that pass start.      *)
Start(r, op, actor, target, scope) ==
    /\ request[r] = Idle
    /\ served < MaxRequests
    /\ request' = [request EXCEPT ![r] =
           [pc |-> "loaded", op |-> op,
            actor |-> actor, target |-> target, scope |-> scope,
            actorScopes |-> scopes[actor], targetScopes |-> scopes[target],
            targetSuspended |-> suspended[target]]]
    /\ served' = served + 1
    /\ overlapped' = (overlapped \/ InFlight # {})
    /\ UNCHANGED <<scopes, suspended, audit, aborted>>

(* RequireAccount finds only accounts that are not suspended.              *)
load_suspend(r, actor, target) ==
    /\ require_current_active_admin(actor)
    /\ ~ suspended[target]
    /\ actor # target
    /\ has_scope(scopes[target], "admin") => has_scope(scopes[actor], "root")
    /\ Start(r, "suspend", actor, target, "review")

(* RequireAnyAccount finds suspended accounts too.                         *)
load_restore(r, actor, target) ==
    /\ require_current_active_admin(actor)
    /\ actor # target
    /\ has_scope(scopes[target], "admin") => has_scope(scopes[actor], "root")
    /\ Start(r, "restore", actor, target, "review")

(* Mutants of may_change_scope: without the rule about one's own root; with*)
(* admins allowed to make and unmake admins.                               *)
may_change_own_root(actor, target, scope) ==
    scope \in {"root", "admin"} => "root" \in scopes[actor]

admin_may_change_admin(actor, target, scope) ==
    scope = "root" => "root" \in scopes[actor] /\ actor # target

(* The rules grant and revoke share: only an account linked to root        *)
(* changes root or admin, and not its own root.                            *)
may_change_scope(actor, target, scope) ==
    /\ scope = "root" => "root" \in scopes[actor] /\ actor # target
    /\ scope = "admin" => "root" \in scopes[actor]

load_change_scope(r, actor, target, scope) ==
    /\ require_current_active_admin(actor)
    /\ ~ suspended[target]
    /\ may_change_scope(actor, target, scope)
    /\ \E op \in {"grant", "revoke"} : Start(r, op, actor, target, scope)

(* resolve_report with a suspension: action_allowed asks for the admin     *)
(* scope and can_suspend.  The reported account may be suspended already.  *)
load_report_suspend(r, actor, target) ==
    /\ ~ suspended[actor]
    /\ can_suspend(actor, scopes[actor], target, scopes[target])
    /\ Start(r, "report_suspend", actor, target, "review")
-----------------------------------------------------------------------------
suspend_account(r) ==
    /\ At(r, "suspend", "loaded")
    /\ suspended' = [suspended EXCEPT ![request[r].target] = TRUE]
    /\ GoTo(r, "acted")
    /\ UNCHANGED scopes /\ Unaudited

(* The ORM writes is_suspended only if it differs from the loaded copy.    *)
restore_account(r) ==
    /\ At(r, "restore", "loaded")
    /\ suspended' = IF request[r].targetSuspended
                    THEN [suspended EXCEPT ![request[r].target] = FALSE]
                    ELSE suspended
    /\ GoTo(r, "acted")
    /\ UNCHANGED scopes /\ Unaudited

(* The link row is inserted unless the loaded copy already has the scope,  *)
(* if only through admin or root; a row that another request inserted      *)
(* since then breaks the unique constraint and the request fails unlogged. *)
grant_account_scope(r) ==
    LET target == request[r].target
        scope == request[r].scope IN
    /\ At(r, "grant", "loaded")
    /\ \/ /\ has_scope(request[r].targetScopes, scope)
          /\ GoTo(r, "acted")
          /\ UNCHANGED scopes
       \/ /\ ~ has_scope(request[r].targetScopes, scope)
          /\ scope \notin scopes[target]
          /\ scopes' = [scopes EXCEPT ![target] = @ \cup {scope}]
          /\ GoTo(r, "acted")
       \/ /\ ~ has_scope(request[r].targetScopes, scope)
          /\ scope \in scopes[target]
          /\ Finish(r)
          /\ UNCHANGED scopes
    /\ UNCHANGED suspended /\ Unaudited

(* The link row of the loaded copy is deleted; if another request deleted  *)
(* it since, the ORM finds no row to delete and the request fails unlogged.*)
revoke_account_scope(r) ==
    LET target == request[r].target
        scope == request[r].scope IN
    /\ At(r, "revoke", "loaded")
    /\ \/ /\ scope \notin request[r].targetScopes
          /\ GoTo(r, "acted")
          /\ UNCHANGED scopes
       \/ /\ scope \in request[r].targetScopes
          /\ scope \in scopes[target]
          /\ scopes' = [scopes EXCEPT ![target] = @ \ {scope}]
          /\ GoTo(r, "acted")
       \/ /\ scope \in request[r].targetScopes
          /\ scope \notin scopes[target]
          /\ Finish(r)
          /\ UNCHANGED scopes
    /\ UNCHANGED suspended /\ Unaudited

(* Mutants of audit_action: the name of the operation instead of that of   *)
(* the moderation action; a grant logged like a revocation.                *)
audit_op(op) == op

audit_action_remove(op) == IF op \in {"grant", "revoke"} THEN "remove_scope" ELSE op

audit_action(op) ==
    CASE op = "grant"  -> "add_scope"
      [] op = "revoke" -> "remove_scope"
      [] OTHER         -> op

(* The handlers of review.py log after they have committed the change.     *)
log_moderation_action(r) ==
    LET req == request[r]
        topic == IF req.op \in {"grant", "revoke"} THEN req.scope ELSE "suspension" IN
    /\ req # Idle
    /\ req.pc = "acted" /\ req.op # "report_suspend"
    /\ audit' = [audit EXCEPT ![req.target][topic] = audit_action(req.op)]
    /\ Finish(r)
    /\ UNCHANGED <<scopes, suspended, served, overlapped, aborted>>
-----------------------------------------------------------------------------
(* A report against an item commits the removal of items first; that       *)
(* commit expires the loaded copies, which are read again when needed.     *)
report_remove_items(r) ==
    /\ At(r, "report_suspend", "loaded")
    /\ GoTo(r, "swept")
    /\ UNCHANGED <<scopes, suspended>> /\ Unaudited

(* Account.suspend checks can_suspend once more, on the loaded copies or,  *)
(* after a commit, on the rows as they are now, and logs before it acts.   *)
(* A refusal ends the request: what it removed stays removed.              *)
log_report_suspend(r) ==
    LET req == request[r]
        allowed == IF req.pc = "loaded"
                   THEN can_suspend(req.actor, req.actorScopes, req.target, req.targetScopes)
                   ELSE can_suspend(req.actor, scopes[req.actor], req.target, scopes[req.target])
    IN
    /\ At(r, "report_suspend", "loaded") \/ At(r, "report_suspend", "swept")
    /\ \/ /\ allowed
          /\ audit' = [audit EXCEPT ![req.target]["suspension"] = "suspend"]
          /\ request' = [request EXCEPT ![r] =
                 [@ EXCEPT !.pc = "logged", !.targetSuspended = suspended[req.target]]]
          /\ UNCHANGED aborted
       \/ /\ ~ allowed
          /\ Finish(r)
          /\ aborted' = TRUE
          /\ UNCHANGED audit
    /\ UNCHANGED <<scopes, suspended, served, overlapped>>

(* Logging reloads the target, so the ORM compares with that newer copy.   *)
report_suspend(r) ==
    /\ At(r, "report_suspend", "logged")
    /\ suspended' = IF request[r].targetSuspended THEN suspended
                    ELSE [suspended EXCEPT ![request[r].target] = TRUE]
    /\ Finish(r)
    /\ UNCHANGED scopes /\ Unaudited

(* The worker dies, or the next commit fails (the database stays locked):  *)
(* the commits already made remain.                                        *)
Abort(r) ==
    /\ request[r] # Idle
    /\ Finish(r)
    /\ aborted' = TRUE
    /\ UNCHANGED <<scopes, suspended, audit, served, overlapped>>
-----------------------------------------------------------------------------
Load(r) ==
    \E actor \in AccountIds, target \in AccountIds :
        \/ load_suspend(r, actor, target)
        \/ load_restore(r, actor, target)
        \/ \E scope \in ScopeNames : load_change_scope(r, actor, target, scope)
        \/ load_report_suspend(r, actor, target)

Commit(r) ==
    \/ suspend_account(r)
    \/ restore_account(r)
    \/ grant_account_scope(r)
    \/ revoke_account_scope(r)
    \/ report_remove_items(r)
    \/ log_report_suspend(r)
    \/ report_suspend(r)

Next ==
    \E r \in RequestIds :
        \/ Load(r)
        \/ Commit(r)
        \/ log_moderation_action(r)
        \/ Abort(r)

Spec == Init /\ [][Next]_vars
-----------------------------------------------------------------------------
is_admin(a) == has_scope(scopes[a], "admin")
is_active_root(a) == "root" \in scopes[a] /\ ~ suspended[a]

(* An instance never loses its last root that can log in, whatever legal   *)
(* requests its admins and roots send one after the other: no rule says so,*)
(* it follows from the rules of suspend, grant, revoke and report          *)
(* resolution together.  Two roots that demote each other in overlapping   *)
(* requests do break it.                                                   *)
SomeActiveRoot == overlapped \/ \E a \in AccountIds : is_active_root(a)

(* Root and admin, and whether an admin or root is suspended, change only  *)
(* by a request of an account that is an active root at that moment.       *)
ByActiveRoot ==
    \A a \in AccountIds :
        \/ /\ \A s \in {"root", "admin"} : s \in scopes'[a] <=> s \in scopes[a]
           /\ is_admin(a) => suspended'[a] = suspended[a]
        \/ \E r \in InFlight : is_active_root(request[r].actor) /\ request'[r] # request[r]

(* "admins are limited from staging a coup" (types.py, Scopes.root): no    *)
(* sequence of legal requests lets accounts below root change who has      *)
(* authority.                                                              *)
NoCoup == [][~ overlapped' => ByActiveRoot]_vars

(* With no request in flight the audit log's newest row on a topic is true *)
(* of the account: the handlers commit the change and the row in separate  *)
(* transactions, in one order in review.py and in the other in             *)
(* Account.suspend, so this needs that no request broke off or overlapped. *)
AuditTellsTruth ==
    (~ overlapped /\ ~ aborted /\ InFlight = {}) =>
        \A a \in AccountIds :
            /\ suspended[a] <=> audit[a]["suspension"] = "suspend"
            /\ \A s \in ScopeNames :
                  /\ audit[a][s] = "remove_scope" => s \notin scopes[a]
                  /\ s \in scopes[a] \ Init_scopes(a) => audit[a][s] = "add_scope"

=============================================================================
