--------------------------- MODULE AccountsProofs ---------------------------
(***************************************************************************)
(* Proofs about Accounts, for every set of accounts, of requests, of scope *)
(* names and every bound on the requests served.                           *)
(***************************************************************************)
EXTENDS Accounts, TLAPS

LEMMA InitTypeOK == Init => TypeOK
<1>. SUFFICES ASSUME Init PROVE TypeOK
  OBVIOUS
<1>1. \A a \in AccountIds : Init_scopes(a) \in SUBSET ScopeNames
  BY ScopeNamesAssumption DEF Init_scopes
<1>2. scopes \in [AccountIds -> SUBSET ScopeNames]
  BY <1>1 DEF Init
<1>3. audit \in [AccountIds -> [Topics -> AuditActions]]
  BY DEF Init, AuditActions
<1>4. served \in 0..MaxRequests
  BY AccountsAssumption DEF Init
<1>5. /\ suspended \in [AccountIds -> BOOLEAN]
      /\ request \in [RequestIds -> Requests \cup {Idle}]
  BY DEF Init
<1>. QED  BY <1>2, <1>3, <1>4, <1>5 DEF Init, TypeOK

(* What a load stores is a well-formed request. *)
LEMMA StartTypeOK ==
  ASSUME TypeOK, NEW r \in RequestIds, NEW op \in Ops,
         NEW actor \in AccountIds, NEW target \in AccountIds, NEW scope \in ScopeNames,
         Start(r, op, actor, target, scope)
  PROVE  TypeOK'
<1>1. served' \in 0..MaxRequests
  BY AccountsAssumption DEF Start, TypeOK
<1>2. request'[r] \in Requests
  BY DEF Start, TypeOK, Requests
<1>3. request' \in [RequestIds -> Requests \cup {Idle}]
  BY <1>2 DEF Start, TypeOK
<1>. QED  BY <1>1, <1>3 DEF Start, TypeOK

(* A request that only moves on, or ends, stays well-formed. *)
LEMMA MoveTypeOK ==
  ASSUME TypeOK, NEW r \in RequestIds, request[r] # Idle,
         NEW pc \in {"loaded", "swept", "logged", "acted"},
         GoTo(r, pc) \/ Finish(r)
  PROVE  request' \in [RequestIds -> Requests \cup {Idle}]
<1>1. request[r] \in Requests
  BY DEF TypeOK
<1>2. [request[r] EXCEPT !.pc = pc] \in Requests
  BY <1>1 DEF Requests
<1>. QED  BY <1>2 DEF TypeOK, GoTo, Finish

LEMMA LoadTypeOK ==
  ASSUME TypeOK, NEW r \in RequestIds, Load(r)
  PROVE  TypeOK'
<1>1. PICK actor \in AccountIds, target \in AccountIds :
        \/ load_suspend(r, actor, target)
        \/ load_restore(r, actor, target)
        \/ \E scope \in ScopeNames : load_change_scope(r, actor, target, scope)
        \/ load_report_suspend(r, actor, target)
  BY DEF Load
<1>2. PICK op \in Ops, scope \in ScopeNames : Start(r, op, actor, target, scope)
  <2>1. CASE load_suspend(r, actor, target)
    BY <2>1, ScopeNamesAssumption DEF load_suspend, Ops
  <2>2. CASE load_restore(r, actor, target)
    BY <2>2, ScopeNamesAssumption DEF load_restore, Ops
  <2>3. CASE \E scope \in ScopeNames : load_change_scope(r, actor, target, scope)
    BY <2>3 DEF load_change_scope, Ops
  <2>4. CASE load_report_suspend(r, actor, target)
    BY <2>4, ScopeNamesAssumption DEF load_report_suspend, Ops
  <2>. QED  BY <1>1, <2>1, <2>2, <2>3, <2>4
<1>. QED  BY <1>2, StartTypeOK

LEMMA CommitTypeOK ==
  ASSUME TypeOK, NEW r \in RequestIds, Commit(r)
  PROVE  TypeOK'
<1>0. request[r] # Idle => request[r] \in Requests
  BY DEF TypeOK
<1>1. CASE suspend_account(r)
  BY <1>0, <1>1, MoveTypeOK DEF suspend_account, At, TypeOK, Unaudited, Requests
<1>2. CASE restore_account(r)
  BY <1>0, <1>2, MoveTypeOK DEF restore_account, At, TypeOK, Unaudited, Requests
<1>3. CASE grant_account_scope(r)
  <2>1. request' \in [RequestIds -> Requests \cup {Idle}]
    BY <1>3, MoveTypeOK DEF grant_account_scope, At
  <2>2. scopes' \in [AccountIds -> SUBSET ScopeNames]
    BY <1>0, <1>3 DEF grant_account_scope, At, TypeOK, Requests
  <2>. QED  BY <1>3, <2>1, <2>2 DEF grant_account_scope, TypeOK, Unaudited
<1>4. CASE revoke_account_scope(r)
  <2>1. request' \in [RequestIds -> Requests \cup {Idle}]
    BY <1>4, MoveTypeOK DEF revoke_account_scope, At
  <2>2. scopes' \in [AccountIds -> SUBSET ScopeNames]
    BY <1>0, <1>4 DEF revoke_account_scope, At, TypeOK, Requests
  <2>. QED  BY <1>4, <2>1, <2>2 DEF revoke_account_scope, TypeOK, Unaudited
<1>5. CASE report_remove_items(r)
  BY <1>5, MoveTypeOK DEF report_remove_items, At, TypeOK, Unaudited
<1>6. CASE log_report_suspend(r)
  <2>1. request[r] \in Requests
    BY <1>0, <1>6 DEF log_report_suspend, At
  <2>2. suspended[request[r].target] \in BOOLEAN
    BY <2>1 DEF TypeOK, Requests
  <2>3. [request[r] EXCEPT !.pc = "logged",
                           !.targetSuspended = suspended[request[r].target]] \in Requests
    BY <2>1, <2>2 DEF Requests
  <2>4. request' \in [RequestIds -> Requests \cup {Idle}]
    BY <1>6, <2>3 DEF log_report_suspend, TypeOK, Finish
  <2>5. audit' \in [AccountIds -> [Topics -> AuditActions]]
    <3>1. audit[request[r].target] \in [Topics -> AuditActions]
      BY <2>1 DEF TypeOK, Requests
    <3>2. [audit[request[r].target] EXCEPT !["suspension"] = "suspend"]
             \in [Topics -> AuditActions]
      BY <3>1 DEF Topics, AuditActions
    <3>. QED  BY <1>6, <3>2 DEF log_report_suspend, TypeOK
  <2>. QED  BY <1>6, <2>4, <2>5 DEF log_report_suspend, TypeOK
<1>7. CASE report_suspend(r)
  BY <1>0, <1>7, MoveTypeOK DEF report_suspend, At, TypeOK, Unaudited, Requests
<1>. QED  BY <1>1, <1>2, <1>3, <1>4, <1>5, <1>6, <1>7 DEF Commit

LEMMA LogTypeOK ==
  ASSUME TypeOK, NEW r \in RequestIds, log_moderation_action(r)
  PROVE  TypeOK'
<1>1. request[r] \in Requests
  BY DEF log_moderation_action, TypeOK
<1>2. request' \in [RequestIds -> Requests \cup {Idle}]
  BY MoveTypeOK DEF log_moderation_action
<1>3. audit' \in [AccountIds -> [Topics -> AuditActions]]
  <2>. DEFINE a == request[r].target
              op == request[r].op
  <2>1. a \in AccountIds /\ request[r].scope \in Topics /\ "suspension" \in Topics
    BY <1>1 DEF Requests, Topics
  <2>2. audit_action(op) \in AuditActions
    BY <1>1 DEF log_moderation_action, audit_action, Requests, Ops, AuditActions
  <2>3. PICK topic \in Topics : audit' = [audit EXCEPT ![a][topic] = audit_action(op)]
    BY <2>1 DEF log_moderation_action
  <2>4. audit[a] \in [Topics -> AuditActions]
    BY <2>1 DEF TypeOK
  <2>5. [audit[a] EXCEPT ![topic] = audit_action(op)] \in [Topics -> AuditActions]
    BY <2>2, <2>4
  <2>. QED  BY <2>1, <2>3, <2>5 DEF TypeOK
<1>. QED  BY <1>2, <1>3 DEF log_moderation_action, TypeOK

(* Every reachable state is well-typed: scopes only ever hold names of the *)
(* Scopes enum, and a request's copies stay those of accounts that exist.  *)
THEOREM TypeCorrect == Spec => []TypeOK
<1>1. TypeOK /\ [Next]_vars => TypeOK'
  <2>1. ASSUME TypeOK, NEW r \in RequestIds, Abort(r)
        PROVE  TypeOK'
    BY <2>1, MoveTypeOK DEF Abort, TypeOK
  <2>2. ASSUME TypeOK, UNCHANGED vars
        PROVE  TypeOK'
    BY <2>2 DEF TypeOK, vars
  <2>. QED  BY <2>1, <2>2, LoadTypeOK, CommitTypeOK, LogTypeOK DEF Next
<1>. QED  BY <1>1, InitTypeOK, PTL DEF Spec
-----------------------------------------------------------------------------
(* The inductive invariant behind SomeActiveRoot.  As long as no two       *)
(* requests have overlapped, the one in flight still sees the database as  *)
(* it loaded it, so what its checks established still holds when it acts.  *)
Cleared(req) ==
    req.pc # "acted" =>
        /\ ~ suspended[req.actor]
        /\ req.actorScopes = scopes[req.actor]
        /\ req.targetScopes = scopes[req.target]
        /\ req.op \in {"suspend", "restore"} =>
              /\ req.actor # req.target
              /\ has_scope(scopes[req.target], "admin") => has_scope(scopes[req.actor], "root")
        /\ req.op \in {"grant", "revoke"} =>
              may_change_scope(req.actor, req.target, req.scope)
        /\ req.op = "report_suspend" =>
              can_suspend(req.actor, scopes[req.actor], req.target, scopes[req.target])

Undisturbed ==
    ~ overlapped =>
        /\ \E a \in AccountIds : is_active_root(a)
        /\ \A r, s \in InFlight : r = s
        /\ \A r \in InFlight : Cleared(request[r])

LEMMA InitUndisturbed == Init => Undisturbed
<1>. SUFFICES ASSUME Init PROVE Undisturbed
  OBVIOUS
<1>1. PICK a \in InitialRoots : a \in AccountIds
  BY AccountsAssumption
<1>2. is_active_root(a)
  BY <1>1, ScopeNamesAssumption DEF Init, Init_scopes, is_active_root
<1>3. InFlight = {}
  BY DEF Init, InFlight
<1>. QED  BY <1>1, <1>2, <1>3 DEF Undisturbed

(* A request that starts alone is cleared by the checks of its load.       *)
LEMMA LoadUndisturbed ==
  ASSUME TypeOK, Undisturbed, NEW r \in RequestIds, Load(r)
  PROVE  Undisturbed'
<1>. SUFFICES ASSUME ~ overlapped' PROVE Undisturbed'
  BY DEF Undisturbed
<1>1. PICK actor \in AccountIds, target \in AccountIds :
        \/ load_suspend(r, actor, target)
        \/ load_restore(r, actor, target)
        \/ \E scope \in ScopeNames : load_change_scope(r, actor, target, scope)
        \/ load_report_suspend(r, actor, target)
  BY DEF Load
<1>2. PICK op, scope :
        /\ Start(r, op, actor, target, scope)
        /\ ~ suspended[actor]
        /\ op \in {"suspend", "restore"} =>
              /\ actor # target
              /\ has_scope(scopes[target], "admin") => has_scope(scopes[actor], "root")
        /\ op \in {"grant", "revoke"} => may_change_scope(actor, target, scope)
        /\ op = "report_suspend" =>
              can_suspend(actor, scopes[actor], target, scopes[target])
  BY <1>1 DEF load_suspend, load_restore, load_change_scope, load_report_suspend,
              require_current_active_admin
<1>3. /\ ~ overlapped /\ InFlight = {}
      /\ UNCHANGED <<scopes, suspended>>
  BY <1>2 DEF Start
<1>4. \E a \in AccountIds : is_active_root(a)'
  BY <1>3 DEF Undisturbed, is_active_root
<1>5. \A s \in InFlight' : s = r
  BY <1>2, <1>3 DEF Start, InFlight, TypeOK
<1>6. Cleared(request[r])'
  <2>1. request'[r] =
           [pc |-> "loaded", op |-> op,
            actor |-> actor, target |-> target, scope |-> scope,
            actorScopes |-> scopes[actor], targetScopes |-> scopes[target],
            targetSuspended |-> suspended[target]]
    BY <1>2 DEF Start, TypeOK
  <2>. QED  BY <1>2, <1>3, <2>1 DEF Cleared, may_change_scope
<1>. QED  BY <1>4, <1>5, <1>6 DEF Undisturbed

(* What the request in flight may rely on, as long as it is alone.         *)
LEMMA Alone ==
  ASSUME TypeOK, Undisturbed, ~ overlapped, NEW r \in RequestIds, request[r] # Idle
  PROVE  /\ request[r] \in Requests
         /\ Cleared(request[r])
         /\ InFlight = {r}
         /\ \E a \in AccountIds : is_active_root(a)
<1>1. r \in InFlight
  BY DEF InFlight
<1>. QED  BY <1>1 DEF Undisturbed, TypeOK

(* An alone request that suspends, demotes or reports an account leaves    *)
(* some account an active root: the acting one, if the target is a root.   *)
LEMMA RootRemains ==
  ASSUME TypeOK, Undisturbed, ~ overlapped, NEW r \in RequestIds, Commit(r)
  PROVE  \E a \in AccountIds : is_active_root(a)'
<1>. DEFINE req == request[r]
<1>1. req # Idle
  BY DEF Commit, suspend_account, restore_account, grant_account_scope,
         revoke_account_scope, report_remove_items, log_report_suspend, report_suspend, At
<1>2. req \in Requests /\ Cleared(req)
  BY <1>1, Alone
<1>3. PICK a \in AccountIds : is_active_root(a)
  BY <1>1, Alone
<1>4. req.actor \in AccountIds /\ req.target \in AccountIds
  BY <1>2 DEF Requests
<1>5. CASE suspend_account(r)
  <2>1. /\ req.actor # req.target
        /\ has_scope(scopes[req.target], "admin") => has_scope(scopes[req.actor], "root")
        /\ ~ suspended[req.actor]
    BY <1>2, <1>5 DEF suspend_account, At, Cleared
  <2>2. /\ scopes' = scopes
        /\ suspended' = [suspended EXCEPT ![req.target] = TRUE]
    BY <1>5 DEF suspend_account
  <2>3. CASE a = req.target
    BY <1>3, <1>4, <2>1, <2>2, <2>3 DEF is_active_root, has_scope, TypeOK
  <2>4. CASE a # req.target
    BY <1>3, <1>4, <2>2, <2>4 DEF is_active_root, TypeOK
  <2>. QED  BY <2>3, <2>4
<1>6. CASE restore_account(r)
  BY <1>3, <1>4, <1>6 DEF restore_account, is_active_root, TypeOK
<1>7. CASE grant_account_scope(r)
  BY <1>3, <1>4, <1>7 DEF grant_account_scope, is_active_root, TypeOK
<1>8. CASE revoke_account_scope(r)
  <2>1. /\ ~ suspended[req.actor]
        /\ req.scope = "root" => "root" \in scopes[req.actor] /\ req.actor # req.target
    BY <1>2, <1>8 DEF revoke_account_scope, At, Cleared, may_change_scope
  <2>2. /\ suspended' = suspended
        /\ \/ scopes' = scopes
           \/ scopes' = [scopes EXCEPT ![req.target] = @ \ {req.scope}]
    BY <1>8 DEF revoke_account_scope
  <2>3. CASE a = req.target /\ req.scope = "root"
    BY <1>3, <1>4, <2>1, <2>2, <2>3 DEF is_active_root, TypeOK
  <2>4. CASE a # req.target \/ req.scope # "root"
    BY <1>3, <1>4, <2>2, <2>4 DEF is_active_root, TypeOK
  <2>. QED  BY <2>3, <2>4
<1>9. CASE report_remove_items(r)
  BY <1>3, <1>9 DEF report_remove_items, is_active_root
<1>10. CASE log_report_suspend(r)
  BY <1>3, <1>10 DEF log_report_suspend, is_active_root
<1>11. CASE report_suspend(r)
  <2>1. can_suspend(req.actor, scopes[req.actor], req.target, scopes[req.target])
    BY <1>2, <1>11 DEF report_suspend, At, Cleared
  <2>2. /\ scopes' = scopes
        /\ suspended' = suspended \/ suspended' = [suspended EXCEPT ![req.target] = TRUE]
    BY <1>11 DEF report_suspend
  <2>3. "root" \notin scopes[req.target]
    BY <2>1 DEF can_suspend, has_scope
  <2>. QED  BY <1>3, <1>4, <2>2, <2>3 DEF is_active_root, TypeOK
<1>. QED  BY <1>5, <1>6, <1>7, <1>8, <1>9, <1>10, <1>11 DEF Commit

LEMMA CommitUndisturbed ==
  ASSUME TypeOK, Undisturbed, NEW r \in RequestIds, Commit(r)
  PROVE  Undisturbed'
<1>1. overlapped' = overlapped /\ request[r] # Idle
  BY DEF Commit, suspend_account, restore_account, grant_account_scope, Unaudited,
         revoke_account_scope, report_remove_items, log_report_suspend, report_suspend, At
<1>. SUFFICES ASSUME ~ overlapped PROVE Undisturbed'
  BY <1>1 DEF Undisturbed
<1>2. request[r] \in Requests /\ Cleared(request[r]) /\ InFlight = {r}
  BY <1>1, Alone
<1>3. \A s \in RequestIds : s # r => request'[s] = request[s]
  BY DEF Commit, suspend_account, restore_account, grant_account_scope, GoTo, Finish, TypeOK,
         revoke_account_scope, report_remove_items, log_report_suspend, report_suspend
<1>4. \A s \in InFlight' : s = r
  BY <1>2, <1>3 DEF InFlight
<1>5. ASSUME request'[r] # Idle PROVE Cleared(request[r])'
  <2>1. \/ /\ \E pc \in {"acted", "swept"} : GoTo(r, pc)
           /\ request'[r].pc # "acted" => UNCHANGED <<scopes, suspended>>
        \/ /\ request' = [request EXCEPT ![r] =
                 [@ EXCEPT !.pc = "logged", !.targetSuspended = suspended[request[r].target]]]
           /\ UNCHANGED <<scopes, suspended>>
    <3>1. Finish(r) => request'[r] = Idle
      BY DEF Finish, TypeOK
    <3>2. ASSUME GoTo(r, "acted") PROVE request'[r].pc = "acted"
      BY <3>2, <1>2 DEF GoTo, TypeOK, Requests
    <3>. QED
      BY <1>5, <3>1, <3>2
         DEF Commit, suspend_account, restore_account, grant_account_scope,
             revoke_account_scope, report_remove_items, log_report_suspend, report_suspend
  <2>2. request[r].pc # "acted"
    BY DEF Commit, suspend_account, restore_account, grant_account_scope,
           revoke_account_scope, report_remove_items, log_report_suspend, report_suspend, At
  <2>3. ASSUME NEW new, request'[r] = new,
               \/ \E pc \in {"acted", "swept"} : new = [request[r] EXCEPT !.pc = pc]
               \/ \E b \in BOOLEAN : \E old \in Requests :
                     /\ old = [request[r] EXCEPT !.pc = "logged"]
                     /\ new = [old EXCEPT !.targetSuspended = b]
        PROVE  /\ new.op = request[r].op
               /\ new.actor = request[r].actor
               /\ new.target = request[r].target
               /\ new.scope = request[r].scope
               /\ new.actorScopes = request[r].actorScopes
               /\ new.targetScopes = request[r].targetScopes
    BY <1>2, <2>3 DEF Requests
  <2>4. /\ request'[r].op = request[r].op
        /\ request'[r].actor = request[r].actor
        /\ request'[r].target = request[r].target
        /\ request'[r].scope = request[r].scope
        /\ request'[r].actorScopes = request[r].actorScopes
        /\ request'[r].targetScopes = request[r].targetScopes
    <3>1. [request[r] EXCEPT !.pc = "logged"] \in Requests
      BY <1>2 DEF Requests
    <3>2. suspended[request[r].target] \in BOOLEAN
      BY <1>2 DEF Requests, TypeOK
    <3>3. \/ \E pc \in {"acted", "swept"} : request'[r] = [request[r] EXCEPT !.pc = pc]
          \/ request'[r] = [request[r] EXCEPT !.pc = "logged",
                                              !.targetSuspended = suspended[request[r].target]]
      BY <2>1 DEF GoTo, TypeOK
    <3>. QED  BY <2>3, <3>1, <3>2, <3>3
  <2>5. request'[r].pc = "acted" \/ UNCHANGED <<scopes, suspended>>
    BY <2>1
  <2>. QED  BY <1>2, <2>2, <2>4, <2>5 DEF Cleared, may_change_scope
<1>. QED  BY <1>1, <1>4, <1>5, RootRemains DEF Undisturbed, InFlight

(* The last commit of a request, and its end, leave nothing to be cleared. *)
LEMMA EndUndisturbed ==
  ASSUME TypeOK, Undisturbed, NEW r \in RequestIds,
         Finish(r), UNCHANGED <<scopes, suspended, overlapped>>
  PROVE  Undisturbed'
<1>1. \A s \in InFlight' : s \in InFlight /\ request'[s] = request[s]
  BY DEF InFlight, Finish, TypeOK
<1>. QED  BY <1>1 DEF Undisturbed, Cleared, may_change_scope, is_active_root

LEMMA NextUndisturbed == TypeOK /\ Undisturbed /\ [Next]_vars => Undisturbed'
<1>. SUFFICES ASSUME TypeOK, Undisturbed, [Next]_vars PROVE Undisturbed'
  OBVIOUS
<1>1. ASSUME UNCHANGED vars PROVE Undisturbed'
  BY <1>1 DEF vars, Undisturbed, InFlight, Cleared, may_change_scope, is_active_root
<1>2. ASSUME NEW r \in RequestIds, log_moderation_action(r) \/ Abort(r) PROVE Undisturbed'
  BY <1>2, EndUndisturbed DEF log_moderation_action, Abort
<1>. QED  BY <1>1, <1>2, LoadUndisturbed, CommitUndisturbed DEF Next

(* An instance keeps an active root, as long as its moderators' requests   *)
(* do not overlap, whatever accounts, scopes and requests there are.       *)
THEOREM RootSurvives == Spec => []SomeActiveRoot
<1>1. Undisturbed => SomeActiveRoot
  BY DEF Undisturbed, SomeActiveRoot
<1>. QED  BY <1>1, InitUndisturbed, NextUndisturbed, TypeCorrect, PTL DEF Spec

(* A commit that changes authority is one of a request cleared for it.     *)
LEMMA CommitByActiveRoot ==
  ASSUME TypeOK, Undisturbed, ~ overlapped, NEW r \in RequestIds, Commit(r)
  PROVE  ByActiveRoot
<1>. DEFINE req == request[r]
<1>1. req # Idle /\ req.pc # "acted"
  BY DEF Commit, suspend_account, restore_account, grant_account_scope,
         revoke_account_scope, report_remove_items, log_report_suspend, report_suspend, At
<1>2. req \in Requests /\ Cleared(req) /\ r \in InFlight
  BY <1>1, Alone
<1>3. req.actor \in AccountIds /\ req.target \in AccountIds
  BY <1>2 DEF Requests
<1>4. ASSUME UNCHANGED <<scopes, suspended>> PROVE ByActiveRoot
  BY <1>4 DEF ByActiveRoot
<1>5. ASSUME GoTo(r, "acted") PROVE request'[r] # request[r]
  BY <1>5, <1>1, <1>2 DEF GoTo, TypeOK, Requests
<1>6. CASE suspend_account(r) \/ restore_account(r)
  <2>1. /\ has_scope(scopes[req.target], "admin") => is_active_root(req.actor)
        /\ scopes' = scopes
        /\ request'[r] # request[r]
    BY <1>1, <1>2, <1>5, <1>6
       DEF suspend_account, restore_account, At, Cleared, is_active_root, has_scope
  <2>2. \A a \in AccountIds : a # req.target => suspended'[a] = suspended[a]
    BY <1>3, <1>6 DEF suspend_account, restore_account, TypeOK
  <2>. QED  BY <1>2, <2>1, <2>2 DEF ByActiveRoot, is_admin
<1>7. CASE grant_account_scope(r) \/ revoke_account_scope(r)
  <2>1. /\ req.scope \in {"root", "admin"} => is_active_root(req.actor)
        /\ suspended' = suspended
    BY <1>1, <1>2, <1>7
       DEF grant_account_scope, revoke_account_scope, At, Cleared, may_change_scope,
           is_active_root
  <2>2. scopes' = scopes \/ request'[r] # request[r]
    BY <1>5, <1>7 DEF grant_account_scope, revoke_account_scope
  <2>3. \A a \in AccountIds, s \in {"root", "admin"} :
           a # req.target \/ s # req.scope => (s \in scopes'[a] <=> s \in scopes[a])
    BY <1>3, <1>7 DEF grant_account_scope, revoke_account_scope, TypeOK
  <2>. QED  BY <1>2, <1>4, <2>1, <2>2, <2>3 DEF ByActiveRoot
<1>8. CASE report_remove_items(r) \/ log_report_suspend(r)
  BY <1>4, <1>8 DEF report_remove_items, log_report_suspend
<1>9. CASE report_suspend(r)
  <2>1. /\ has_scope(scopes[req.target], "admin") => is_active_root(req.actor)
        /\ scopes' = scopes
        /\ request'[r] # request[r]
    BY <1>1, <1>2, <1>9
       DEF report_suspend, At, Cleared, can_suspend, is_active_root, has_scope, Finish, TypeOK
  <2>2. \A a \in AccountIds : a # req.target => suspended'[a] = suspended[a]
    BY <1>3, <1>9 DEF report_suspend, TypeOK
  <2>. QED  BY <1>2, <2>1, <2>2 DEF ByActiveRoot, is_admin
<1>. QED  BY <1>6, <1>7, <1>8, <1>9 DEF Commit

(* Only active roots change who has authority, as long as requests do not  *)
(* overlap, whatever accounts, scopes and requests there are.              *)
THEOREM NoCoupEver == Spec => NoCoup
<1>1. TypeOK /\ Undisturbed /\ [Next]_vars => [~ overlapped' => ByActiveRoot]_vars
  <2>. SUFFICES ASSUME TypeOK, Undisturbed, Next, ~ overlapped' PROVE ByActiveRoot
    OBVIOUS
  <2>1. PICK r \in RequestIds : Load(r) \/ Commit(r) \/ log_moderation_action(r) \/ Abort(r)
    BY DEF Next
  <2>2. ASSUME UNCHANGED <<scopes, suspended>> PROVE ByActiveRoot
    BY <2>2 DEF ByActiveRoot
  <2>3. Load(r) => UNCHANGED <<scopes, suspended>>
    BY DEF Load, load_suspend, load_restore, load_change_scope, load_report_suspend, Start
  <2>4. Commit(r) => ~ overlapped
    BY DEF Commit, suspend_account, restore_account, grant_account_scope, Unaudited,
           revoke_account_scope, report_remove_items, log_report_suspend, report_suspend
  <2>. QED  BY <2>1, <2>2, <2>3, <2>4, CommitByActiveRoot DEF log_moderation_action, Abort
<1>. QED  BY <1>1, InitUndisturbed, NextUndisturbed, TypeCorrect, PTL DEF Spec, NoCoup
-----------------------------------------------------------------------------
(* The inductive invariant behind AuditTellsTruth.  The row of the log and *)
(* the change it is about are two commits, so between them the newest row  *)
(* may be wrong, but only on the topic and the account of the request in   *)
(* flight; and what that request has brought about by then (Underway) is   *)
(* what makes the row true once the second commit is done.                 *)
Topic(req) == IF req.op \in {"grant", "revoke"} THEN req.scope ELSE "suspension"

Agrees(a, t) ==
    IF t = "suspension" THEN suspended[a] <=> audit[a][t] = "suspend"
    ELSE /\ audit[a][t] = "remove_scope" => t \notin scopes[a]
         /\ t \in scopes[a] \ Init_scopes(a) => audit[a][t] = "add_scope"

Between(req, a, t) ==
    /\ req.pc \in {"acted", "logged"}
    /\ req.target = a /\ Topic(req) = t

Underway(req) ==
    /\ req.pc = "loaded" => req.targetSuspended = suspended[req.target]
    /\ req.pc = "acted" =>
          /\ req.op # "report_suspend"
          /\ req.op = "suspend" => suspended[req.target]
          /\ req.op = "restore" => ~ suspended[req.target]
          /\ req.op = "revoke" => req.scope \notin scopes[req.target]
    /\ req.pc = "logged" =>
          /\ req.op = "report_suspend"
          /\ req.targetSuspended = suspended[req.target]
          /\ audit[req.target]["suspension"] = "suspend"

Truthful ==
    (~ overlapped /\ ~ aborted) =>
        /\ \A a \in AccountIds, t \in Topics :
              Agrees(a, t) \/ \E r \in InFlight : Between(request[r], a, t)
        /\ \A r \in InFlight : Underway(request[r])

LEMMA InitTruthful == Init => Truthful
<1>. SUFFICES ASSUME Init PROVE Truthful
  OBVIOUS
<1>1. InFlight = {}
  BY DEF Init, InFlight
<1>2. \A a \in AccountIds, t \in Topics : Agrees(a, t)
  BY AccountsAssumption DEF Init, Agrees
<1>. QED  BY <1>1, <1>2 DEF Truthful

(* A load finds nothing in flight, so the whole log agrees.                *)
LEMMA LoadTruthful ==
  ASSUME TypeOK, Truthful, NEW r \in RequestIds, Load(r)
  PROVE  Truthful'
<1>. SUFFICES ASSUME ~ overlapped', ~ aborted' PROVE Truthful'
  BY DEF Truthful
<1>1. PICK actor, target, op, scope : Start(r, op, actor, target, scope)
  BY DEF Load, load_suspend, load_restore, load_change_scope, load_report_suspend
<1>2. /\ ~ overlapped /\ ~ aborted /\ InFlight = {}
      /\ UNCHANGED <<scopes, suspended, audit>>
  BY <1>1 DEF Start
<1>3. \A a \in AccountIds, t \in Topics : Agrees(a, t)'
  BY <1>2 DEF Truthful, Agrees
<1>4. \A s \in InFlight' : s = r
  BY <1>1, <1>2 DEF Start, InFlight, TypeOK
<1>5. /\ request'[r].pc = "loaded"
      /\ request'[r].target = target
      /\ request'[r].targetSuspended = suspended[target]
  BY <1>1 DEF Start, TypeOK
<1>6. Underway(request[r])'
  BY <1>2, <1>5 DEF Underway
<1>. QED  BY <1>3, <1>4, <1>6 DEF Truthful

(* What a request may rely on as long as it is alone: the log is true but  *)
(* for what it is about itself.                                            *)
LEMMA AloneTruthful ==
  ASSUME TypeOK, Undisturbed, Truthful, ~ overlapped, ~ aborted,
         NEW r \in RequestIds, request[r] # Idle
  PROVE  /\ request[r] \in Requests
         /\ Cleared(request[r])
         /\ Underway(request[r])
         /\ \A a \in AccountIds, t \in Topics :
               Agrees(a, t) \/ Between(request[r], a, t)
<1>1. InFlight = {r}
  BY Alone
<1>. QED  BY <1>1, Alone DEF Truthful

(* A step of the request in flight keeps the log true, if nothing else     *)
(* changes than what the request is about, and it goes on Between.         *)
LEMMA StepTruthful ==
  ASSUME TypeOK, Undisturbed, ~ overlapped, NEW r \in RequestIds, request[r] # Idle,
         \A s \in RequestIds : s # r => request'[s] = request[s],
         request'[r] # Idle => Underway(request[r])',
         \A a \in AccountIds, t \in Topics :
             Agrees(a, t)' \/ (request'[r] # Idle /\ Between(request[r], a, t)')
  PROVE  Truthful'
<1>1. InFlight = {r}
  BY Alone
<1>2. \A s \in InFlight' : s = r
  BY <1>1 DEF InFlight
<1>3. request'[r] # Idle => r \in InFlight'
  BY DEF InFlight
<1>4. \A s \in InFlight' : Underway(request[s])'
  BY <1>2 DEF InFlight, Underway
<1>5. \A a \in AccountIds, t \in Topics :
         Agrees(a, t)' \/ \E s \in InFlight' : Between(request[s], a, t)'
  BY <1>3 DEF Agrees, Between, Topic
<1>. QED  BY <1>4, <1>5 DEF Truthful

(* The commit of the change itself, in review.py: only the target and its  *)
(* topic change, and they do what the row is going to say.                 *)
LEMMA ActTruthful ==
  ASSUME TypeOK, Undisturbed, Truthful, ~ overlapped, ~ aborted, NEW r \in RequestIds,
         \/ suspend_account(r)
         \/ restore_account(r)
         \/ grant_account_scope(r)
         \/ revoke_account_scope(r)
  PROVE  Truthful'
<1>. DEFINE req == request[r]
<1>1. /\ req # Idle /\ req.pc = "loaded"
      /\ audit' = audit
      /\ GoTo(r, "acted") \/ Finish(r)
      /\ req.op \in {"suspend", "restore", "grant", "revoke"}
  BY DEF suspend_account, restore_account, grant_account_scope, revoke_account_scope,
         At, Unaudited
<1>2. /\ req \in Requests /\ Cleared(req) /\ Underway(req)
      /\ \A a \in AccountIds, t \in Topics : Agrees(a, t)
  BY <1>1, AloneTruthful DEF Between
<1>3. /\ req.target \in AccountIds /\ req.scope \in ScopeNames
      /\ req.scope # "suspension"
  BY <1>2, AccountsAssumption DEF Requests
<1>4. \A s \in RequestIds : s # r => request'[s] = request[s]
  BY <1>1 DEF GoTo, Finish, TypeOK
<1>5. Finish(r) => request'[r] = Idle
  BY DEF Finish, TypeOK
<1>6. ASSUME GoTo(r, "acted")
      PROVE  /\ request'[r] # Idle /\ request'[r].pc = "acted"
             /\ request'[r].op = req.op /\ request'[r].target = req.target
             /\ request'[r].scope = req.scope
  <2>1. request'[r] = [req EXCEPT !.pc = "acted"]
    BY <1>6 DEF GoTo, TypeOK
  <2>2. /\ request'[r].pc = "acted"
        /\ request'[r].op = req.op /\ request'[r].target = req.target
        /\ request'[r].scope = req.scope
    BY <1>2, <2>1 DEF Requests
  <2>. QED  BY <2>2 DEF Idle
<1>7. CASE suspend_account(r) \/ restore_account(r)
  <2>1. /\ GoTo(r, "acted") /\ scopes' = scopes
        /\ req.op \in {"suspend", "restore"}
    BY <1>7 DEF suspend_account, restore_account, At
  <2>2. /\ req.op = "suspend" => suspended'[req.target]
        /\ req.op = "restore" => ~ suspended'[req.target]
    BY <1>1, <1>2, <1>3, <1>7 DEF suspend_account, restore_account, At, Underway, TypeOK
  <2>3. \A a \in AccountIds : a # req.target => suspended'[a] = suspended[a]
    BY <1>3, <1>7 DEF suspend_account, restore_account, TypeOK
  <2>4. Underway(request[r])'
    BY <1>6, <2>1, <2>2 DEF Underway
  <2>5. \A a \in AccountIds, t \in Topics : Agrees(a, t)' \/ Between(request[r], a, t)'
    BY <1>1, <1>2, <1>6, <2>1, <2>3 DEF Agrees, Between, Topic
  <2>. QED  BY <1>1, <1>4, <1>6, <2>1, <2>4, <2>5, StepTruthful
<1>8. CASE grant_account_scope(r) \/ revoke_account_scope(r)
  <2>1. /\ suspended' = suspended
        /\ req.op \in {"grant", "revoke"}
        /\ Finish(r) => scopes' = scopes
    BY <1>6, <1>5, <1>8 DEF grant_account_scope, revoke_account_scope, At
  <2>2. \A a \in AccountIds, t \in ScopeNames :
           a # req.target \/ t # req.scope => (t \in scopes'[a] <=> t \in scopes[a])
    BY <1>3, <1>8 DEF grant_account_scope, revoke_account_scope, TypeOK
  <2>3. CASE GoTo(r, "acted")
    <3>1. req.op = "revoke" => req.scope \notin scopes'[req.target]
      <4>1. req.targetScopes = scopes[req.target]
        BY <1>1, <1>2 DEF Cleared
      <4>. QED  BY <1>3, <1>5, <1>6, <1>8, <2>3, <4>1
                DEF grant_account_scope, revoke_account_scope, At, TypeOK
    <3>2. Underway(request[r])'
      BY <1>6, <2>1, <2>3, <3>1 DEF Underway
    <3>3. \A a \in AccountIds, t \in Topics : Agrees(a, t)' \/ Between(request[r], a, t)'
      BY <1>1, <1>2, <1>6, <2>1, <2>2, <2>3 DEF Agrees, Between, Topic, Topics
    <3>. QED  BY <1>1, <1>4, <1>6, <2>3, <3>2, <3>3, StepTruthful
  <2>4. CASE Finish(r)
    <3>1. \A a \in AccountIds, t \in Topics : Agrees(a, t)'
      BY <1>1, <1>2, <2>1, <2>4 DEF Agrees
    <3>. QED  BY <1>1, <1>4, <1>5, <2>4, <3>1, StepTruthful
  <2>. QED  BY <1>1, <2>3, <2>4
<1>. QED  BY <1>7, <1>8

(* The row of review.py, after the change.                                 *)
LEMMA LogTruthful ==
  ASSUME TypeOK, Undisturbed, Truthful, ~ overlapped, ~ aborted, NEW r \in RequestIds,
         log_moderation_action(r)
  PROVE  Truthful'
<1>. DEFINE req == request[r]
<1>1. /\ req # Idle /\ req.pc = "acted"
      /\ audit' = [audit EXCEPT ![req.target][Topic(req)] = audit_action(req.op)]
      /\ Finish(r)
      /\ UNCHANGED <<scopes, suspended>>
  BY DEF log_moderation_action, Topic
<1>2. /\ req \in Requests /\ Underway(req)
      /\ \A a \in AccountIds, t \in Topics :
            (a # req.target \/ t # Topic(req)) => Agrees(a, t)
  BY <1>1, AloneTruthful DEF Between
<1>3. /\ req.target \in AccountIds /\ Topic(req) \in Topics
      /\ req.op \in Ops
      /\ req.scope # "suspension"
  BY <1>2, AccountsAssumption DEF Requests, Topic, Topics
<1>4. /\ audit'[req.target][Topic(req)] = audit_action(req.op)
      /\ \A a \in AccountIds, t \in Topics :
            (a # req.target \/ t # Topic(req)) => audit'[a][t] = audit[a][t]
  BY <1>1, <1>3 DEF TypeOK
<1>5. \A a \in AccountIds, t \in Topics :
         a = req.target /\ t = Topic(req) => Agrees(a, t)'
  BY <1>1, <1>2, <1>3, <1>4 DEF Agrees, Underway, Topic, audit_action, Ops
<1>6. \A a \in AccountIds, t \in Topics : Agrees(a, t)'
  BY <1>1, <1>2, <1>4, <1>5 DEF Agrees
<1>7. /\ request'[r] = Idle
      /\ \A s \in RequestIds : s # r => request'[s] = request[s]
  BY <1>1 DEF Finish, TypeOK
<1>. QED  BY <1>1, <1>6, <1>7, StepTruthful

(* A report removes items, then Account.suspend logs before it acts.       *)
LEMMA ReportTruthful ==
  ASSUME TypeOK, Undisturbed, Truthful, ~ overlapped, ~ aborted, ~ aborted',
         NEW r \in RequestIds,
         report_remove_items(r) \/ log_report_suspend(r) \/ report_suspend(r)
  PROVE  Truthful'
<1>. DEFINE req == request[r]
<1>1. req # Idle /\ req.op = "report_suspend"
  BY DEF report_remove_items, log_report_suspend, report_suspend, At
<1>2. /\ req \in Requests /\ Underway(req)
      /\ \A a \in AccountIds, t \in Topics :
            Agrees(a, t) \/ Between(req, a, t)
  BY <1>1, AloneTruthful
<1>3. /\ req.target \in AccountIds /\ Topic(req) = "suspension"
      /\ "suspension" \in Topics
      /\ suspended[req.target] \in BOOLEAN
  BY <1>1, <1>2 DEF Requests, Topic, Topics, TypeOK
<1>4. CASE report_remove_items(r)
  <2>1. /\ req.pc = "loaded" /\ GoTo(r, "swept")
        /\ UNCHANGED <<scopes, suspended, audit>>
    BY <1>4 DEF report_remove_items, At, Unaudited
  <2>2. /\ request'[r].pc = "swept"
        /\ \A s \in RequestIds : s # r => request'[s] = request[s]
    BY <1>2, <2>1 DEF GoTo, TypeOK, Requests
  <2>3. Underway(request[r])'
    BY <2>2 DEF Underway
  <2>4. \A a \in AccountIds, t \in Topics : Agrees(a, t)'
    BY <1>2, <2>1 DEF Agrees, Between
  <2>. QED  BY <1>1, <2>2, <2>3, <2>4, StepTruthful
<1>5. CASE log_report_suspend(r)
  <2>1. /\ req.pc \in {"loaded", "swept"}
        /\ audit' = [audit EXCEPT ![req.target]["suspension"] = "suspend"]
        /\ request' = [request EXCEPT ![r] =
               [@ EXCEPT !.pc = "logged", !.targetSuspended = suspended[req.target]]]
        /\ UNCHANGED <<scopes, suspended>>
    BY <1>5 DEF log_report_suspend, At
  <2>2. request'[r] = [req EXCEPT !.pc = "logged",
                                  !.targetSuspended = suspended[req.target]]
    BY <2>1 DEF TypeOK
  <2>3. /\ request'[r].pc = "logged"
        /\ request'[r].op = "report_suspend" /\ request'[r].target = req.target
        /\ request'[r].targetSuspended = suspended[req.target]
    BY <1>1, <1>2, <2>2 DEF Requests
  <2>4. request'[r] # Idle
    BY <1>2, <2>3 DEF Idle
  <2>5. \A s \in RequestIds : s # r => request'[s] = request[s]
    BY <2>1 DEF TypeOK
  <2>6. /\ audit'[req.target]["suspension"] = "suspend"
        /\ \A a \in AccountIds, t \in Topics :
              (a # req.target \/ t # "suspension") => audit'[a][t] = audit[a][t]
    BY <1>3, <2>1 DEF TypeOK
  <2>7. Underway(request[r])'
    BY <2>1, <2>3, <2>6 DEF Underway
  <2>8. \A a \in AccountIds, t \in Topics : Agrees(a, t)' \/ Between(request[r], a, t)'
    BY <1>2, <2>1, <2>3, <2>6 DEF Agrees, Between, Topic
  <2>. QED  BY <1>1, <2>4, <2>5, <2>7, <2>8, StepTruthful
<1>6. CASE report_suspend(r)
  <2>1. /\ req.pc = "logged" /\ Finish(r)
        /\ UNCHANGED <<scopes, audit>>
        /\ suspended' = IF req.targetSuspended THEN suspended
                        ELSE [suspended EXCEPT ![req.target] = TRUE]
    BY <1>6 DEF report_suspend, At, Unaudited
  <2>2. /\ suspended'[req.target]
        /\ \A a \in AccountIds : a # req.target => suspended'[a] = suspended[a]
    BY <1>2, <1>3, <2>1 DEF Underway, TypeOK
  <2>3. audit[req.target]["suspension"] = "suspend"
    BY <1>2, <2>1 DEF Underway
  <2>4. \A a \in AccountIds, t \in Topics : Agrees(a, t)'
    BY <1>2, <1>3, <2>1, <2>2, <2>3 DEF Agrees, Between
  <2>5. /\ request'[r] = Idle
        /\ \A s \in RequestIds : s # r => request'[s] = request[s]
    BY <2>1 DEF Finish, TypeOK
  <2>. QED  BY <1>1, <2>4, <2>5, StepTruthful
<1>. QED  BY <1>4, <1>5, <1>6

LEMMA NextTruthful == TypeOK /\ Undisturbed /\ Truthful /\ [Next]_vars => Truthful'
<1>. SUFFICES ASSUME TypeOK, Undisturbed, Truthful, [Next]_vars PROVE Truthful'
  OBVIOUS
<1>1. ASSUME UNCHANGED vars PROVE Truthful'
  BY <1>1 DEF vars, Truthful, InFlight, Agrees, Between, Topic, Underway
<1>2. ASSUME NEW r \in RequestIds, Commit(r) PROVE Truthful'
  <2>1. overlapped' = overlapped /\ (aborted => aborted')
    BY <1>2 DEF Commit, suspend_account, restore_account, grant_account_scope, Unaudited,
           revoke_account_scope, report_remove_items, log_report_suspend, report_suspend
  <2>2. overlapped' \/ aborted' => Truthful'
    BY DEF Truthful
  <2>. QED  BY <1>2, <2>1, <2>2, ActTruthful, ReportTruthful DEF Commit
<1>3. ASSUME NEW r \in RequestIds, log_moderation_action(r) PROVE Truthful'
  <2>1. overlapped' = overlapped /\ aborted' = aborted
    BY <1>3 DEF log_moderation_action
  <2>2. overlapped' \/ aborted' => Truthful'
    BY DEF Truthful
  <2>. QED  BY <1>3, <2>1, <2>2, LogTruthful
<1>4. ASSUME NEW r \in RequestIds, Abort(r) PROVE Truthful'
  BY <1>4 DEF Abort, Truthful
<1>. QED  BY <1>1, <1>2, <1>3, <1>4, LoadTruthful DEF Next

(* With no request in flight the log's newest row on a suspension or scope *)
(* is true of the account, as long as no requests overlapped and none      *)
(* broke off, although change and row are two commits, in either order.    *)
THEOREM AuditTrue == Spec => []AuditTellsTruth
<1>1. Truthful => AuditTellsTruth
  <2>. SUFFICES ASSUME Truthful, ~ overlapped, ~ aborted, InFlight = {}, NEW a \in AccountIds
               PROVE  /\ Agrees(a, "suspension")
                      /\ \A s \in ScopeNames : Agrees(a, s) /\ s # "suspension"
    BY DEF AuditTellsTruth, Agrees
  <2>. QED  BY AccountsAssumption DEF Truthful, Topics
<1>. QED  BY <1>1, InitTruthful, NextTruthful, InitUndisturbed, NextUndisturbed,
             TypeCorrect, PTL DEF Spec
=============================================================================
