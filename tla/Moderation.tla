----------------------------- MODULE Moderation -----------------------------
(***************************************************************************)
(* Moderation of content: approve, unapprove and deny (routes/review.py),  *)
(* an owner's deletion, and the resolution of reports (Report.resolve),    *)
(* with the removal of items, the sweep of all items of an account, and    *)
(* the audit log.                                                          *)
(*                                                                         *)
(* As in Accounts, a request loads what it works on and then commits step  *)
(* by step, other workers' commits fall in between, and it may break off   *)
(* after any commit.  The reload that follows a commit is taken with it.   *)
(* Scopes do not change here; Accounts is about them.                      *)
(***************************************************************************)
EXTENDS Scopes, Naturals

CONSTANTS
    AccountIds,
    Linked,         \* account -> the scopes linked to it
    Items,          \* datasets, dataset parts and uploads
    Uploads,        \* the items that are uploads, with a torrent of their own
    Owner,          \* item -> the account that created it
    Posted,         \* the items that exist at first
    Reports,
    Target,         \* report -> the reported item or account
    RequestIds,
    MaxRequests     \* bound: requests served in a behaviour

ASSUME ModerationAssumption ==
    /\ Linked \in [AccountIds -> SUBSET ScopeNames]
    /\ Uploads \subseteq Items
    /\ Posted \subseteq Items
    /\ Owner \in [Items -> AccountIds]
    /\ Target \in [Reports -> Items \cup AccountIds]
    /\ Items \cap AccountIds = {}
    /\ MaxRequests \in Nat

VARIABLES
    item,         \* item -> exists, is_approved, is_removed, and whether its
                  \*   slug or its torrent's infohash is still the public one
    suspended,    \* the accounts with is_suspended
    verdict,      \* report -> "unopened", "open" or the action it was resolved with
    audit,        \* audit_log: newest row on the visibility of each item; the
                  \*   items and the accounts with a row of removal, suspension
    request,      \* request id -> what the request loaded and where it stands
    served,       \* number of requests started so far
    overlapped,   \* history: two requests have been in flight at once
    aborted       \* history: a request has broken off before its last commit

vars == <<item, suspended, verdict, audit, request, served, overlapped, aborted>>

(* Mutant of owner_of: the reported item itself where its owner is meant.  *)
owner_of_anything(target) == target

owner_of(target) == IF target \in Items THEN Owner[target] ELSE target

reported_account(p) == owner_of(Target[p])

ItemActions == {"approve", "unapprove", "deny", "delete", "create"}
ReportActions == {"dismiss", "hide", "remove", "suspend", "suspend_remove"}
Steps == {"loaded", "hiding", "removing", "removed", "suspending", "done"}

Idle == [pc |-> "idle"]

(* reports: the report being resolved, if any; culprit: the account that   *)
(* is reported or owns the target; approved: is_approved of the target as  *)
(* this request last loaded it; todo: the items it removes; unlisting: the *)
(* uploads among them whose torrent it has yet to rename.                  *)
Requests ==
    [pc : Steps, op : ItemActions \cup ReportActions, actor : AccountIds,
     target : Items \cup AccountIds, culprit : AccountIds, reports : SUBSET Reports,
     approved : BOOLEAN, todo : SUBSET Items, unlisting : SUBSET Uploads]

TypeOK ==
    /\ item \in [Items ->
          [exists : BOOLEAN, approved : BOOLEAN, removed : BOOLEAN, public_name : BOOLEAN]]
    /\ suspended \subseteq AccountIds
    /\ verdict \in [Reports -> {"unopened", "open"} \cup ReportActions]
    /\ audit \in [visibility : [Items -> {"none", "approve", "unapprove", "hide"}],
                  removals : SUBSET Items, suspensions : SUBSET AccountIds]
    /\ request \in [RequestIds -> Requests \cup {Idle}]
    /\ served \in 0..MaxRequests
    /\ overlapped \in BOOLEAN
    /\ aborted \in BOOLEAN

(* A dataset of an account with the submit scope, an upload of one with the*)
(* upload scope, is approved as it is created.                             *)
auto_approved(i) == has_scope(Linked[Owner[i]], IF i \in Uploads THEN "upload" ELSE "submit")

Init ==
    /\ item = [i \in Items |->
          [exists |-> i \in Posted, approved |-> i \in Posted /\ auto_approved(i),
           removed |-> FALSE, public_name |-> TRUE]]
    /\ suspended = {}
    /\ verdict = [p \in Reports |-> "unopened"]
    /\ audit = [visibility |-> [i \in Items |-> "none"], removals |-> {}, suspensions |-> {}]
    /\ request = [r \in RequestIds |-> Idle]
    /\ served = 0
    /\ overlapped = FALSE
    /\ aborted = FALSE

InFlight == {r \in RequestIds : request[r] # Idle}

At(r, pc) == request[r] # Idle /\ request[r].pc = pc

Finish(r) == request' = [request EXCEPT ![r] = Idle]

Requesting == UNCHANGED <<served, overlapped, aborted>>
-----------------------------------------------------------------------------
(* Mutant of listed: no torrent is renamed.                                *)
none_listed(gone) == {}

(* The uploads whose torrents a removal renames: setting is_removed has an *)
(* effect only on an item not removed before.                              *)
listed(gone) == {u \in gone \cap Uploads : ~ item[u].removed}

(* The dependencies and the first checks of a handler; only requests that  *)
(* pass them start.                                                        *)
Start(r, op, actor, target, reports, todo) ==
    /\ request[r] = Idle
    /\ served < MaxRequests
    /\ actor \notin suspended
    /\ request' = [request EXCEPT ![r] =
           [pc |-> IF op \in {"deny", "delete"} THEN "removing" ELSE "loaded",
            op |-> op, actor |-> actor, target |-> target,
            culprit |-> owner_of(target), reports |-> reports,
            approved |-> target \in Items /\ item[target].approved,
            todo |-> todo, unlisting |-> listed(todo)]]
    /\ served' = served + 1
    /\ overlapped' = (overlapped \/ InFlight # {})
    /\ UNCHANGED <<item, suspended, verdict, audit, aborted>>

load_review(r, actor, i) ==
    /\ has_scope(Linked[actor], "review")
    /\ item[i].exists
    /\ \E op \in {"approve", "unapprove"} : Start(r, op, actor, i, {}, {})

load_deny(r, actor, i) ==
    /\ has_scope(Linked[actor], "review")
    /\ item[i].exists
    /\ Start(r, "deny", actor, i, {}, {i})

removable_by(i, actor) == Owner[i] = actor \/ has_scope(Linked[actor], "review")

load_delete(r, actor, i) ==
    /\ removable_by(i, actor)
    /\ item[i].exists
    /\ Start(r, "delete", actor, i, {}, {i})

load_create(r, i) ==
    /\ ~ item[i].exists
    /\ Start(r, "create", Owner[i], i, {}, {})

(* Mutant of is_open: a report that was opened, whether resolved or not.   *)
was_opened(p) == verdict[p] # "unopened"

is_open(p) == verdict[p] = "open"

(* Report.action_allowed *)
action_allowed(p, action, actor) ==
    /\ has_scope(Linked[actor], "review")
    /\ action \in {"suspend", "suspend_remove"} =>
          can_suspend(actor, Linked[actor], reported_account(p), Linked[reported_account(p)])
    /\ reported_account(p) = actor => has_scope(Linked[actor], "root")
    /\ is_open(p)
    /\ action \in {"hide", "remove"} => Target[p] \in Items

load_resolve(r, actor, p, action) ==
    /\ action_allowed(p, action, actor)
    /\ Start(r, action, actor, Target[p], {p}, {})

(* A report is one insert; its target has to be visible to the reporter.   *)
create_report(p) ==
    /\ verdict[p] = "unopened"
    /\ Target[p] \in Items => item[Target[p]].exists /\ ~ item[Target[p]].removed
    /\ verdict' = [verdict EXCEPT ![p] = "open"]
    /\ UNCHANGED <<item, suspended, audit, request>> /\ Requesting
-----------------------------------------------------------------------------
create_item(r) ==
    /\ At(r, "loaded") /\ request[r].op = "create"
    /\ item' = [item EXCEPT ![request[r].target] =
           [@ EXCEPT !.exists = TRUE, !.approved = auto_approved(request[r].target)]]
    /\ Finish(r)
    /\ UNCHANGED <<suspended, verdict, audit>> /\ Requesting

(* The ORM writes is_approved only if it differs from the loaded copy.     *)
set_approved(i, copy, value) ==
    item' = IF copy # value THEN [item EXCEPT ![i].approved = value] ELSE item

visibility_row(op) == op

(* approve_* and unapprove_*: the change is committed, then logged.        *)
commit_review(r) ==
    /\ At(r, "loaded") /\ request[r].op \in {"approve", "unapprove"}
    /\ set_approved(request[r].target, request[r].approved, request[r].op = "approve")
    /\ request' = [request EXCEPT ![r] = [@ EXCEPT !.pc = "done"]]
    /\ UNCHANGED <<suspended, verdict, audit>> /\ Requesting

log_review(r) ==
    /\ At(r, "done") /\ request[r].op \in {"approve", "unapprove"}
    /\ audit' = [audit EXCEPT !.visibility[request[r].target] = visibility_row(request[r].op)]
    /\ Finish(r)
    /\ UNCHANGED <<item, suspended, verdict>> /\ Requesting

(* ModerableMixin.hide: logged and committed first, then hidden.           *)
log_hide(r) ==
    LET i == request[r].target IN
    /\ At(r, "loaded") /\ request[r].op = "hide"
    /\ audit' = [audit EXCEPT !.visibility[i] = "hide"]
    /\ request' = [request EXCEPT ![r] =
           [@ EXCEPT !.pc = "hiding", !.approved = item[i].approved]]
    /\ UNCHANGED <<item, suspended, verdict>> /\ Requesting

commit_hide(r) ==
    /\ At(r, "hiding")
    /\ set_approved(request[r].target, request[r].approved, FALSE)
    /\ request' = [request EXCEPT ![r] = [@ EXCEPT !.pc = "done"]]
    /\ UNCHANGED <<suspended, verdict, audit>> /\ Requesting
-----------------------------------------------------------------------------
(* ModerableMixin.remove, called by a resolution: logged first.            *)
log_remove(r) ==
    LET i == request[r].target IN
    /\ At(r, "loaded") /\ request[r].op \in {"remove", "suspend"} /\ i \in Items
    /\ audit' = [audit EXCEPT !.removals = @ \cup {i}]
    /\ request' = [request EXCEPT ![r] =
           [@ EXCEPT !.pc = "removing", !.todo = {i},
                     !.unlisting = listed({i})]]
    /\ UNCHANGED <<item, suspended, verdict>> /\ Requesting

items_of(a) == {i \in Items : item[i].exists /\ Owner[i] = a}

(* Account.get_all_items: the items there are at this moment.              *)
get_all_items(r) ==
    LET mine == items_of(request[r].culprit) IN
    /\ At(r, "loaded") /\ request[r].op = "suspend_remove"
    /\ request' = [request EXCEPT ![r] =
           [@ EXCEPT !.pc = "removing", !.todo = mine,
                     !.unlisting = listed(mine)]]
    /\ UNCHANGED <<item, suspended, verdict, audit>> /\ Requesting

(* Setting is_removed of an upload renames its torrent's infohashes, in a  *)
(* session of its own that commits at once.                                *)
upload_remove_torrent(r) ==
    /\ At(r, "removing")
    /\ \E u \in request[r].unlisting :
          /\ item' = [item EXCEPT ![u].public_name = FALSE]
          /\ request' = [request EXCEPT ![r].unlisting = @ \ {u}]
    /\ UNCHANGED <<suspended, verdict, audit>> /\ Requesting

(* Mutant of rows_with_removal: the sweep adds no audit rows.              *)
no_rows(req) == {}

rows_with_removal(req) == IF req.op = "suspend_remove" THEN req.todo ELSE {}

(* The commit of is_removed.  Datasets and parts get their new slug in the *)
(* same commit, and a sweep its audit rows.                                *)
commit_removal(r) ==
    LET req == request[r] IN
    /\ At(r, "removing") /\ req.unlisting = {}
    /\ item' = [i \in Items |->
           IF i \in req.todo
           THEN [item[i] EXCEPT !.removed = TRUE,
                                !.public_name = i \in Uploads /\ item[i].public_name]
           ELSE item[i]]
    /\ audit' = [audit EXCEPT !.removals = @ \cup rows_with_removal(req)]
    /\ request' = [request EXCEPT ![r] = [@ EXCEPT !.pc = "removed"]]
    /\ UNCHANGED <<suspended, verdict>> /\ Requesting

(* deny_* and *_delete log after the removal.                              *)
log_removal(r) ==
    /\ At(r, "removed") /\ request[r].op \in {"deny", "delete"}
    /\ audit' = [audit EXCEPT !.removals = @ \cup request[r].todo]
    /\ Finish(r)
    /\ UNCHANGED <<item, suspended, verdict>> /\ Requesting
-----------------------------------------------------------------------------
(* Account.suspend, once what is reported, or everything, is removed.      *)
log_suspend(r) ==
    /\ request[r] # Idle
    /\ request[r].op \in {"suspend", "suspend_remove"}
    /\ \/ request[r].pc = "removed"
       \/ request[r].pc = "loaded" /\ request[r].op = "suspend" /\ request[r].target \in AccountIds
    /\ audit' = [audit EXCEPT !.suspensions = @ \cup {request[r].culprit}]
    /\ request' = [request EXCEPT ![r] = [@ EXCEPT !.pc = "suspending"]]
    /\ UNCHANGED <<item, suspended, verdict>> /\ Requesting

commit_suspension(r) ==
    /\ At(r, "suspending")
    /\ suspended' = suspended \cup {request[r].culprit}
    /\ request' = [request EXCEPT ![r] = [@ EXCEPT !.pc = "done"]]
    /\ UNCHANGED <<item, verdict, audit>> /\ Requesting

(* Mutant of carried_out: the report closes before the account is suspended*)
nearly_carried_out(req) ==
    \/ req.op = "dismiss" /\ req.pc = "loaded"
    \/ req.op \in {"remove", "suspend_remove"} /\ req.pc = "removed"
    \/ req.op \in {"hide", "suspend"} /\ req.pc = "done"

(* The action has been taken in full.                                      *)
carried_out(req) ==
    \/ req.op = "dismiss" /\ req.pc = "loaded"
    \/ req.op = "remove" /\ req.pc = "removed"
    \/ req.op \in {"hide", "suspend", "suspend_remove"} /\ req.pc = "done"

(* The last commit of Report.resolve                                       *)
close_report(r) ==
    /\ request[r] # Idle
    /\ carried_out(request[r])
    /\ verdict' = [p \in Reports |->
           IF p \in request[r].reports THEN request[r].op ELSE verdict[p]]
    /\ Finish(r)
    /\ UNCHANGED <<item, suspended, audit>> /\ Requesting

(* The worker dies, or a commit fails: the commits already made remain.    *)
Abort(r) ==
    /\ request[r] # Idle
    /\ Finish(r)
    /\ aborted' = TRUE
    /\ UNCHANGED <<item, suspended, verdict, audit, served, overlapped>>
-----------------------------------------------------------------------------
Load(r) ==
    \/ \E actor \in AccountIds, i \in Items :
          load_review(r, actor, i) \/ load_deny(r, actor, i) \/ load_delete(r, actor, i)
    \/ \E i \in Items : load_create(r, i)
    \/ \E actor \in AccountIds, p \in Reports, action \in ReportActions :
          load_resolve(r, actor, p, action)

Commit(r) ==
    \/ create_item(r)
    \/ commit_review(r) \/ log_review(r)
    \/ log_hide(r) \/ commit_hide(r)
    \/ log_remove(r) \/ get_all_items(r)
    \/ upload_remove_torrent(r) \/ commit_removal(r) \/ log_removal(r)
    \/ log_suspend(r) \/ commit_suspension(r)
    \/ close_report(r)

Next ==
    \/ \E p \in Reports : create_report(p)
    \/ \E r \in RequestIds : Load(r) \/ Commit(r) \/ Abort(r)

Spec == Init /\ [][Next]_vars
-----------------------------------------------------------------------------
Alone == ~ overlapped

(* The requests that still have to log a removal they have committed.      *)
WillLogRemoval(i) ==
    \E r \in InFlight : At(r, "removed") /\ i \in request[r].todo

(* Nothing is removed, and nobody suspended, behind the back of the audit  *)
(* log, whatever overlaps: some handlers log before the change and some    *)
(* after it in another transaction, and only a crash in between loses it.  *)
AuditComplete ==
    \/ aborted
    \/ /\ \A i \in Items : item[i].removed => i \in audit.removals \/ WillLogRemoval(i)
       /\ suspended \subseteq audit.suspensions

(* With no request in flight, an item is approved exactly if the newest    *)
(* audit row on its visibility says so, or it was when it was created:     *)
(* approve logs after the commit and hide before it, so this needs that no *)
(* request overlapped another or broke off.                                *)
AuditTellsVisibility ==
    Alone /\ ~ aborted /\ InFlight = {} =>
        \A i \in Items :
            item[i].approved <=>
                \/ audit.visibility[i] = "approve"
                \/ audit.visibility[i] = "none" /\ item[i].exists /\ auto_approved(i)

(* What the log says of items and accounts is so, and what has happened to *)
(* them is in the log.                                                     *)
AuditHolds == AuditComplete /\ AuditTellsVisibility

(* A removed item has lost its public name (the slug, the infohash), so it *)
(* can be posted anew, even if several requests removed it or one died; and*)
(* one that is not removed can be found, except while a request is removing*)
(* it, or after one died: the renaming of an infohash and the removal of   *)
(* its upload are two commits.                                             *)
NameIffPresent ==
    \A i \in Items :
        /\ item[i].removed => ~ item[i].public_name
        /\ i \in Uploads /\ ~ item[i].public_name /\ ~ item[i].removed =>
              \/ aborted
              \/ \E r \in InFlight : At(r, "removing") /\ i \in request[r].todo

(* "There must not already be an action taken against the report"          *)
(* (Report.action_allowed): a resolved report stays as it was resolved.    *)
(* And when a report closes with hide, its item is not visible; when it    *)
(* closes with suspend_remove, nothing the account posted is left.  All    *)
(* this takes requests that do not overlap: the report is read long before *)
(* the last commit writes it, and an item may be posted during the sweep.  *)
ResolvedOnceAndFully ==
    [][ Alone' => \A p \in Reports :
          /\ verdict[p] \in ReportActions => verdict'[p] = verdict[p]
          /\ verdict'[p] # verdict[p] =>
              /\ verdict'[p] = "hide" => ~ item[Target[p]].approved
              /\ verdict'[p] = "suspend_remove" =>
                    \A i \in Items : Owner[i] = reported_account(p) /\ item[i].exists
                                        => item[i].removed ]_vars

Desk == INSTANCE ReportDesk WITH
    Culprit <- [p \in Reports |-> reported_account(p)],
    removed <- {i \in Items : item[i].removed}

(* However requests overlap and break off, a report only ever closes with  *)
(* an action that has taken effect, and removals and suspensions hold.     *)
DeskSpec == Desk!Spec
=============================================================================
