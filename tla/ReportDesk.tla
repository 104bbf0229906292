----------------------------- MODULE ReportDesk -----------------------------
(***************************************************************************)
(* What moderation by report promises, without requests, commits and logs: *)
(* a report is opened once, and it is closed with an action only when that *)
(* action has taken effect.  Items are removed and accounts suspended for  *)
(* reasons of their own, and a removed item never returns.  Moderation     *)
(* implements this.                                                        *)
(***************************************************************************)
CONSTANTS
    Items,         \* datasets, dataset parts and uploads
    AccountIds,
    Reports,
    Target,        \* report -> the reported item or account
    Culprit        \* report -> the reported account, or the item's owner

VARIABLES
    verdict,       \* report -> "unopened", "open" or the action it closed with
    removed,       \* items that are removed
    suspended      \* accounts that are suspended

vars == <<verdict, removed, suspended>>

ReportActions == {"dismiss", "hide", "remove", "suspend", "suspend_remove"}

(* The lasting effects an action must have had before the report closes.   *)
TakenEffect(p, action) ==
    /\ action \in {"remove", "suspend"} /\ Target[p] \in Items => Target[p] \in removed
    /\ action \in {"suspend", "suspend_remove"} => Culprit[p] \in suspended

Init ==
    /\ verdict = [p \in Reports |-> "unopened"]
    /\ removed = {}
    /\ suspended = {}

Open(p) ==
    /\ verdict[p] = "unopened"
    /\ verdict' = [verdict EXCEPT ![p] = "open"]
    /\ UNCHANGED <<removed, suspended>>

Remove ==
    /\ \E gone \in SUBSET Items : removed' = removed \cup gone
    /\ UNCHANGED <<verdict, suspended>>

Suspend(a) ==
    /\ suspended' = suspended \cup {a}
    /\ UNCHANGED <<verdict, removed>>

(* Two moderators may close a report one over the other: each has done what*)
(* the action says.                                                        *)
Close(p, action) ==
    /\ verdict[p] # "unopened"
    /\ TakenEffect(p, action)
    /\ verdict' = [verdict EXCEPT ![p] = action]
    /\ UNCHANGED <<removed, suspended>>

Next ==
    \/ \E p \in Reports : Open(p)
    \/ Remove
    \/ \E a \in AccountIds : Suspend(a)
    \/ \E p \in Reports, action \in ReportActions : Close(p, action)

Spec == Init /\ [][Next]_vars
=============================================================================
