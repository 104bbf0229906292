-------------------------- MODULE ModerationProofs --------------------------
(***************************************************************************)
(* Proofs about Moderation, for all accounts, items and reports, and any   *)
(* number of requests: that every removal and suspension is in the audit   *)
(* log, that names are free exactly when their items are gone, that a      *)
(* report closes once and on what has been done, and that the whole        *)
(* implements ReportDesk.                                                  *)
(***************************************************************************)
EXTENDS Moderation, TLAPS

(* Which step belongs to which operation, and what it carries along.       *)
Ordered(q) ==
    /\ q.pc = "loaded" => q.op \notin {"deny", "delete"}
    /\ q.pc = "hiding" => q.op = "hide"
    /\ q.pc = "removing" => q.op \in {"deny", "delete", "remove", "suspend", "suspend_remove"}
    /\ q.pc = "removed" => q.op \in {"deny", "delete", "remove", "suspend", "suspend_remove"}
    /\ q.pc = "suspending" => q.op \in {"suspend", "suspend_remove"}
    /\ q.pc = "done" => q.op \in {"approve", "unapprove", "hide", "suspend", "suspend_remove"}
    /\ q.op \in ItemActions \cup {"hide", "remove"} => q.target \in Items
    /\ q.culprit = owner_of(q.target)
    /\ q.pc \in {"removing", "removed"} /\ q.op # "suspend_remove" => q.todo = {q.target}
    /\ q.unlisting \subseteq q.todo
    /\ \A p \in q.reports :
          q.op \in ReportActions /\ Target[p] = q.target /\ q.reports = {p}

(* What the commits of a request have brought about for good, whatever     *)
(* others do.                                                              *)
Achieved(q) ==
    /\ \A p \in q.reports : verdict[p] # "unopened"
    /\ q.op \in {"approve", "unapprove", "hide"} => item[q.target].exists
    /\ q.pc = "removing" =>
          \A u \in q.todo \cap Uploads : u \in q.unlisting \/ ~ item[u].public_name
    /\ q.pc \in {"removing", "removed"} /\ q.op \in {"remove", "suspend"} =>
          q.todo \subseteq audit.removals
    /\ q.pc = "removed" /\ q.op = "suspend_remove" => q.todo \subseteq audit.removals
    /\ q.pc = "suspending" => q.culprit \in audit.suspensions
    /\ q.pc \in {"removed", "suspending", "done"} =>
          (q.op \in {"remove", "suspend"} /\ q.target \in Items => item[q.target].removed)
    /\ q.pc = "done" /\ q.op \in {"suspend", "suspend_remove"} => q.culprit \in suspended

Carried == \A r \in InFlight : Ordered(request[r]) /\ Achieved(request[r])

(* Only what exists is reported, or has a row on its visibility.           *)
Existing ==
    /\ \A p \in Reports :
          verdict[p] # "unopened" /\ Target[p] \in Items => item[Target[p]].exists
    /\ \A i \in Items : audit.visibility[i] # "none" => item[i].exists

(* What a request without company may rely on.                             *)
Undisturbed(q) ==
    /\ \A p \in q.reports : verdict[p] = "open"
    /\ q.op \in {"approve", "unapprove"} /\ q.pc = "loaded" =>
          q.approved = item[q.target].approved
    /\ q.op \in {"approve", "unapprove"} /\ q.pc = "done" =>
          item[q.target].approved = (q.op = "approve")
    /\ q.op = "create" => ~ item[q.target].exists
    /\ q.pc = "hiding" =>
          q.approved = item[q.target].approved /\ audit.visibility[q.target] = "hide"
    /\ q.op = "hide" /\ q.pc = "done" => ~ item[q.target].approved
    /\ q.op = "suspend_remove" /\ q.pc = "removing" => items_of(q.culprit) \subseteq q.todo
    /\ q.op = "suspend_remove" /\ q.pc \in {"removed", "suspending", "done"} =>
          \A i \in items_of(q.culprit) : item[i].removed

(* The request is between its change of an item and the row on it.         *)
Between(q, i) ==
    /\ q.target = i
    /\ q.pc = "hiding" \/ (q.pc = "done" /\ q.op \in {"approve", "unapprove"})

Told(i) ==
    item[i].approved <=>
        \/ audit.visibility[i] = "approve"
        \/ audit.visibility[i] = "none" /\ item[i].exists /\ auto_approved(i)

Solo ==
    Alone =>
        /\ \A r, s \in InFlight : r = s
        /\ \A r \in InFlight : Undisturbed(request[r])
        /\ \/ aborted
           \/ \A i \in Items : Told(i) \/ \E r \in InFlight : Between(request[r], i)

Inv == TypeOK /\ Carried /\ Existing /\ NameIffPresent /\ AuditComplete /\ Solo
-----------------------------------------------------------------------------
(* The types of what is in the database.                                   *)
Typed ==
    /\ item \in [Items ->
          [exists : BOOLEAN, approved : BOOLEAN, removed : BOOLEAN, public_name : BOOLEAN]]
    /\ suspended \subseteq AccountIds
    /\ verdict \in [Reports -> {"unopened", "open"} \cup ReportActions]
    /\ audit \in [visibility : [Items -> {"none", "approve", "unapprove", "hide"}],
                  removals : SUBSET Items, suspensions : SUBSET AccountIds]

LEMMA InitInv == Init => Inv
<1>. SUFFICES ASSUME Init PROVE Inv
  OBVIOUS
<1>1. InFlight = {}
  BY DEF Init, InFlight
<1>2. \A i \in Items : item[i] = [exists |-> i \in Posted, approved |-> i \in Posted /\ auto_approved(i),
                                  removed |-> FALSE, public_name |-> TRUE]
  BY DEF Init
<1>3. /\ audit.visibility = [i \in Items |-> "none"] /\ audit.removals = {}
      /\ audit.suspensions = {}
  BY DEF Init
<1>4. Typed
  <2>1. \A i \in Items : auto_approved(i) \in BOOLEAN
    BY DEF auto_approved, has_scope
  <2>2. item \in [Items ->
          [exists : BOOLEAN, approved : BOOLEAN, removed : BOOLEAN, public_name : BOOLEAN]]
    BY <2>1 DEF Init
  <2>. QED  BY <2>2 DEF Init, Typed
<1>5. TypeOK
  <2>1. served \in 0..MaxRequests /\ request \in [RequestIds -> Requests \cup {Idle}]
    BY ModerationAssumption DEF Init
  <2>. QED  BY <1>4, <2>1 DEF Init, Typed, TypeOK
<1>6. Carried /\ Existing /\ NameIffPresent
  BY <1>1, <1>2, <1>3 DEF Carried, Existing, NameIffPresent, Init
<1>7. AuditComplete
  BY <1>2 DEF AuditComplete, Init
<1>8. ASSUME NEW i \in Items PROVE Told(i)
  <2>1. /\ item[i].exists <=> i \in Posted
        /\ item[i].approved <=> i \in Posted /\ auto_approved(i)
    <3>. DEFINE e == i \in Posted
                a == i \in Posted /\ auto_approved(i)
    <3>1. item[i] = [exists |-> e, approved |-> a, removed |-> FALSE, public_name |-> TRUE]
      BY <1>2
    <3>. HIDE DEF e, a
    <3>2. item[i].exists = e /\ item[i].approved = a
      BY <3>1
    <3>. QED  BY <3>2 DEF e, a
  <2>2. audit.visibility[i] = "none"
    BY <1>3
  <2>. QED  BY <2>1, <2>2 DEF Told
<1>9. Solo
  BY <1>1, <1>8 DEF Solo
<1>. QED  BY <1>5, <1>6, <1>7, <1>9 DEF Inv

LEMMA InFlightTypes ==
  ASSUME TypeOK, NEW r \in RequestIds
  PROVE  /\ r \in InFlight <=> request[r] \in Requests
         /\ r \in InFlight <=> request[r] # Idle
BY DEF TypeOK, InFlight, Requests, Idle, Steps

(* What no step takes back.                                                *)
Grows ==
    /\ \A i \in Items : /\ item[i].exists => item'[i].exists
                        /\ item[i].removed => item'[i].removed
                        /\ item'[i].public_name => item[i].public_name
    /\ \A p \in Reports : verdict[p] # "unopened" => verdict'[p] # "unopened"
    /\ suspended \subseteq suspended'
    /\ audit.removals \subseteq audit'.removals
    /\ audit.suspensions \subseteq audit'.suspensions

LEMMA AchievedLasts ==
  ASSUME Grows, NEW q \in Requests, Ordered(q), Achieved(q)
  PROVE  Achieved(q)'
<1>1. /\ \A p \in q.reports : p \in Reports
      /\ q.target \in Items \/ q.op \notin {"approve", "unapprove", "hide"}
      /\ q.todo \cap Uploads \subseteq Items
  BY ModerationAssumption DEF Requests, Ordered, ItemActions
<1>. QED  BY <1>1 DEF Grows, Achieved

(* How the step of a request from o to q treats names and the log.         *)
Named(o, q) ==
    /\ \A i \in Items : item'[i].removed => ~ item'[i].public_name
    /\ \A i \in Uploads : ~ item'[i].public_name /\ ~ item'[i].removed =>
          \/ ~ item[i].public_name /\ ~ (o.pc = "removing" /\ i \in o.todo)
          \/ q # Idle /\ q.pc = "removing" /\ i \in q.todo

Logged(o, q) ==
    /\ \A i \in Items : item'[i].removed =>
          \/ item[i].removed /\ ~ (o.pc = "removed" /\ i \in o.todo)
          \/ i \in audit'.removals
          \/ q # Idle /\ q.pc = "removed" /\ i \in q.todo
    /\ suspended' \subseteq suspended \cup audit'.suspensions

(* The same for the visibility of items, of a request without company.     *)
Telling(o, q) ==
    \A i \in Items :
        Told(i) \/ Between(o, i) => Told(i)' \/ (q # Idle /\ Between(q, i))

(* A request in flight goes on from o to q, or ends.                       *)
LEMMA Advance ==
  ASSUME Inv, NEW r \in RequestIds, NEW o \in Requests, o = request[r],
         NEW q \in Requests \cup {Idle},
         request' = [request EXCEPT ![r] = q], UNCHANGED <<served, overlapped, aborted>>,
         Typed', Grows, Existing', Named(o, q), Logged(o, q),
         q # Idle => Ordered(q) /\ Achieved(q)',
         Alone /\ q # Idle => Undisturbed(q)',
         Alone => Telling(o, q)
  PROVE  Inv'
<1>0. TypeOK /\ Carried /\ NameIffPresent /\ AuditComplete /\ Solo
  BY DEF Inv
<1>1. TypeOK'
  BY <1>0 DEF TypeOK, Typed
<1>2. request'[r] = q /\ \A s \in RequestIds : s # r => request'[s] = request[s]
  BY <1>0 DEF TypeOK
<1>3. /\ r \in InFlight /\ o # Idle /\ (q # Idle => q \in Requests)
      /\ \A s \in RequestIds : s # r => (s \in InFlight' <=> s \in InFlight)
      /\ r \in InFlight' <=> q # Idle
  BY <1>0, <1>2, InFlightTypes DEF InFlight
<1>4. Carried'
  <2>1. ASSUME NEW s \in RequestIds, s # r, s \in InFlight
        PROVE  Ordered(request[s])' /\ Achieved(request[s])'
    <3>1. PICK t \in Requests : t = request[s]
      BY <1>0, <2>1, InFlightTypes
    <3>2. Ordered(t) /\ Achieved(t)
      BY <1>0, <2>1, <3>1 DEF Carried
    <3>3. Achieved(t)' /\ request'[s] = t
      BY <1>2, <2>1, <3>1, <3>2, AchievedLasts
    <3>. QED  BY <3>2, <3>3 DEF Ordered, Achieved
  <2>2. ASSUME q # Idle PROVE Ordered(request[r])' /\ Achieved(request[r])'
    BY <1>2, <2>2 DEF Ordered, Achieved
  <2>. QED  BY <1>2, <1>3, <2>1, <2>2 DEF Carried, InFlight
<1>5. NameIffPresent'
  <2>. SUFFICES ASSUME NEW i \in Uploads, ~ item'[i].public_name, ~ item'[i].removed, ~ aborted
                PROVE  \E s \in InFlight' : At(s, "removing")' /\ i \in request'[s].todo
    BY DEF NameIffPresent, Named
  <2>0. i \in Items
    BY ModerationAssumption
  <2>1. CASE q # Idle /\ q.pc = "removing" /\ i \in q.todo
    BY <1>2, <1>3, <2>1 DEF At
  <2>2. CASE ~ item[i].public_name /\ ~ (o.pc = "removing" /\ i \in o.todo)
    <3>1. PICK s \in InFlight : At(s, "removing") /\ i \in request[s].todo
      BY <1>0, <2>0, <2>2 DEF NameIffPresent, Grows
    <3>2. s # r /\ s \in RequestIds
      BY <2>2, <3>1 DEF At, InFlight
    <3>. QED  BY <1>2, <1>3, <3>1, <3>2 DEF At
  <2>. QED  BY <2>1, <2>2 DEF Named
<1>6. AuditComplete'
  <2>. SUFFICES ASSUME ~ aborted PROVE AuditComplete'
    BY DEF AuditComplete
  <2>1. ASSUME NEW i \in Items, item'[i].removed
        PROVE  i \in audit'.removals \/ WillLogRemoval(i)'
    <3>1. CASE q # Idle /\ q.pc = "removed" /\ i \in q.todo
      BY <1>2, <1>3, <3>1 DEF At, WillLogRemoval
    <3>2. CASE item[i].removed /\ ~ (o.pc = "removed" /\ i \in o.todo) /\ i \notin audit.removals
      <4>1. PICK s \in InFlight : At(s, "removed") /\ i \in request[s].todo
        BY <1>0, <3>2 DEF AuditComplete, WillLogRemoval
      <4>2. s # r /\ s \in RequestIds
        BY <3>2, <4>1 DEF At, InFlight
      <4>. QED  BY <1>2, <1>3, <4>1, <4>2 DEF At, WillLogRemoval
    <3>. QED  BY <2>1, <3>1, <3>2 DEF Logged, Grows
  <2>2. suspended' \subseteq audit'.suspensions
    BY <1>0 DEF AuditComplete, Logged, Grows
  <2>. QED  BY <2>1, <2>2 DEF AuditComplete
<1>7. Solo'
  <2>. SUFFICES ASSUME Alone PROVE Solo'
    BY DEF Solo, Alone
  <2>1. InFlight = {r}
    BY <1>0, <1>3 DEF Solo
  <2>2. \A s \in InFlight' : s = r /\ q # Idle
    BY <1>3, <2>1 DEF InFlight
  <2>3. q # Idle => Undisturbed(request[r])'
    BY <1>2 DEF Undisturbed
  <2>4. ASSUME ~ aborted, NEW i \in Items
        PROVE  Told(i)' \/ \E s \in InFlight' : Between(request[s], i)'
    <3>1. Told(i) \/ Between(o, i)
      BY <1>0, <2>1, <2>4 DEF Solo
    <3>. QED  BY <1>2, <1>3, <3>1 DEF Telling, Between
  <2>. QED  BY <2>2, <2>3, <2>4 DEF Solo
<1>. QED  BY <1>1, <1>4, <1>5, <1>6, <1>7 DEF Inv
-----------------------------------------------------------------------------
(* A request starts, on what it has just loaded.                           *)
LEMMA StartInv ==
  ASSUME Inv, NEW r \in RequestIds, NEW op \in ItemActions \cup ReportActions,
         NEW actor \in AccountIds, NEW target \in Items \cup AccountIds,
         NEW reports \in SUBSET Reports, NEW todo \in SUBSET Items,
         Start(r, op, actor, target, reports, todo),
         op \in ItemActions \cup {"hide", "remove"} => target \in Items,
         op \in {"deny", "delete"} => todo = {target},
         op \in {"approve", "unapprove", "hide"} => item[target].exists,
         op = "create" => ~ item[target].exists,
         \A p \in reports : /\ op \in ReportActions /\ Target[p] = target /\ reports = {p}
                            /\ verdict[p] = "open"
  PROVE  Inv'
<1>. DEFINE pc == IF op \in {"deny", "delete"} THEN "removing" ELSE "loaded"
            approved == target \in Items /\ item[target].approved
            new == [pc |-> pc, op |-> op, actor |-> actor, target |-> target,
                    culprit |-> owner_of(target), reports |-> reports,
                    approved |-> approved, todo |-> todo, unlisting |-> listed(todo)]
<1>0. TypeOK /\ Carried /\ Existing /\ NameIffPresent /\ AuditComplete /\ Solo
  BY DEF Inv
<1>1. /\ request[r] = Idle /\ served < MaxRequests /\ served' = served + 1
      /\ request' = [request EXCEPT ![r] = new]
      /\ overlapped' = (overlapped \/ InFlight # {})
      /\ UNCHANGED <<item, suspended, verdict, audit, aborted>>
  BY DEF Start
<1>2. /\ owner_of(target) \in AccountIds
      /\ listed(todo) \subseteq todo \cap Uploads
      /\ approved \in BOOLEAN
      /\ target \in Items => approved = item[target].approved
  <2>1. owner_of(target) \in AccountIds
    BY ModerationAssumption DEF owner_of
  <2>2. target \in Items => item[target].approved \in BOOLEAN
    BY <1>0 DEF TypeOK
  <2>. QED  BY <2>1, <2>2 DEF listed
<1>. HIDE DEF approved
<1>3. PICK q \in Requests :
        /\ q = new
        /\ q.pc = pc /\ q.op = op /\ q.target = target /\ q.culprit = owner_of(target)
        /\ q.reports = reports /\ q.approved = approved /\ q.todo = todo
        /\ q.unlisting = listed(todo)
  <2>1. pc \in Steps
    BY DEF Steps
  <2>. HIDE DEF pc
  <2>2. new \in Requests
    BY <1>2, <2>1 DEF Requests
  <2>. QED  BY <2>2
<1>. HIDE DEF new
<1>4. request'[r] = q /\ \A s \in RequestIds : s # r => request'[s] = request[s]
  BY <1>0, <1>1, <1>3 DEF TypeOK
<1>5. InFlight' = InFlight \cup {r} /\ r \notin InFlight
  BY <1>1, <1>4 DEF InFlight, Requests, Idle, Steps
<1>6. Ordered(q)
  BY <1>2, <1>3 DEF Ordered, ItemActions, ReportActions
<1>7. Achieved(q)
  <2>1. \A u \in Items : u \in listed(todo) \/ u \notin todo \cap Uploads \/ ~ item[u].public_name
    BY <1>0 DEF listed, NameIffPresent
  <2>. QED  BY <1>3, <2>1 DEF Achieved
<1>8. TypeOK'
  <2>1. served' \in 0..MaxRequests
    BY <1>0, <1>1, ModerationAssumption DEF TypeOK
  <2>2. overlapped' \in BOOLEAN
    BY <1>0, <1>1 DEF TypeOK
  <2>. QED  BY <1>0, <1>1, <1>3, <2>1, <2>2 DEF TypeOK
<1>9. Carried'
  <2>1. ASSUME NEW s \in InFlight PROVE Ordered(request[s])' /\ Achieved(request[s])'
    <3>1. request'[s] = request[s]
      BY <1>4, <1>5, <2>1 DEF InFlight
    <3>. QED  BY <1>0, <1>1, <2>1, <3>1 DEF Carried, Ordered, Achieved
  <2>2. Ordered(request[r])' /\ Achieved(request[r])'
    BY <1>1, <1>4, <1>6, <1>7 DEF Ordered, Achieved
  <2>. QED  BY <1>5, <2>1, <2>2 DEF Carried
<1>10. \A s \in InFlight : s \in InFlight' /\ request'[s] = request[s]
  BY <1>4, <1>5 DEF InFlight
<1>11. Existing' /\ NameIffPresent' /\ AuditComplete'
  BY <1>0, <1>1, <1>10 DEF Existing, NameIffPresent, AuditComplete, WillLogRemoval, At
<1>12. Solo'
  <2>. SUFFICES ASSUME Alone' PROVE Solo'
    BY DEF Solo
  <2>1. Alone /\ InFlight = {} /\ InFlight' = {r}
    BY <1>1, <1>5 DEF Alone
  <2>2. Undisturbed(request[r])'
    <3>1. q.op \in {"approve", "unapprove"} => q.approved = item[q.target].approved
      BY <1>2, <1>3 DEF ItemActions
    <3>2. Undisturbed(q)
      BY <1>3, <3>1 DEF Undisturbed
    <3>. QED  BY <1>1, <1>4, <3>2 DEF Undisturbed, items_of
  <2>3. aborted' \/ \A i \in Items : Told(i)'
    BY <1>0, <1>1, <2>1 DEF Solo, Told
  <2>. QED  BY <2>1, <2>2, <2>3 DEF Solo
<1>. QED  BY <1>8, <1>9, <1>11, <1>12 DEF Inv

LEMMA LoadInv ==
  ASSUME Inv, NEW r \in RequestIds, Load(r)
  PROVE  Inv'
<1>0. TypeOK /\ Existing
  BY DEF Inv
<1>1. CASE \E actor \in AccountIds, i \in Items : load_review(r, actor, i)
  <2>1. PICK actor \in AccountIds, i \in Items, op \in {"approve", "unapprove"} :
          item[i].exists /\ Start(r, op, actor, i, {}, {})
    BY <1>1 DEF load_review
  <2>. QED  BY <2>1, StartInv DEF ItemActions, ReportActions
<1>2. CASE \E actor \in AccountIds, i \in Items : load_deny(r, actor, i) \/ load_delete(r, actor, i)
  <2>1. PICK actor \in AccountIds, i \in Items, op \in {"deny", "delete"} :
          Start(r, op, actor, i, {}, {i})
    BY <1>2 DEF load_deny, load_delete
  <2>. QED  BY <2>1, StartInv DEF ItemActions, ReportActions
<1>3. CASE \E i \in Items : load_create(r, i)
  <2>1. PICK i \in Items : ~ item[i].exists /\ Start(r, "create", Owner[i], i, {}, {})
    BY <1>3 DEF load_create
  <2>2. Owner[i] \in AccountIds
    BY ModerationAssumption
  <2>. QED  BY <2>1, <2>2, StartInv DEF ItemActions, ReportActions
<1>4. CASE \E actor \in AccountIds, p \in Reports, action \in ReportActions :
              load_resolve(r, actor, p, action)
  <2>1. PICK actor \in AccountIds, p \in Reports, action \in ReportActions :
          load_resolve(r, actor, p, action)
    BY <1>4
  <2>2. /\ verdict[p] = "open" /\ (action \in {"hide", "remove"} => Target[p] \in Items)
        /\ Start(r, action, actor, Target[p], {p}, {})
        /\ Target[p] \in Items \cup AccountIds
    BY <2>1, ModerationAssumption DEF load_resolve, action_allowed, is_open
  <2>3. action = "hide" => item[Target[p]].exists
    BY <1>0, <2>2 DEF Existing
  <2>. QED  BY <2>2, <2>3, StartInv DEF ItemActions, ReportActions
<1>. QED  BY <1>1, <1>2, <1>3, <1>4 DEF Load

(* A report is made: only its verdict changes.                             *)
LEMMA ReportInv ==
  ASSUME Inv, NEW p \in Reports, create_report(p)
  PROVE  Inv'
<1>0. TypeOK /\ Carried /\ Existing /\ NameIffPresent /\ AuditComplete /\ Solo
  BY DEF Inv
<1>1. /\ verdict[p] = "unopened" /\ verdict' = [verdict EXCEPT ![p] = "open"]
      /\ Target[p] \in Items => item[Target[p]].exists
      /\ UNCHANGED <<item, suspended, audit, request, served, overlapped, aborted>>
  BY DEF create_report, Requesting
<1>2. verdict'[p] = "open" /\ \A x \in Reports : x # p => verdict'[x] = verdict[x]
  BY <1>0, <1>1 DEF TypeOK
<1>3. TypeOK'
  BY <1>0, <1>1 DEF TypeOK
<1>4. Grows
  BY <1>1, <1>2 DEF Grows
<1>5. InFlight' = InFlight
  BY <1>1 DEF InFlight
<1>6. Carried'
  <2>. SUFFICES ASSUME NEW r \in InFlight PROVE Ordered(request[r])' /\ Achieved(request[r])'
    BY <1>5 DEF Carried
  <2>1. PICK q \in Requests : q = request[r]
    BY <1>0, InFlightTypes DEF InFlight
  <2>2. Ordered(q) /\ Achieved(q)
    BY <1>0, <2>1 DEF Carried
  <2>3. Achieved(q)' /\ request'[r] = q
    BY <1>1, <1>4, <2>1, <2>2, AchievedLasts
  <2>. QED  BY <2>2, <2>3 DEF Ordered, Achieved
<1>7. Existing'
  BY <1>0, <1>1, <1>2 DEF Existing
<1>8. NameIffPresent' /\ AuditComplete'
  BY <1>0, <1>1, <1>5 DEF NameIffPresent, AuditComplete, WillLogRemoval, At
<1>9. Solo'
  <2>. SUFFICES ASSUME Alone PROVE Solo'
    BY <1>1 DEF Solo, Alone
  <2>1. ASSUME NEW r \in InFlight PROVE Undisturbed(request[r])'
    <3>1. request[r] \in Requests
      BY <1>0, InFlightTypes DEF InFlight
    <3>2. \A x \in request[r].reports : x \in Reports /\ verdict[x] = "open"
      BY <1>0, <3>1 DEF Solo, Undisturbed, Requests
    <3>3. \A x \in request[r].reports : verdict'[x] = "open"
      BY <1>2, <3>2
    <3>. QED  BY <1>0, <1>1, <3>3 DEF Solo, Undisturbed, items_of
  <2>. QED  BY <1>0, <1>1, <1>5, <2>1 DEF Solo, Told
<1>. QED  BY <1>3, <1>6, <1>7, <1>8, <1>9 DEF Inv

(* A request breaks off.                                                   *)
LEMMA AbortInv ==
  ASSUME Inv, NEW r \in RequestIds, Abort(r)
  PROVE  Inv'
<1>0. TypeOK /\ Carried /\ Existing /\ NameIffPresent /\ AuditComplete /\ Solo
  BY DEF Inv
<1>1. /\ request' = [request EXCEPT ![r] = Idle] /\ aborted' = TRUE
      /\ UNCHANGED <<item, suspended, verdict, audit, served, overlapped>>
  BY DEF Abort, Finish
<1>2. \A s \in InFlight' : s \in InFlight /\ request'[s] = request[s]
  BY <1>0, <1>1 DEF TypeOK, InFlight
<1>3. TypeOK'
  BY <1>0, <1>1 DEF TypeOK
<1>4. Carried'
  BY <1>0, <1>1, <1>2 DEF Carried, Ordered, Achieved
<1>5. Existing' /\ NameIffPresent' /\ AuditComplete'
  BY <1>0, <1>1 DEF Existing, NameIffPresent, AuditComplete
<1>6. Solo'
  BY <1>0, <1>1, <1>2 DEF Solo, Alone, Undisturbed, items_of
<1>. QED  BY <1>3, <1>4, <1>5, <1>6 DEF Inv
-----------------------------------------------------------------------------
LEMMA InHand ==
  ASSUME Inv, NEW r \in RequestIds, request[r] # Idle
  PROVE  \E o \in Requests :
            /\ o = request[r] /\ Ordered(o) /\ Achieved(o)
            /\ Alone => Undisturbed(o)
<1>1. r \in InFlight /\ request[r] \in Requests
  BY InFlightTypes DEF Inv
<1>. QED  BY <1>1 DEF Inv, Carried, Solo

(* A request at its next step, the rest of it the same.                    *)
LEMMA Moved ==
  ASSUME NEW o \in Requests, NEW pc \in Steps
  PROVE  \E q \in Requests :
            /\ q = [o EXCEPT !.pc = pc] /\ q # Idle
            /\ q.pc = pc /\ q.op = o.op /\ q.target = o.target /\ q.culprit = o.culprit
            /\ q.reports = o.reports /\ q.approved = o.approved
            /\ q.todo = o.todo /\ q.unlisting = o.unlisting
<1>1. [o EXCEPT !.pc = pc] \in Requests
  BY DEF Requests
<1>2. \A q \in Requests : q # Idle
  BY DEF Requests, Idle, Steps
<1>. QED  BY <1>1, <1>2 DEF Requests

(* The same, with the items it is to remove.                               *)
LEMMA MovedTo ==
  ASSUME NEW o \in Requests, NEW todo \in SUBSET Items
  PROVE  \E q \in Requests :
            /\ q = [o EXCEPT !.pc = "removing", !.todo = todo, !.unlisting = listed(todo)]
            /\ q # Idle
            /\ q.pc = "removing" /\ q.op = o.op /\ q.target = o.target /\ q.culprit = o.culprit
            /\ q.reports = o.reports /\ q.approved = o.approved
            /\ q.todo = todo /\ q.unlisting = listed(todo)
<1>1. [o EXCEPT !.pc = "removing", !.todo = todo, !.unlisting = listed(todo)] \in Requests
  BY DEF Requests, Steps, listed
<1>2. \A q \in Requests : q # Idle
  BY DEF Requests, Idle, Steps
<1>. QED  BY <1>1, <1>2 DEF Requests

LEMMA SetApproved ==
  ASSUME TypeOK, NEW i \in Items, NEW copy \in BOOLEAN, NEW value \in BOOLEAN,
         set_approved(i, copy, value)
  PROVE  /\ item' \in [Items ->
               [exists : BOOLEAN, approved : BOOLEAN, removed : BOOLEAN, public_name : BOOLEAN]]
         /\ \A x \in Items : /\ item'[x].exists <=> item[x].exists
                             /\ item'[x].removed <=> item[x].removed
                             /\ item'[x].public_name <=> item[x].public_name
                             /\ x # i => (item'[x].approved <=> item[x].approved)
         /\ copy = item[i].approved => (item'[i].approved <=> value)
<1>1. CASE copy # value
  <2>1. item' = [item EXCEPT ![i].approved = value]
    BY <1>1 DEF set_approved
  <2>2. item'[i] = [item[i] EXCEPT !.approved = value] /\ \A x \in Items : x # i => item'[x] = item[x]
    BY <2>1 DEF TypeOK
  <2>3. /\ item'[i].approved = value
        /\ item'[i].exists <=> item[i].exists
        /\ item'[i].removed <=> item[i].removed
        /\ item'[i].public_name <=> item[i].public_name
    BY <2>2 DEF TypeOK
  <2>. QED  BY <2>1, <2>2, <2>3 DEF TypeOK
<1>2. CASE copy = value
  BY <1>2 DEF set_approved, TypeOK
<1>. QED  BY <1>1, <1>2

(* A step that leaves items alone and adds no removal nor suspension.      *)
LEMMA SameItems ==
  ASSUME Inv, UNCHANGED item
  PROVE  \A i \in Items : item'[i].removed => ~ item'[i].public_name
BY DEF Inv, NameIffPresent

LEMMA CreateInv ==
  ASSUME Inv, NEW r \in RequestIds, create_item(r)
  PROVE  Inv'
<1>0. TypeOK /\ Existing /\ NameIffPresent
  BY DEF Inv
<1>1. PICK o \in Requests : /\ o = request[r] /\ Ordered(o) /\ Achieved(o)
                            /\ Alone => Undisturbed(o)
  BY InHand DEF create_item, At
<1>2. /\ o.pc = "loaded" /\ o.op = "create" /\ o.target \in Items
      /\ item' = [item EXCEPT ![o.target] =
             [@ EXCEPT !.exists = TRUE, !.approved = auto_approved(o.target)]]
      /\ request' = [request EXCEPT ![r] = Idle]
      /\ UNCHANGED <<suspended, verdict, audit, served, overlapped, aborted>>
  BY <1>1 DEF create_item, At, Finish, Requesting, Ordered, ItemActions
<1>3. auto_approved(o.target) \in BOOLEAN
  BY DEF auto_approved, has_scope
<1>4. PICK a \in BOOLEAN : a = auto_approved(o.target)
  BY <1>3
<1>5. item' = [item EXCEPT ![o.target] = [@ EXCEPT !.exists = TRUE, !.approved = a]]
  BY <1>2, <1>4
<1>6. /\ \A x \in Items : x # o.target => item'[x] = item[x]
      /\ item'[o.target] = [item[o.target] EXCEPT !.exists = TRUE, !.approved = a]
  BY <1>0, <1>2, <1>5 DEF TypeOK
<1>7. /\ item'[o.target].exists
      /\ item'[o.target].approved <=> a
      /\ item'[o.target].removed <=> item[o.target].removed
      /\ item'[o.target].public_name <=> item[o.target].public_name
      /\ item'[o.target] \in
            [exists : BOOLEAN, approved : BOOLEAN, removed : BOOLEAN, public_name : BOOLEAN]
  <2>1. PICK x \in [exists : BOOLEAN, approved : BOOLEAN, removed : BOOLEAN, public_name : BOOLEAN] :
          x = item[o.target]
    BY <1>0, <1>2 DEF TypeOK
  <2>2. item'[o.target] = [x EXCEPT !.exists = TRUE, !.approved = a]
    BY <1>6, <2>1
  <2>. QED  BY <2>1, <2>2
<1>8. Typed'
  <2>1. item' = [item EXCEPT ![o.target] = item'[o.target]]
    BY <1>0, <1>2, <1>5, <1>6 DEF TypeOK
  <2>. QED  BY <1>0, <1>2, <1>7, <2>1 DEF Typed, TypeOK
<1>9. Grows
  BY <1>2, <1>6, <1>7 DEF Grows
<1>10. Existing'
  BY <1>0, <1>2, <1>9 DEF Existing, Grows
<1>11. Named(o, Idle) /\ Logged(o, Idle)
  BY <1>0, <1>2, <1>6, <1>7 DEF Named, Logged, NameIffPresent
<1>12. Alone => Telling(o, Idle)
  <2>. SUFFICES ASSUME Alone, NEW i \in Items, Told(i) PROVE Told(i)'
    BY <1>2 DEF Telling, Between
  <2>1. CASE i = o.target
    <3>1. audit'.visibility[i] = "none"
      BY <1>0, <1>1, <1>2, <2>1 DEF Undisturbed, Existing
    <3>2. item'[i].approved = auto_approved(i) /\ item'[i].exists
      BY <1>4, <1>7, <2>1
    <3>. QED  BY <3>1, <3>2 DEF Told, auto_approved
  <2>2. CASE i # o.target
    BY <1>2, <1>6, <2>2 DEF Told
  <2>. QED  BY <2>1, <2>2
<1>. QED  BY <1>1, <1>2, <1>8, <1>9, <1>10, <1>11, <1>12, Advance

LEMMA ReviewInv ==
  ASSUME Inv, NEW r \in RequestIds, commit_review(r)
  PROVE  Inv'
<1>0. TypeOK /\ Existing /\ NameIffPresent
  BY DEF Inv
<1>1. PICK o \in Requests : /\ o = request[r] /\ Ordered(o) /\ Achieved(o)
                            /\ Alone => Undisturbed(o)
  BY InHand DEF commit_review, At
<1>2. PICK q \in Requests :
            /\ q = [o EXCEPT !.pc = "done"] /\ q # Idle
            /\ q.pc = "done" /\ q.op = o.op /\ q.target = o.target /\ q.culprit = o.culprit
            /\ q.reports = o.reports /\ q.approved = o.approved
            /\ q.todo = o.todo /\ q.unlisting = o.unlisting
  BY Moved DEF Steps
<1>3. /\ o.pc = "loaded" /\ o.op \in {"approve", "unapprove"} /\ o.target \in Items
      /\ set_approved(o.target, o.approved, o.op = "approve")
      /\ request' = [request EXCEPT ![r] = q]
      /\ UNCHANGED <<suspended, verdict, audit, served, overlapped, aborted>>
  BY <1>1, <1>2 DEF commit_review, At, Requesting, Ordered, ItemActions
<1>4. PICK value \in BOOLEAN : value = (o.op = "approve")
  OBVIOUS
<1>5. /\ item' \in [Items ->
               [exists : BOOLEAN, approved : BOOLEAN, removed : BOOLEAN, public_name : BOOLEAN]]
      /\ \A x \in Items : /\ item'[x].exists <=> item[x].exists
                          /\ item'[x].removed <=> item[x].removed
                          /\ item'[x].public_name <=> item[x].public_name
                          /\ x # o.target => (item'[x].approved <=> item[x].approved)
      /\ o.approved = item[o.target].approved => (item'[o.target].approved <=> value)
  <2>1. o.approved \in BOOLEAN
    BY DEF Requests
  <2>2. set_approved(o.target, o.approved, value)
    BY <1>3, <1>4
  <2>. QED  BY <1>0, <1>3, <2>1, <2>2, SetApproved
<1>6. Typed'
  BY <1>0, <1>3, <1>5 DEF Typed, TypeOK
<1>7. Grows
  BY <1>3, <1>5 DEF Grows
<1>8. Existing'
  BY <1>0, <1>3, <1>5 DEF Existing
<1>9. Named(o, q) /\ Logged(o, q)
  <2>1. Named(o, q)
    BY <1>0, <1>2, <1>3, <1>5, ModerationAssumption DEF Named, NameIffPresent
  <2>2. Logged(o, q)
    BY <1>2, <1>3, <1>5 DEF Logged
  <2>. QED  BY <2>1, <2>2
<1>10. Ordered(q)
  BY <1>1, <1>2, <1>3 DEF Ordered
<1>11. Achieved(q)'
  <2>1. Achieved(q)
    BY <1>1, <1>2, <1>3 DEF Achieved
  <2>. QED  BY <1>7, <1>10, <2>1, AchievedLasts
<1>12. Alone => Undisturbed(q)'
  BY <1>1, <1>2, <1>3, <1>4, <1>5 DEF Undisturbed
<1>13. Alone => Telling(o, q)
  BY <1>2, <1>3, <1>5 DEF Telling, Between, Told
<1>. QED
  BY <1>1, <1>2, <1>3, <1>6, <1>7, <1>8, <1>9, <1>10, <1>11, <1>12, <1>13, Advance
-----------------------------------------------------------------------------
(* A row on the visibility of an item.                                     *)
LEMMA RowOnVisibility ==
  ASSUME TypeOK, NEW i \in Items, NEW row \in {"approve", "unapprove", "hide"},
         audit' = [audit EXCEPT !.visibility[i] = row],
         UNCHANGED <<item, suspended, verdict>>
  PROVE  /\ Typed' /\ Grows
         /\ audit'.removals = audit.removals /\ audit'.suspensions = audit.suspensions
         /\ audit'.visibility[i] = row
         /\ \A x \in Items : x # i => audit'.visibility[x] = audit.visibility[x]
<1>1. audit \in [visibility : [Items -> {"none", "approve", "unapprove", "hide"}],
                 removals : SUBSET Items, suspensions : SUBSET AccountIds]
  BY DEF TypeOK
<1>2. /\ audit' \in [visibility : [Items -> {"none", "approve", "unapprove", "hide"}],
                     removals : SUBSET Items, suspensions : SUBSET AccountIds]
      /\ audit'.removals = audit.removals /\ audit'.suspensions = audit.suspensions
      /\ audit'.visibility = [audit.visibility EXCEPT ![i] = row]
  BY <1>1
<1>3. Typed'
  BY <1>2 DEF TypeOK, Typed
<1>4. Grows
  BY <1>2 DEF Grows
<1>5. /\ audit'.visibility[i] = row
      /\ \A x \in Items : x # i => audit'.visibility[x] = audit.visibility[x]
  BY <1>1, <1>2
<1>. QED  BY <1>2, <1>3, <1>4, <1>5

(* Rows of removals, and of a suspension.                                  *)
LEMMA RowsOfRemoval ==
  ASSUME TypeOK, NEW gone \in SUBSET Items, audit' = [audit EXCEPT !.removals = @ \cup gone]
  PROVE  /\ audit' \in [visibility : [Items -> {"none", "approve", "unapprove", "hide"}],
                        removals : SUBSET Items, suspensions : SUBSET AccountIds]
         /\ audit'.visibility = audit.visibility /\ audit'.suspensions = audit.suspensions
         /\ audit'.removals = audit.removals \cup gone
<1>1. audit \in [visibility : [Items -> {"none", "approve", "unapprove", "hide"}],
                 removals : SUBSET Items, suspensions : SUBSET AccountIds]
  BY DEF TypeOK
<1>. QED  BY <1>1

LEMMA RowOfSuspension ==
  ASSUME TypeOK, NEW a \in AccountIds, audit' = [audit EXCEPT !.suspensions = @ \cup {a}]
  PROVE  /\ audit' \in [visibility : [Items -> {"none", "approve", "unapprove", "hide"}],
                        removals : SUBSET Items, suspensions : SUBSET AccountIds]
         /\ audit'.visibility = audit.visibility /\ audit'.removals = audit.removals
         /\ audit'.suspensions = audit.suspensions \cup {a}
<1>1. audit \in [visibility : [Items -> {"none", "approve", "unapprove", "hide"}],
                 removals : SUBSET Items, suspensions : SUBSET AccountIds]
  BY DEF TypeOK
<1>. QED  BY <1>1

LEMMA LogReviewInv ==
  ASSUME Inv, NEW r \in RequestIds, log_review(r)
  PROVE  Inv'
<1>0. TypeOK /\ Existing /\ NameIffPresent
  BY DEF Inv
<1>1. PICK o \in Requests : /\ o = request[r] /\ Ordered(o) /\ Achieved(o)
                            /\ Alone => Undisturbed(o)
  BY InHand DEF log_review, At
<1>2. /\ o.pc = "done" /\ o.op \in {"approve", "unapprove"} /\ o.target \in Items
      /\ audit' = [audit EXCEPT !.visibility[o.target] = o.op]
      /\ request' = [request EXCEPT ![r] = Idle]
      /\ UNCHANGED <<item, suspended, verdict, served, overlapped, aborted>>
  BY <1>1 DEF log_review, visibility_row, At, Finish, Requesting, Ordered, ItemActions
<1>3. /\ Typed' /\ Grows
      /\ audit'.removals = audit.removals /\ audit'.suspensions = audit.suspensions
      /\ audit'.visibility[o.target] = o.op
      /\ \A x \in Items : x # o.target => audit'.visibility[x] = audit.visibility[x]
  BY <1>0, <1>2, RowOnVisibility
<1>4. Existing'
  BY <1>0, <1>1, <1>2, <1>3 DEF Existing, Achieved
<1>5. Named(o, Idle) /\ Logged(o, Idle)
  BY <1>0, <1>2, <1>3, ModerationAssumption DEF Named, Logged, NameIffPresent
<1>6. Alone => Telling(o, Idle)
  <2>. SUFFICES ASSUME Alone, NEW i \in Items, Told(i) \/ Between(o, i) PROVE Told(i)'
    BY DEF Telling
  <2>1. CASE i = o.target
    <3>1. item[i].approved = (o.op = "approve")
      BY <1>1, <1>2, <2>1 DEF Undisturbed
    <3>. QED  BY <1>2, <1>3, <2>1, <3>1 DEF Told
  <2>2. CASE i # o.target
    BY <1>2, <1>3, <2>2 DEF Told, Between
  <2>. QED  BY <2>1, <2>2
<1>. QED  BY <1>1, <1>2, <1>3, <1>4, <1>5, <1>6, Advance

LEMMA LogHideInv ==
  ASSUME Inv, NEW r \in RequestIds, log_hide(r)
  PROVE  Inv'
<1>0. TypeOK /\ Existing /\ NameIffPresent
  BY DEF Inv
<1>1. PICK o \in Requests : /\ o = request[r] /\ Ordered(o) /\ Achieved(o)
                            /\ Alone => Undisturbed(o)
  BY InHand DEF log_hide, At
<1>2. /\ o.pc = "loaded" /\ o.op = "hide" /\ o.target \in Items
      /\ audit' = [audit EXCEPT !.visibility[o.target] = "hide"]
      /\ request' = [request EXCEPT ![r] =
             [o EXCEPT !.pc = "hiding", !.approved = item[o.target].approved]]
      /\ UNCHANGED <<item, suspended, verdict, served, overlapped, aborted>>
  <2>1. o.pc = "loaded" /\ o.op = "hide" /\ o.target \in Items
    BY <1>1 DEF log_hide, At, Ordered
  <2>2. request' = [request EXCEPT ![r] =
             [request[r] EXCEPT !.pc = "hiding", !.approved = item[o.target].approved]]
    BY <1>1, <1>0 DEF log_hide, TypeOK
  <2>. QED  BY <1>1, <2>1, <2>2 DEF log_hide, Requesting
<1>3. PICK q \in Requests :
            /\ q # Idle /\ request' = [request EXCEPT ![r] = q]
            /\ q.pc = "hiding" /\ q.op = o.op /\ q.target = o.target /\ q.culprit = o.culprit
            /\ q.reports = o.reports /\ q.approved = item[o.target].approved
            /\ q.todo = o.todo /\ q.unlisting = o.unlisting
  <2>1. PICK a \in BOOLEAN : a = item[o.target].approved
    BY <1>0, <1>2 DEF TypeOK
  <2>2. [o EXCEPT !.pc = "hiding", !.approved = a] \in Requests
    BY DEF Requests, Steps
  <2>3. \A q \in Requests : q # Idle
    BY DEF Requests, Idle, Steps
  <2>. QED  BY <1>2, <2>1, <2>2, <2>3 DEF Requests
<1>4. /\ Typed' /\ Grows
      /\ audit'.removals = audit.removals /\ audit'.suspensions = audit.suspensions
      /\ audit'.visibility[o.target] = "hide"
      /\ \A x \in Items : x # o.target => audit'.visibility[x] = audit.visibility[x]
  BY <1>0, <1>2, RowOnVisibility
<1>5. Existing'
  BY <1>0, <1>1, <1>2, <1>4 DEF Existing, Achieved
<1>6. Named(o, q) /\ Logged(o, q)
  BY <1>0, <1>2, <1>3, <1>4, ModerationAssumption DEF Named, Logged, NameIffPresent
<1>7. Ordered(q)
  BY <1>1, <1>2, <1>3 DEF Ordered
<1>8. Achieved(q)'
  <2>1. Achieved(q)
    BY <1>1, <1>2, <1>3 DEF Achieved
  <2>. QED  BY <1>4, <1>7, <2>1, AchievedLasts
<1>9. Alone => Undisturbed(q)'
  BY <1>1, <1>2, <1>3, <1>4 DEF Undisturbed
<1>10. Alone => Telling(o, q)
  BY <1>2, <1>3, <1>4 DEF Telling, Between, Told
<1>. QED
  BY <1>1, <1>2, <1>3, <1>4, <1>5, <1>6, <1>7, <1>8, <1>9, <1>10, Advance

LEMMA HideInv ==
  ASSUME Inv, NEW r \in RequestIds, commit_hide(r)
  PROVE  Inv'
<1>0. TypeOK /\ Existing /\ NameIffPresent
  BY DEF Inv
<1>1. PICK o \in Requests : /\ o = request[r] /\ Ordered(o) /\ Achieved(o)
                            /\ Alone => Undisturbed(o)
  BY InHand DEF commit_hide, At
<1>2. PICK q \in Requests :
            /\ q = [o EXCEPT !.pc = "done"] /\ q # Idle
            /\ q.pc = "done" /\ q.op = o.op /\ q.target = o.target /\ q.culprit = o.culprit
            /\ q.reports = o.reports /\ q.approved = o.approved
            /\ q.todo = o.todo /\ q.unlisting = o.unlisting
  BY Moved DEF Steps
<1>3. /\ o.pc = "hiding" /\ o.op = "hide" /\ o.target \in Items
      /\ set_approved(o.target, o.approved, FALSE)
      /\ request' = [request EXCEPT ![r] = q]
      /\ UNCHANGED <<suspended, verdict, audit, served, overlapped, aborted>>
  BY <1>1, <1>2 DEF commit_hide, At, Requesting, Ordered
<1>4. /\ item' \in [Items ->
               [exists : BOOLEAN, approved : BOOLEAN, removed : BOOLEAN, public_name : BOOLEAN]]
      /\ \A x \in Items : /\ item'[x].exists <=> item[x].exists
                          /\ item'[x].removed <=> item[x].removed
                          /\ item'[x].public_name <=> item[x].public_name
                          /\ x # o.target => (item'[x].approved <=> item[x].approved)
      /\ o.approved = item[o.target].approved => ~ item'[o.target].approved
  <2>1. o.approved \in BOOLEAN
    BY DEF Requests
  <2>. QED  BY <1>0, <1>3, <2>1, SetApproved
<1>5. Typed'
  BY <1>0, <1>3, <1>4 DEF Typed, TypeOK
<1>6. Grows
  BY <1>3, <1>4 DEF Grows
<1>7. Existing'
  BY <1>0, <1>3, <1>4 DEF Existing
<1>8. Named(o, q) /\ Logged(o, q)
  <2>1. Named(o, q)
    BY <1>0, <1>2, <1>3, <1>4, ModerationAssumption DEF Named, NameIffPresent
  <2>2. Logged(o, q)
    BY <1>2, <1>3, <1>4 DEF Logged
  <2>. QED  BY <2>1, <2>2
<1>9. Ordered(q)
  BY <1>1, <1>2, <1>3 DEF Ordered
<1>10. Achieved(q)'
  <2>1. Achieved(q)
    BY <1>1, <1>2, <1>3 DEF Achieved
  <2>. QED  BY <1>6, <1>9, <2>1, AchievedLasts
<1>11. Alone => Undisturbed(q)'
  BY <1>1, <1>2, <1>3, <1>4 DEF Undisturbed
<1>12. Alone => Telling(o, q)
  <2>. SUFFICES ASSUME Alone, NEW i \in Items, Told(i) \/ Between(o, i) PROVE Told(i)'
    BY DEF Telling
  <2>1. CASE i = o.target
    BY <1>1, <1>3, <1>4, <2>1 DEF Told, Undisturbed
  <2>2. CASE i # o.target
    BY <1>3, <1>4, <2>2 DEF Told, Between
  <2>. QED  BY <2>1, <2>2
<1>. QED
  BY <1>1, <1>2, <1>3, <1>5, <1>6, <1>7, <1>8, <1>9, <1>10, <1>11, <1>12, Advance
-----------------------------------------------------------------------------
LEMMA LogRemoveInv ==
  ASSUME Inv, NEW r \in RequestIds, log_remove(r)
  PROVE  Inv'
<1>0. TypeOK /\ Existing /\ NameIffPresent
  BY DEF Inv
<1>1. PICK o \in Requests : /\ o = request[r] /\ Ordered(o) /\ Achieved(o)
                            /\ Alone => Undisturbed(o)
  BY InHand DEF log_remove, At
<1>2. /\ o.pc = "loaded" /\ o.op \in {"remove", "suspend"} /\ o.target \in Items
      /\ audit' = [audit EXCEPT !.removals = @ \cup {o.target}]
      /\ UNCHANGED <<item, suspended, verdict, served, overlapped, aborted>>
  BY <1>1 DEF log_remove, At, Requesting
<1>3. PICK q \in Requests :
            /\ q = [o EXCEPT !.pc = "removing", !.todo = {o.target}, !.unlisting = listed({o.target})]
            /\ q # Idle
            /\ q.pc = "removing" /\ q.op = o.op /\ q.target = o.target /\ q.culprit = o.culprit
            /\ q.reports = o.reports /\ q.approved = o.approved
            /\ q.todo = {o.target} /\ q.unlisting = listed({o.target})
  <2>1. PICK todo \in SUBSET Items : todo = {o.target}
    BY <1>2
  <2>2. \E q \in Requests :
            /\ q = [o EXCEPT !.pc = "removing", !.todo = todo, !.unlisting = listed(todo)]
            /\ q # Idle
            /\ q.pc = "removing" /\ q.op = o.op /\ q.target = o.target /\ q.culprit = o.culprit
            /\ q.reports = o.reports /\ q.approved = o.approved
            /\ q.todo = todo /\ q.unlisting = listed(todo)
    BY MovedTo
  <2>. QED  BY <2>1, <2>2
<1>4. request' = [request EXCEPT ![r] = q]
  BY <1>0, <1>1, <1>3 DEF log_remove, TypeOK
<1>5. /\ audit' \in [visibility : [Items -> {"none", "approve", "unapprove", "hide"}],
                     removals : SUBSET Items, suspensions : SUBSET AccountIds]
      /\ audit'.visibility = audit.visibility /\ audit'.suspensions = audit.suspensions
      /\ audit'.removals = audit.removals \cup {o.target}
  <2>1. PICK gone \in SUBSET Items : gone = {o.target}
    BY <1>2
  <2>2. audit' = [audit EXCEPT !.removals = @ \cup gone]
    BY <1>2, <2>1
  <2>. QED  BY <1>0, <2>1, <2>2, RowsOfRemoval
<1>6. Typed' /\ Grows
  BY <1>0, <1>2, <1>5 DEF Typed, TypeOK, Grows
<1>7. Existing'
  BY <1>0, <1>2, <1>5 DEF Existing
<1>8. Named(o, q) /\ Logged(o, q)
  BY <1>0, <1>2, <1>3, <1>5, ModerationAssumption DEF Named, Logged, NameIffPresent
<1>9. Ordered(q)
  BY <1>1, <1>2, <1>3 DEF Ordered, listed
<1>10. Achieved(q)'
  <2>1. \A u \in Items : u \in listed({o.target}) \/ u # o.target \/ u \notin Uploads
                            \/ ~ item[u].public_name
    BY <1>0 DEF listed, NameIffPresent
  <2>. QED  BY <1>1, <1>2, <1>3, <1>5, <2>1 DEF Achieved
<1>11. Alone => Undisturbed(q)'
  BY <1>1, <1>2, <1>3, <1>5 DEF Undisturbed
<1>12. Alone => Telling(o, q)
  BY <1>2, <1>3, <1>5 DEF Telling, Between, Told
<1>. QED
  BY <1>1, <1>2, <1>3, <1>4, <1>6, <1>7, <1>8, <1>9, <1>10, <1>11, <1>12, Advance

LEMMA AllItemsInv ==
  ASSUME Inv, NEW r \in RequestIds, get_all_items(r)
  PROVE  Inv'
<1>0. TypeOK /\ Existing /\ NameIffPresent
  BY DEF Inv
<1>1. PICK o \in Requests : /\ o = request[r] /\ Ordered(o) /\ Achieved(o)
                            /\ Alone => Undisturbed(o)
  BY InHand DEF get_all_items, At
<1>2. /\ o.pc = "loaded" /\ o.op = "suspend_remove"
      /\ UNCHANGED <<item, suspended, verdict, audit, served, overlapped, aborted>>
  BY <1>1 DEF get_all_items, At, Requesting
<1>3. PICK mine \in SUBSET Items : mine = items_of(o.culprit)
  BY DEF items_of
<1>4. PICK q \in Requests :
            /\ q = [o EXCEPT !.pc = "removing", !.todo = mine, !.unlisting = listed(mine)]
            /\ q # Idle
            /\ q.pc = "removing" /\ q.op = o.op /\ q.target = o.target /\ q.culprit = o.culprit
            /\ q.reports = o.reports /\ q.approved = o.approved
            /\ q.todo = mine /\ q.unlisting = listed(mine)
  BY MovedTo
<1>5. request' = [request EXCEPT ![r] = q]
  BY <1>0, <1>1, <1>3, <1>4 DEF get_all_items, TypeOK
<1>6. Typed' /\ Grows
  BY <1>0, <1>2 DEF Typed, TypeOK, Grows
<1>7. Existing'
  BY <1>0, <1>2 DEF Existing
<1>8. Named(o, q) /\ Logged(o, q)
  BY <1>0, <1>2, <1>4, ModerationAssumption DEF Named, Logged, NameIffPresent
<1>9. Ordered(q)
  BY <1>1, <1>2, <1>4 DEF Ordered, listed
<1>10. Achieved(q)'
  <2>1. \A u \in Items : u \in listed(mine) \/ u \notin mine \cap Uploads \/ ~ item[u].public_name
    BY <1>0 DEF listed, NameIffPresent
  <2>. QED  BY <1>1, <1>2, <1>4, <2>1 DEF Achieved
<1>11. Alone => Undisturbed(q)'
  BY <1>1, <1>2, <1>3, <1>4 DEF Undisturbed, items_of
<1>12. Alone => Telling(o, q)
  BY <1>2, <1>4 DEF Telling, Between, Told
<1>. QED
  BY <1>1, <1>2, <1>4, <1>5, <1>6, <1>7, <1>8, <1>9, <1>10, <1>11, <1>12, Advance

LEMMA RenameInv ==
  ASSUME Inv, NEW r \in RequestIds, upload_remove_torrent(r)
  PROVE  Inv'
<1>. DEFINE States == [exists : BOOLEAN, approved : BOOLEAN, removed : BOOLEAN, public_name : BOOLEAN]
<1>0. TypeOK /\ Existing /\ NameIffPresent
  BY DEF Inv
<1>1. PICK o \in Requests : /\ o = request[r] /\ Ordered(o) /\ Achieved(o)
                            /\ Alone => Undisturbed(o)
  BY InHand DEF upload_remove_torrent, At
<1>2. PICK u \in o.unlisting :
        /\ item' = [item EXCEPT ![u].public_name = FALSE]
        /\ request' = [request EXCEPT ![r].unlisting = @ \ {u}]
  BY <1>1 DEF upload_remove_torrent
<1>3. /\ o.pc = "removing" /\ u \in Items /\ u \in Uploads /\ u \in o.todo
      /\ UNCHANGED <<suspended, verdict, audit, served, overlapped, aborted>>
  BY <1>1, ModerationAssumption DEF upload_remove_torrent, At, Requesting, Ordered, Requests
<1>4. PICK q \in Requests :
            /\ q = [o EXCEPT !.unlisting = @ \ {u}] /\ q # Idle
            /\ q.pc = o.pc /\ q.op = o.op /\ q.target = o.target /\ q.culprit = o.culprit
            /\ q.reports = o.reports /\ q.approved = o.approved
            /\ q.todo = o.todo /\ q.unlisting = o.unlisting \ {u}
  <2>1. [o EXCEPT !.unlisting = @ \ {u}] \in Requests
    BY DEF Requests
  <2>2. \A q \in Requests : q # Idle
    BY DEF Requests, Idle, Steps
  <2>. QED  BY <2>1, <2>2 DEF Requests
<1>5. request' = [request EXCEPT ![r] = q]
  <2>1. [request[r] EXCEPT !.unlisting = @ \ {u}] = q
    BY <1>1, <1>4
  <2>2. request' = [request EXCEPT ![r] = [request[r] EXCEPT !.unlisting = @ \ {u}]]
    BY <1>0, <1>2 DEF TypeOK
  <2>. QED  BY <2>1, <2>2
<1>6. /\ item' \in [Items -> States]
      /\ \A x \in Items : /\ item'[x].exists <=> item[x].exists
                          /\ item'[x].removed <=> item[x].removed
                          /\ item'[x].approved <=> item[x].approved
                          /\ item'[x].public_name <=> item[x].public_name /\ x # u
  <2>1. item'[u] = [item[u] EXCEPT !.public_name = FALSE] /\ \A x \in Items : x # u => item'[x] = item[x]
    BY <1>0, <1>2, <1>3 DEF TypeOK
  <2>2. item[u] \in States
    BY <1>0, <1>3 DEF TypeOK
  <2>3. /\ item'[u] \in States
        /\ item'[u].exists <=> item[u].exists
        /\ item'[u].removed <=> item[u].removed
        /\ item'[u].approved <=> item[u].approved
        /\ ~ item'[u].public_name
    BY <2>1, <2>2
  <2>4. item' = [item EXCEPT ![u] = item'[u]]
    BY <1>0, <1>2, <2>1 DEF TypeOK
  <2>. QED  BY <1>0, <2>1, <2>3, <2>4 DEF TypeOK
<1>7. Typed'
  BY <1>0, <1>3, <1>6 DEF Typed, TypeOK
<1>8. Grows
  BY <1>3, <1>6 DEF Grows
<1>9. Existing'
  BY <1>0, <1>3, <1>6 DEF Existing
<1>10. Named(o, q) /\ Logged(o, q)
  <2>1. Named(o, q)
    BY <1>0, <1>3, <1>4, <1>6, ModerationAssumption DEF Named, NameIffPresent
  <2>2. Logged(o, q)
    BY <1>3, <1>6 DEF Logged
  <2>. QED  BY <2>1, <2>2
<1>11. Ordered(q)
  BY <1>1, <1>4 DEF Ordered
<1>12. Achieved(q)'
  <2>1. q.op \notin {"approve", "unapprove", "hide"}
    BY <1>1, <1>3, <1>4 DEF Ordered
  <2>2. \A x \in q.todo \cap Uploads : x \in q.unlisting \/ ~ item'[x].public_name
    BY <1>1, <1>3, <1>4, <1>6, ModerationAssumption DEF Achieved
  <2>. QED  BY <1>1, <1>3, <1>4, <2>1, <2>2 DEF Achieved
<1>13. Alone => Undisturbed(q)'
  <2>1. items_of(q.culprit)' = items_of(q.culprit)
    BY <1>6 DEF items_of
  <2>. QED  BY <1>1, <1>3, <1>4, <1>6, <2>1 DEF Undisturbed, Ordered
<1>14. Alone => Telling(o, q)
  BY <1>3, <1>4, <1>6 DEF Telling, Between, Told
<1>. QED
  BY <1>1, <1>3, <1>4, <1>5, <1>7, <1>8, <1>9, <1>10, <1>11, <1>12, <1>13, <1>14, Advance

LEMMA RemovalInv ==
  ASSUME Inv, NEW r \in RequestIds, commit_removal(r)
  PROVE  Inv'
<1>. DEFINE States == [exists : BOOLEAN, approved : BOOLEAN, removed : BOOLEAN, public_name : BOOLEAN]
<1>0. TypeOK /\ Existing /\ NameIffPresent
  BY DEF Inv
<1>1. PICK o \in Requests : /\ o = request[r] /\ Ordered(o) /\ Achieved(o)
                            /\ Alone => Undisturbed(o)
  BY InHand DEF commit_removal, At
<1>2. PICK q \in Requests :
            /\ q = [o EXCEPT !.pc = "removed"] /\ q # Idle
            /\ q.pc = "removed" /\ q.op = o.op /\ q.target = o.target /\ q.culprit = o.culprit
            /\ q.reports = o.reports /\ q.approved = o.approved
            /\ q.todo = o.todo /\ q.unlisting = o.unlisting
  BY Moved DEF Steps
<1>3. PICK gone \in SUBSET Items : gone = rows_with_removal(o)
  BY DEF rows_with_removal, Requests
<1>4. /\ o.pc = "removing" /\ o.unlisting = {} /\ o.todo \subseteq Items
      /\ item' = [i \in Items |->
             IF i \in o.todo
             THEN [item[i] EXCEPT !.removed = TRUE,
                                  !.public_name = i \in Uploads /\ item[i].public_name]
             ELSE item[i]]
      /\ audit' = [audit EXCEPT !.removals = @ \cup gone]
      /\ request' = [request EXCEPT ![r] = q]
      /\ UNCHANGED <<suspended, verdict, served, overlapped, aborted>>
  BY <1>1, <1>2, <1>3 DEF commit_removal, At, Requesting, Requests
<1>5. ASSUME NEW x \in Items
      PROVE  /\ item'[x] \in States
             /\ item'[x].exists <=> item[x].exists
             /\ item'[x].removed <=> item[x].removed \/ x \in o.todo
             /\ item'[x].approved <=> item[x].approved
             /\ item'[x].public_name <=> item[x].public_name /\ (x \in o.todo => x \in Uploads)
  <2>1. item[x] \in States
    BY <1>0 DEF TypeOK
  <2>2. CASE x \in o.todo
    <3>1. PICK n \in BOOLEAN : n = (x \in Uploads /\ item[x].public_name)
      OBVIOUS
    <3>2. item'[x] = [item[x] EXCEPT !.removed = TRUE, !.public_name = n]
      BY <1>4, <2>2, <3>1
    <3>. QED  BY <2>1, <2>2, <3>1, <3>2
  <2>3. CASE x \notin o.todo
    BY <1>4, <2>1, <2>3
  <2>. QED  BY <2>2, <2>3
<1>6. /\ audit' \in [visibility : [Items -> {"none", "approve", "unapprove", "hide"}],
                     removals : SUBSET Items, suspensions : SUBSET AccountIds]
      /\ audit'.visibility = audit.visibility /\ audit'.suspensions = audit.suspensions
      /\ audit'.removals = audit.removals \cup gone
  BY <1>0, <1>4, RowsOfRemoval
<1>7. Typed'
  BY <1>0, <1>4, <1>5, <1>6 DEF Typed, TypeOK
<1>8. Grows
  BY <1>4, <1>5, <1>6 DEF Grows
<1>9. Existing'
  BY <1>0, <1>4, <1>5, <1>6 DEF Existing
<1>10. Named(o, q) /\ Logged(o, q)
  <2>1. Named(o, q)
    <3>1. \A i \in o.todo \cap Uploads : ~ item[i].public_name
      BY <1>1, <1>4 DEF Achieved
    <3>2. \A i \in Items : item[i].removed => ~ item[i].public_name
      BY <1>0 DEF NameIffPresent
    <3>. QED  BY <1>4, <1>5, <3>1, <3>2, ModerationAssumption DEF Named
  <2>2. Logged(o, q)
    BY <1>2, <1>4, <1>5 DEF Logged
  <2>. QED  BY <2>1, <2>2
<1>11. Ordered(q)
  BY <1>1, <1>2, <1>4 DEF Ordered
<1>12. Achieved(q)'
  <2>1. q.op \notin {"approve", "unapprove", "hide"}
    BY <1>1, <1>2, <1>4 DEF Ordered
  <2>2. q.op \in {"remove", "suspend"} /\ q.target \in Items => item'[q.target].removed
    BY <1>1, <1>2, <1>4, <1>5 DEF Ordered
  <2>3. q.op = "suspend_remove" => q.todo \subseteq audit'.removals
    BY <1>2, <1>3, <1>6 DEF rows_with_removal
  <2>4. q.op \in {"remove", "suspend"} => q.todo \subseteq audit'.removals
    BY <1>1, <1>2, <1>4, <1>6 DEF Achieved
  <2>5. \A p \in q.reports : verdict'[p] # "unopened"
    BY <1>1, <1>2, <1>4 DEF Achieved
  <2>. QED  BY <1>2, <2>1, <2>2, <2>3, <2>4, <2>5 DEF Achieved
<1>13. Alone => Undisturbed(q)'
  <2>. SUFFICES ASSUME Alone PROVE Undisturbed(q)'
    OBVIOUS
  <2>1. items_of(q.culprit)' = items_of(q.culprit)
    BY <1>5 DEF items_of
  <2>2. o.op = "suspend_remove" => \A i \in items_of(q.culprit) : item'[i].removed
    BY <1>1, <1>2, <1>4, <1>5 DEF Undisturbed
  <2>3. q.op \in {"deny", "delete", "remove", "suspend", "suspend_remove"}
    BY <1>1, <1>2, <1>4 DEF Ordered
  <2>4. \A p \in q.reports : verdict'[p] = "open"
    BY <1>1, <1>2, <1>4 DEF Undisturbed
  <2>. QED  BY <1>2, <2>1, <2>2, <2>3, <2>4 DEF Undisturbed
<1>14. Alone => Telling(o, q)
  BY <1>2, <1>4, <1>5, <1>6 DEF Telling, Between, Told
<1>. QED
  BY <1>1, <1>2, <1>4, <1>7, <1>8, <1>9, <1>10, <1>11, <1>12, <1>13, <1>14, Advance

LEMMA LogRemovalInv ==
  ASSUME Inv, NEW r \in RequestIds, log_removal(r)
  PROVE  Inv'
<1>0. TypeOK /\ Existing /\ NameIffPresent
  BY DEF Inv
<1>1. PICK o \in Requests : /\ o = request[r] /\ Ordered(o) /\ Achieved(o)
                            /\ Alone => Undisturbed(o)
  BY InHand DEF log_removal, At
<1>2. /\ o.pc = "removed" /\ o.op \in {"deny", "delete"} /\ o.todo \in SUBSET Items
      /\ audit' = [audit EXCEPT !.removals = @ \cup o.todo]
      /\ request' = [request EXCEPT ![r] = Idle]
      /\ UNCHANGED <<item, suspended, verdict, served, overlapped, aborted>>
  BY <1>1 DEF log_removal, At, Finish, Requesting, Requests
<1>3. /\ audit' \in [visibility : [Items -> {"none", "approve", "unapprove", "hide"}],
                     removals : SUBSET Items, suspensions : SUBSET AccountIds]
      /\ audit'.visibility = audit.visibility /\ audit'.suspensions = audit.suspensions
      /\ audit'.removals = audit.removals \cup o.todo
  BY <1>0, <1>2, RowsOfRemoval
<1>4. Typed' /\ Grows
  BY <1>0, <1>2, <1>3 DEF Typed, TypeOK, Grows
<1>5. Existing'
  BY <1>0, <1>2, <1>3 DEF Existing
<1>6. Named(o, Idle) /\ Logged(o, Idle)
  BY <1>0, <1>2, <1>3, ModerationAssumption DEF Named, Logged, NameIffPresent
<1>7. Alone => Telling(o, Idle)
  BY <1>2, <1>3 DEF Telling, Between, Told
<1>. QED  BY <1>1, <1>2, <1>4, <1>5, <1>6, <1>7, Advance
-----------------------------------------------------------------------------
LEMMA LogSuspendInv ==
  ASSUME Inv, NEW r \in RequestIds, log_suspend(r)
  PROVE  Inv'
<1>0. TypeOK /\ Existing /\ NameIffPresent
  BY DEF Inv
<1>1. PICK o \in Requests : /\ o = request[r] /\ Ordered(o) /\ Achieved(o)
                            /\ Alone => Undisturbed(o)
  BY InHand DEF log_suspend, At
<1>2. PICK q \in Requests :
            /\ q = [o EXCEPT !.pc = "suspending"] /\ q # Idle
            /\ q.pc = "suspending" /\ q.op = o.op /\ q.target = o.target /\ q.culprit = o.culprit
            /\ q.reports = o.reports /\ q.approved = o.approved
            /\ q.todo = o.todo /\ q.unlisting = o.unlisting
  BY Moved DEF Steps
<1>3. /\ o.op \in {"suspend", "suspend_remove"} /\ o.culprit \in AccountIds
      /\ \/ o.pc = "removed"
         \/ o.pc = "loaded" /\ o.op = "suspend" /\ o.target \in AccountIds
      /\ audit' = [audit EXCEPT !.suspensions = @ \cup {o.culprit}]
      /\ request' = [request EXCEPT ![r] = q]
      /\ UNCHANGED <<item, suspended, verdict, served, overlapped, aborted>>
  BY <1>1, <1>2 DEF log_suspend, Requesting, Requests
<1>4. /\ audit' \in [visibility : [Items -> {"none", "approve", "unapprove", "hide"}],
                     removals : SUBSET Items, suspensions : SUBSET AccountIds]
      /\ audit'.visibility = audit.visibility /\ audit'.removals = audit.removals
      /\ audit'.suspensions = audit.suspensions \cup {o.culprit}
  BY <1>0, <1>3, RowOfSuspension
<1>5. Typed' /\ Grows
  BY <1>0, <1>3, <1>4 DEF Typed, TypeOK, Grows
<1>6. Existing'
  BY <1>0, <1>3, <1>4 DEF Existing
<1>7. Named(o, q) /\ Logged(o, q)
  <2>1. Named(o, q)
    BY <1>0, <1>3, ModerationAssumption DEF Named, NameIffPresent
  <2>2. o.pc = "removed" => o.todo \subseteq audit'.removals
    BY <1>1, <1>3, <1>4 DEF Achieved
  <2>. QED  BY <1>3, <2>1, <2>2 DEF Logged
<1>8. Ordered(q)
  BY <1>1, <1>2, <1>3 DEF Ordered
<1>9. Achieved(q)'
  <2>1. o.pc = "loaded" => q.target \notin Items
    BY <1>2, <1>3, ModerationAssumption
  <2>2. o.pc = "removed" /\ q.op = "suspend" /\ q.target \in Items => item[q.target].removed
    BY <1>1, <1>2 DEF Achieved
  <2>. QED  BY <1>1, <1>2, <1>3, <1>4, <2>1, <2>2 DEF Achieved
<1>10. Alone => Undisturbed(q)'
  <2>. SUFFICES ASSUME Alone PROVE Undisturbed(q)'
    OBVIOUS
  <2>1. q.op = "suspend_remove" => \A i \in items_of(q.culprit) : item[i].removed
    BY <1>1, <1>2, <1>3 DEF Undisturbed
  <2>2. items_of(q.culprit)' = items_of(q.culprit)
    BY <1>3 DEF items_of
  <2>3. \A p \in q.reports : verdict'[p] = "open"
    BY <1>1, <1>2, <1>3 DEF Undisturbed
  <2>. QED  BY <1>2, <1>3, <2>1, <2>2, <2>3 DEF Undisturbed
<1>11. Alone => Telling(o, q)
  BY <1>2, <1>3, <1>4 DEF Telling, Between, Told
<1>. QED
  BY <1>1, <1>2, <1>3, <1>5, <1>6, <1>7, <1>8, <1>9, <1>10, <1>11, Advance

LEMMA SuspensionInv ==
  ASSUME Inv, NEW r \in RequestIds, commit_suspension(r)
  PROVE  Inv'
<1>0. TypeOK /\ Existing /\ NameIffPresent
  BY DEF Inv
<1>1. PICK o \in Requests : /\ o = request[r] /\ Ordered(o) /\ Achieved(o)
                            /\ Alone => Undisturbed(o)
  BY InHand DEF commit_suspension, At
<1>2. PICK q \in Requests :
            /\ q = [o EXCEPT !.pc = "done"] /\ q # Idle
            /\ q.pc = "done" /\ q.op = o.op /\ q.target = o.target /\ q.culprit = o.culprit
            /\ q.reports = o.reports /\ q.approved = o.approved
            /\ q.todo = o.todo /\ q.unlisting = o.unlisting
  BY Moved DEF Steps
<1>3. /\ o.pc = "suspending" /\ o.op \in {"suspend", "suspend_remove"}
      /\ o.culprit \in AccountIds /\ o.culprit \in audit.suspensions
      /\ suspended' = suspended \cup {o.culprit}
      /\ request' = [request EXCEPT ![r] = q]
      /\ UNCHANGED <<item, verdict, audit, served, overlapped, aborted>>
  BY <1>1, <1>2 DEF commit_suspension, At, Requesting, Requests, Ordered, Achieved
<1>4. Typed' /\ Grows
  BY <1>0, <1>3 DEF Typed, TypeOK, Grows
<1>5. Existing'
  BY <1>0, <1>3 DEF Existing
<1>6. Named(o, q) /\ Logged(o, q)
  BY <1>0, <1>3, ModerationAssumption DEF Named, Logged, NameIffPresent
<1>7. Ordered(q)
  BY <1>1, <1>2, <1>3 DEF Ordered
<1>8. Achieved(q)'
  BY <1>1, <1>2, <1>3 DEF Achieved
<1>9. Alone => Undisturbed(q)'
  <2>. SUFFICES ASSUME Alone PROVE Undisturbed(q)'
    OBVIOUS
  <2>1. q.op = "suspend_remove" => \A i \in items_of(q.culprit) : item[i].removed
    BY <1>1, <1>2, <1>3 DEF Undisturbed
  <2>2. items_of(q.culprit)' = items_of(q.culprit)
    BY <1>3 DEF items_of
  <2>3. \A p \in q.reports : verdict'[p] = "open"
    BY <1>1, <1>2, <1>3 DEF Undisturbed
  <2>. QED  BY <1>2, <1>3, <2>1, <2>2, <2>3 DEF Undisturbed
<1>10. Alone => Telling(o, q)
  BY <1>2, <1>3 DEF Telling, Between, Told
<1>. QED
  BY <1>1, <1>2, <1>3, <1>4, <1>5, <1>6, <1>7, <1>8, <1>9, <1>10, Advance

(* What the request has in hand when it closes the report.                 *)
LEMMA Closing ==
  ASSUME Inv, NEW r \in RequestIds, close_report(r)
  PROVE  \E o \in Requests :
            /\ o = request[r] /\ Ordered(o) /\ Achieved(o) /\ (Alone => Undisturbed(o))
            /\ o.op \in ReportActions
            /\ o.pc = CASE o.op = "dismiss" -> "loaded"
                        [] o.op = "remove" -> "removed"
                        [] OTHER -> "done"
            /\ \A p \in Reports : verdict'[p] = IF p \in o.reports THEN o.op ELSE verdict[p]
            /\ verdict' = [p \in Reports |-> IF p \in o.reports THEN o.op ELSE verdict[p]]
            /\ request' = [request EXCEPT ![r] = Idle]
            /\ UNCHANGED <<item, suspended, audit, served, overlapped, aborted>>
<1>1. PICK o \in Requests : /\ o = request[r] /\ Ordered(o) /\ Achieved(o)
                            /\ Alone => Undisturbed(o)
  BY InHand DEF close_report
<1>2. carried_out(o)
  BY <1>1 DEF close_report
<1>3. o.op \in ReportActions /\ o.pc = CASE o.op = "dismiss" -> "loaded"
                                        [] o.op = "remove" -> "removed"
                                        [] OTHER -> "done"
  BY <1>2 DEF carried_out, ReportActions
<1>. QED  BY <1>1, <1>3 DEF close_report, Finish, Requesting

LEMMA CloseInv ==
  ASSUME Inv, NEW r \in RequestIds, close_report(r)
  PROVE  Inv'
<1>0. TypeOK /\ Existing /\ NameIffPresent
  BY DEF Inv
<1>1. PICK o \in Requests :
            /\ o = request[r] /\ Ordered(o) /\ Achieved(o) /\ (Alone => Undisturbed(o))
            /\ o.op \in ReportActions
            /\ o.pc = CASE o.op = "dismiss" -> "loaded"
                        [] o.op = "remove" -> "removed"
                        [] OTHER -> "done"
            /\ \A p \in Reports : verdict'[p] = IF p \in o.reports THEN o.op ELSE verdict[p]
            /\ verdict' = [p \in Reports |-> IF p \in o.reports THEN o.op ELSE verdict[p]]
            /\ request' = [request EXCEPT ![r] = Idle]
            /\ UNCHANGED <<item, suspended, audit, served, overlapped, aborted>>
  BY Closing
<1>2. o.pc # "removing" /\ o.pc # "hiding" /\ (o.pc = "removed" => o.op = "remove")
  BY <1>1
<1>3. Typed' /\ Grows
  BY <1>0, <1>1 DEF Typed, TypeOK, Grows, ReportActions
<1>4. Existing'
  BY <1>0, <1>1 DEF Existing, Achieved
<1>5. Named(o, Idle) /\ Logged(o, Idle)
  BY <1>0, <1>1, <1>2, ModerationAssumption DEF Named, Logged, NameIffPresent, Achieved
<1>6. Alone => Telling(o, Idle)
  BY <1>1, <1>2 DEF Telling, Between, Told, ReportActions
<1>. QED  BY <1>1, <1>3, <1>4, <1>5, <1>6, Advance

LEMMA StepInv == Inv /\ [Next]_vars => Inv'
<1>. SUFFICES ASSUME Inv, [Next]_vars PROVE Inv'
  OBVIOUS
<1>1. CASE \E p \in Reports : create_report(p)
  BY <1>1, ReportInv
<1>2. CASE \E r \in RequestIds : Load(r) \/ Commit(r) \/ Abort(r)
  <2>1. PICK r \in RequestIds : Load(r) \/ Commit(r) \/ Abort(r)
    BY <1>2
  <2>2. CASE Load(r) \/ Abort(r)
    BY <2>2, LoadInv, AbortInv
  <2>3. CASE create_item(r) \/ commit_review(r) \/ log_review(r) \/ log_hide(r) \/ commit_hide(r)
    BY <2>3, CreateInv, ReviewInv, LogReviewInv, LogHideInv, HideInv
  <2>4. CASE \/ log_remove(r) \/ get_all_items(r) \/ upload_remove_torrent(r)
             \/ commit_removal(r) \/ log_removal(r)
    BY <2>4, LogRemoveInv, AllItemsInv, RenameInv, RemovalInv, LogRemovalInv
  <2>5. CASE log_suspend(r) \/ commit_suspension(r) \/ close_report(r)
    BY <2>5, LogSuspendInv, SuspensionInv, CloseInv
  <2>. QED  BY <2>1, <2>2, <2>3, <2>4, <2>5 DEF Commit
<1>3. CASE UNCHANGED vars
  <2>1. UNCHANGED <<item, suspended, verdict, audit, request, served, overlapped, aborted>>
    BY <1>3 DEF vars
  <2>2. InFlight' = InFlight
    BY <2>1 DEF InFlight
  <2>3. TypeOK' /\ Carried' /\ Existing'
    BY <2>1, <2>2 DEF Inv, TypeOK, Carried, Existing, Ordered, Achieved
  <2>4. NameIffPresent' /\ AuditComplete'
    BY <2>1, <2>2 DEF Inv, NameIffPresent, AuditComplete, WillLogRemoval, At
  <2>5. Solo'
    BY <2>1, <2>2 DEF Inv, Solo, Alone, Undisturbed, Between, Told, items_of
  <2>. QED  BY <2>3, <2>4, <2>5 DEF Inv
<1>. QED  BY <1>1, <1>2, <1>3 DEF Next

LEMMA Invariant == Spec => []Inv
BY InitInv, StepInv, PTL DEF Spec
-----------------------------------------------------------------------------
(* What requests load, commit and log keeps its type: a culprit is always  *)
(* an account, and what is to be renamed an upload.                        *)
THEOREM TypeCorrect == Spec => []TypeOK
<1>1. Inv => TypeOK
  BY DEF Inv
<1>. QED  BY <1>1, Invariant, PTL

(* However requests overlap, a removed item has lost its slug or infohash, *)
(* and one that is there has kept it, but for those a request is removing  *)
(* just now and what a request that broke off left behind.                 *)
THEOREM NamesFollow == Spec => []NameIffPresent
<1>1. Inv => NameIffPresent
  BY DEF Inv
<1>. QED  BY <1>1, Invariant, PTL

(* Short of a crash between two commits every removal and suspension is in *)
(* the audit log, whatever overlaps; and after requests that do not        *)
(* overlap its newest rows tell which items are approved.                  *)
THEOREM AuditTrue == Spec => []AuditHolds
<1>1. ASSUME Inv PROVE AuditHolds
  <2>1. AuditComplete /\ Solo
    BY <1>1 DEF Inv
  <2>2. AuditTellsVisibility
    BY <2>1 DEF Solo, AuditTellsVisibility, Told
  <2>. QED  BY <2>1, <2>2 DEF AuditHolds
<1>. QED  BY <1>1, Invariant, PTL

(* Only its opening and its closing change the verdict on a report.        *)
LEMMA Verdicts ==
  ASSUME [Next]_vars
  PROVE  \/ \E p \in Reports : create_report(p)
         \/ \E r \in RequestIds : close_report(r)
         \/ UNCHANGED verdict
<1>1. CASE \E r \in RequestIds : Load(r) \/ Commit(r) \/ Abort(r)
  <2>1. PICK r \in RequestIds : Load(r) \/ Commit(r) \/ Abort(r)
    BY <1>1
  <2>2. CASE Load(r)
    BY <2>2 DEF Load, load_review, load_deny, load_delete, load_create, load_resolve, Start
  <2>3. CASE Abort(r)
    BY <2>3 DEF Abort
  <2>4. CASE Commit(r) /\ ~ close_report(r)
    BY <2>4
    DEF Commit, create_item, commit_review, log_review, log_hide, commit_hide, log_remove,
        get_all_items, upload_remove_torrent, commit_removal, log_removal, log_suspend,
        commit_suspension
  <2>. QED  BY <2>1, <2>2, <2>3, <2>4
<1>. QED  BY <1>1 DEF Next, vars

LEMMA OverlapLasts ==
  ASSUME [Next]_vars, Alone'
  PROVE  Alone
<1>1. CASE UNCHANGED overlapped
  BY <1>1 DEF Alone
<1>2. CASE \E p \in Reports : create_report(p)
  BY <1>2 DEF create_report, Requesting, Alone
<1>3. CASE \E r \in RequestIds : Load(r) \/ Commit(r) \/ Abort(r)
  <2>1. PICK r \in RequestIds : Load(r) \/ Commit(r) \/ Abort(r)
    BY <1>3
  <2>2. CASE Load(r)
    BY <2>2 DEF Load, load_review, load_deny, load_delete, load_create, load_resolve, Start, Alone
  <2>3. CASE Abort(r)
    BY <2>3 DEF Abort, Alone
  <2>4. CASE Commit(r)
    <3>1. Requesting
      BY <2>4
      DEF Commit, create_item, commit_review, log_review, log_hide, commit_hide, log_remove,
          get_all_items, upload_remove_torrent, commit_removal, log_removal, log_suspend,
          commit_suspension, close_report
    <3>. QED  BY <3>1 DEF Requesting, Alone
  <2>. QED  BY <2>1, <2>2, <2>3, <2>4
<1>. QED  BY <1>1, <1>2, <1>3 DEF Next, vars

(* As long as requests do not overlap, a report is resolved once, hide     *)
(* closes it on an item that is not visible, and suspend_remove on an      *)
(* account nothing of which is left: Report.resolve closes it last.        *)
THEOREM ResolvesOnce == Spec => ResolvedOnceAndFully
<1>. DEFINE A == Alone' => \A p \in Reports :
          /\ verdict[p] \in ReportActions => verdict'[p] = verdict[p]
          /\ verdict'[p] # verdict[p] =>
              /\ verdict'[p] = "hide" => ~ item[Target[p]].approved
              /\ verdict'[p] = "suspend_remove" =>
                    \A i \in Items : Owner[i] = reported_account(p) /\ item[i].exists
                                        => item[i].removed
<1>1. ASSUME Inv, [Next]_vars PROVE A
  <2>. SUFFICES ASSUME Alone', NEW p \in Reports, verdict'[p] # verdict[p]
                PROVE  /\ verdict[p] \notin ReportActions
                       /\ verdict'[p] = "hide" => ~ item[Target[p]].approved
                       /\ verdict'[p] = "suspend_remove" =>
                             \A i \in Items : Owner[i] = reported_account(p) /\ item[i].exists
                                                 => item[i].removed
    OBVIOUS
  <2>1. CASE \E x \in Reports : create_report(x)
    <3>1. PICK x \in Reports :
            verdict[x] = "unopened" /\ verdict' = [verdict EXCEPT ![x] = "open"]
      BY <2>1 DEF create_report
    <3>2. x = p /\ verdict'[p] = "open"
      BY <1>1, <3>1 DEF Inv, TypeOK
    <3>. QED  BY <3>1, <3>2 DEF ReportActions
  <2>2. CASE \E r \in RequestIds : close_report(r)
    <3>1. PICK r \in RequestIds : close_report(r)
      BY <2>2
    <3>2. PICK o \in Requests :
            /\ Ordered(o) /\ (Alone => Undisturbed(o))
            /\ o.pc = CASE o.op = "dismiss" -> "loaded"
                        [] o.op = "remove" -> "removed"
                        [] OTHER -> "done"
            /\ \A x \in Reports : verdict'[x] = IF x \in o.reports THEN o.op ELSE verdict[x]
      BY <1>1, <3>1, Closing
    <3>3. Undisturbed(o)
      BY <1>1, <3>2, OverlapLasts
    <3>4. p \in o.reports /\ verdict'[p] = o.op
      BY <3>2
    <3>5. Target[p] = o.target /\ reported_account(p) = o.culprit
      BY <3>2, <3>4 DEF Ordered, reported_account
    <3>6. verdict[p] = "open"
      BY <3>3, <3>4 DEF Undisturbed
    <3>7. o.op = "hide" => ~ item[Target[p]].approved
      BY <3>2, <3>3, <3>5 DEF Undisturbed
    <3>8. o.op = "suspend_remove" => \A i \in items_of(o.culprit) : item[i].removed
      BY <3>2, <3>3 DEF Undisturbed
    <3>. QED  BY <3>4, <3>5, <3>6, <3>7, <3>8 DEF items_of, ReportActions
  <2>. QED  BY <1>1, <2>1, <2>2, Verdicts
<1>2. Inv /\ [Next]_vars => [A]_vars
  BY <1>1
<1>. QED  BY <1>2, Invariant, PTL DEF Spec, ResolvedOnceAndFully
-----------------------------------------------------------------------------
(* No step brings an item back, and only a suspension suspends.            *)
LEMMA RemovedLasts ==
  ASSUME TypeOK, [Next]_vars, NEW i \in Items, item[i].removed
  PROVE  item'[i].removed
<1>1. CASE UNCHANGED item
  BY <1>1
<1>2. ASSUME NEW r \in RequestIds, create_item(r) PROVE item'[i].removed
  <2>1. PICK t, a : item' = [item EXCEPT ![t] = [@ EXCEPT !.exists = TRUE, !.approved = a]]
    BY <1>2 DEF create_item
  <2>2. item'[i] = item[i] \/ item'[i] = [item[i] EXCEPT !.exists = TRUE, !.approved = a]
    BY <2>1 DEF TypeOK
  <2>. QED  BY <2>2 DEF TypeOK
<1>3. ASSUME NEW t, NEW value, item' = [item EXCEPT ![t].approved = value] PROVE item'[i].removed
  <2>1. item'[i] = item[i] \/ item'[i] = [item[i] EXCEPT !.approved = value]
    BY <1>3 DEF TypeOK
  <2>. QED  BY <2>1 DEF TypeOK
<1>4. ASSUME NEW r \in RequestIds, commit_review(r) \/ commit_hide(r) PROVE item'[i].removed
  BY <1>1, <1>3, <1>4 DEF commit_review, commit_hide, set_approved
<1>5. ASSUME NEW r \in RequestIds, upload_remove_torrent(r) PROVE item'[i].removed
  <2>1. PICK u : item' = [item EXCEPT ![u].public_name = FALSE]
    BY <1>5 DEF upload_remove_torrent
  <2>2. item'[i] = item[i] \/ item'[i] = [item[i] EXCEPT !.public_name = FALSE]
    BY <2>1 DEF TypeOK
  <2>. QED  BY <2>2 DEF TypeOK
<1>6. ASSUME NEW r \in RequestIds, commit_removal(r) PROVE item'[i].removed
  <2>1. PICK n : \/ item'[i] = item[i]
                 \/ item'[i] = [item[i] EXCEPT !.removed = TRUE, !.public_name = n]
    BY <1>6 DEF commit_removal
  <2>. QED  BY <2>1 DEF TypeOK
<1>7. CASE \E r \in RequestIds : Load(r) \/ Commit(r) \/ Abort(r)
  <2>1. PICK r \in RequestIds : Load(r) \/ Commit(r) \/ Abort(r)
    BY <1>7
  <2>2. CASE Load(r)
    BY <1>1, <2>2 DEF Load, load_review, load_deny, load_delete, load_create, load_resolve, Start
  <2>3. CASE Abort(r)
    BY <1>1, <2>3 DEF Abort
  <2>4. CASE \/ create_item(r) \/ commit_review(r) \/ commit_hide(r)
             \/ upload_remove_torrent(r) \/ commit_removal(r)
    BY <1>2, <1>4, <1>5, <1>6, <2>4
  <2>5. CASE \/ log_review(r) \/ log_hide(r) \/ log_remove(r) \/ get_all_items(r)
             \/ log_removal(r) \/ log_suspend(r) \/ commit_suspension(r) \/ close_report(r)
    BY <1>1, <2>5 DEF log_review, log_hide, log_remove, get_all_items, log_removal, log_suspend,
                      commit_suspension, close_report
  <2>. QED  BY <2>1, <2>2, <2>3, <2>4, <2>5 DEF Commit
<1>8. CASE \E p \in Reports : create_report(p)
  BY <1>1, <1>8 DEF create_report
<1>. QED  BY <1>1, <1>7, <1>8 DEF Next, vars

LEMMA Suspensions ==
  ASSUME [Next]_vars
  PROVE  UNCHANGED suspended \/ \E r \in RequestIds : commit_suspension(r)
<1>1. CASE \E r \in RequestIds : Load(r) \/ Commit(r) \/ Abort(r)
  <2>1. PICK r \in RequestIds : Load(r) \/ Commit(r) \/ Abort(r)
    BY <1>1
  <2>2. CASE Load(r)
    BY <2>2 DEF Load, load_review, load_deny, load_delete, load_create, load_resolve, Start
  <2>3. CASE Abort(r)
    BY <2>3 DEF Abort
  <2>4. CASE Commit(r) /\ ~ commit_suspension(r)
    BY <2>4
    DEF Commit, create_item, commit_review, log_review, log_hide, commit_hide, log_remove,
        get_all_items, upload_remove_torrent, commit_removal, log_removal, log_suspend,
        close_report
  <2>. QED  BY <2>1, <2>2, <2>3, <2>4
<1>2. CASE \E p \in Reports : create_report(p)
  BY <1>2 DEF create_report
<1>. QED  BY <1>1, <1>2 DEF Next, vars

Removed == {i \in Items : item[i].removed}

(* Every step is one at the desk, or is not seen there.                    *)
LEMMA DeskStep ==
  ASSUME Inv, [Next]_vars
  PROVE  [Desk!Next]_(Desk!vars)
<1>0. TypeOK
  BY DEF Inv
<1>1. CASE \E p \in Reports : create_report(p)
  <2>1. PICK p \in Reports : create_report(p)
    BY <1>1
  <2>2. Desk!Open(p)
    BY <2>1 DEF create_report, Desk!Open
  <2>. QED  BY <2>2 DEF Desk!Next
<1>2. CASE \E r \in RequestIds : close_report(r)
  <2>1. PICK r \in RequestIds : close_report(r)
    BY <1>2
  <2>2. PICK o \in Requests :
            /\ Ordered(o) /\ Achieved(o) /\ o.op \in ReportActions
            /\ o.pc = CASE o.op = "dismiss" -> "loaded"
                        [] o.op = "remove" -> "removed"
                        [] OTHER -> "done"
            /\ verdict' = [p \in Reports |-> IF p \in o.reports THEN o.op ELSE verdict[p]]
            /\ UNCHANGED <<item, suspended>>
    BY <2>1, Closing
  <2>3. CASE o.reports = {}
    BY <1>0, <2>2, <2>3 DEF TypeOK, Desk!vars
  <2>4. CASE o.reports # {}
    <3>1. PICK p \in Reports : o.reports = {p} /\ Target[p] = o.target
      BY <2>2, <2>4 DEF Requests, Ordered
    <3>2. verdict' = [verdict EXCEPT ![p] = o.op]
      BY <1>0, <2>2, <3>1 DEF TypeOK
    <3>3. verdict[p] # "unopened"
      BY <2>2, <3>1 DEF Achieved
    <3>4. reported_account(p) = o.culprit
      BY <2>2, <3>1 DEF Ordered, reported_account
    <3>5. /\ o.op \in {"remove", "suspend"} /\ Target[p] \in Items => item[Target[p]].removed
          /\ o.op \in {"suspend", "suspend_remove"} => o.culprit \in suspended
      BY <2>2, <3>1 DEF Achieved
    <3>6. Desk!TakenEffect(p, o.op)
      BY <3>4, <3>5 DEF Desk!TakenEffect
    <3>7. Desk!Close(p, o.op)
      BY <2>2, <3>2, <3>3, <3>6 DEF Desk!Close
    <3>. QED  BY <2>2, <3>7 DEF Desk!Next, Desk!ReportActions, ReportActions
  <2>. QED  BY <2>3, <2>4
<1>3. CASE UNCHANGED verdict /\ \E r \in RequestIds : commit_suspension(r)
  <2>1. PICK r \in RequestIds : commit_suspension(r)
    BY <1>3
  <2>2. PICK o \in Requests : o = request[r]
    BY <2>1, InHand DEF commit_suspension, At
  <2>3. /\ o.culprit \in AccountIds /\ suspended' = suspended \cup {o.culprit}
        /\ UNCHANGED item
    BY <2>1, <2>2 DEF commit_suspension, Requests
  <2>4. Desk!Suspend(o.culprit)
    BY <1>3, <2>3 DEF Desk!Suspend
  <2>. QED  BY <2>3, <2>4 DEF Desk!Next
<1>4. CASE UNCHANGED <<verdict, suspended>>
  <2>1. \A i \in Items : item[i].removed => item'[i].removed
    BY <1>0, RemovedLasts
  <2>2. Removed' = Removed \cup Removed' /\ Removed' \in SUBSET Items
    BY <2>1 DEF Removed
  <2>3. Desk!Remove
    BY <1>4, <2>2 DEF Desk!Remove, Removed
  <2>. QED  BY <2>3 DEF Desk!Next
<1>. QED  BY <1>1, <1>2, <1>3, <1>4, Verdicts, Suspensions

(* Whatever overlaps and breaks off, a report closes only with an action   *)
(* that has taken effect, and removals and suspensions hold: approvals,    *)
(* denials, sweeps and their single commits implement ReportDesk.          *)
THEOREM ImplementsDesk == Spec => DeskSpec
<1>1. Init => Desk!Init
  BY DEF Init, Desk!Init
<1>2. Inv /\ [Next]_vars => [Desk!Next]_(Desk!vars)
  BY DeskStep
<1>. QED  BY <1>1, <1>2, Invariant, PTL DEF Spec, DeskSpec, Desk!Spec
=============================================================================
