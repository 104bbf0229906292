------------------------------- MODULE Claims -------------------------------
(***************************************************************************)
(* Claims on one dataset and its parts (api/routes/claims.py), by which    *)
(* scrapers share out work, and the uploads that settle them               *)
(* (crud.create_upload, crud.clear_claims).                                *)
(*                                                                         *)
(* Most of these handlers are plain functions, which the framework runs in *)
(* a thread pool: between what a request reads and its only commit any     *)
(* number of other requests commit.                                        *)
(***************************************************************************)
EXTENDS Integers, FiniteSets, FiniteSetsExt

CONSTANTS
    AccountIds,
    Nobody,        \* the account of a claim whose account_id is NULL
    Parts,         \* the visible parts of the dataset, in the order of their slugs
    RequestIds,
    MaxRequests    \* bound: requests served in a behaviour

ASSUME ClaimsAssumption ==
    /\ Nobody \notin AccountIds
    /\ Parts \subseteq Nat \ {0}
    /\ MaxRequests \in Nat

VARIABLES
    claims,        \* rows of dataset_claim
    uploaded,      \* parts that some upload is of
    request,       \* request id -> what the request has read and is to commit
    served,        \* number of requests started so far
    overlapped     \* history: two requests have been in flight at once

vars == <<claims, uploaded, request, served, overlapped>>

Whole == 0                        \* dataset_part_id is NULL: a claim on the dataset
Statuses == {"in_progress", "completed"}
Idle == [op |-> "idle"]

Rows ==
    [id : 1..MaxRequests, account : AccountIds \cup {Nobody}, part : Parts \cup {Whole},
     status : Statuses]

(* found: the claims it has read; parts: what it is about.                 *)
Requests ==
    [op : {"claim", "delete", "next", "upload"}, account : AccountIds \cup {Nobody},
     parts : SUBSET (Parts \cup {Whole}), status : Statuses, keep : BOOLEAN,
     found : SUBSET Rows]

TypeOK ==
    /\ claims \subseteq Rows
    /\ \A c, d \in claims : c.id = d.id => c = d
    /\ uploaded \subseteq Parts
    /\ request \in [RequestIds -> Requests \cup {Idle}]
    /\ served \in 0..MaxRequests
    /\ overlapped \in BOOLEAN

Init ==
    /\ claims = {}
    /\ uploaded = {}
    /\ request = [r \in RequestIds |-> Idle]
    /\ served = 0
    /\ overlapped = FALSE

InFlight == {r \in RequestIds : request[r] # Idle}

Alone == ~ overlapped

claims_of(account, parts) == {c \in claims : c.account = account /\ c.part \in parts}

ids(rows) == {c.id : c \in rows}

(* session.exec(...).first(): SQLite scans in the order of ids.            *)
first(rows) == {c \in rows : \A d \in rows : c.id <= d.id}
-----------------------------------------------------------------------------
Start(r, op, account, parts, status, keep, found) ==
    /\ request[r] = Idle
    /\ served < MaxRequests
    /\ request' = [request EXCEPT ![r] =
           [op |-> op, account |-> account, parts |-> parts, status |-> status,
            keep |-> keep, found |-> found]]
    /\ served' = served + 1
    /\ overlapped' = (overlapped \/ InFlight # {})
    /\ UNCHANGED <<claims, uploaded>>

(* current_dataset_claim and current_dataset_part_claim, for a POST to the *)
(* dataset (Whole) or to one of its parts.                                 *)
load_claim(r, account, part, status) ==
    Start(r, "claim", account, {part}, status, TRUE, first(claims_of(account, {part})))

(* RequireDatasetPartClaim: without a claim the answer is 404.             *)
load_delete(r, account, part) ==
    /\ claims_of(account, {part}) # {}
    /\ Start(r, "delete", account, {part}, "in_progress", FALSE,
             first(claims_of(account, {part})))

unclaimed(part) == part \notin uploaded /\ \A c \in claims : c.part # part

(* get_next_unclaimed_part: the first part in the order of slugs.  The     *)
(* query parameter claim (keep) only matters to callers not logged in:     *)
(* afterwards its name is reused for the new row.                          *)
load_next(r, account, keep) ==
    LET free == {p \in Parts : unclaimed(p)} IN
    /\ free # {}
    /\ keep => account # Nobody
    /\ Start(r, "next", account, {Min(free)}, "in_progress", keep, {})

(* Mutant of claims_to_clear: only one claim is cleared.                   *)
first_to_clear(account, parts) == first(claims_of(account, parts))

(* create_upload: part_slugs is a list of parts, or absent ({Whole}): then *)
(* get_claims returns the first claim on the dataset itself.               *)
claims_to_clear(account, parts) ==
    IF parts = {Whole} THEN first(claims_of(account, parts)) ELSE claims_of(account, parts)

load_upload(r, account, parts) ==
    Start(r, "upload", account, parts, "in_progress", FALSE, claims_to_clear(account, parts))
-----------------------------------------------------------------------------
Answer(r) ==
    /\ request' = [request EXCEPT ![r] = Idle]
    /\ UNCHANGED <<served, overlapped>>

(* Mutant of violates_unique: no constraint.                               *)
no_constraint(account, part) == FALSE

(* The unique constraint over account, dataset and part: NULLs differ from *)
(* each other, so it says nothing of claims on the dataset or of nobody.   *)
violates_unique(account, part) ==
    account # Nobody /\ part # Whole /\ claims_of(account, {part}) # {}

(* Mutant of next_id: rows are counted.                                    *)
next_count == 1 + Cardinality(claims)

(* Without AUTOINCREMENT, SQLite gives a row the highest id in the table   *)
(* plus one: the id of a deleted row may come back.                        *)
next_id == 1 + Max({0} \cup ids(claims))

insert(account, part, status) ==
    claims' = claims \cup
        {[id |-> next_id, account |-> account, part |-> part, status |-> status]}

(* A row that is no longer there, or one too many, ends the request with   *)
(* an error and without a change.  The ORM writes a status that differs    *)
(* from the one it read.                                                   *)
create_claim(r) ==
    LET req == request[r]
        part == CHOOSE p \in req.parts : TRUE
        stored == {c \in claims : c.id \in ids(req.found)} IN
    /\ req.op \in {"claim", "next"}
    /\ \/ /\ req.found = {} /\ ~ violates_unique(req.account, part)
          /\ insert(req.account, part, req.status)
       \/ /\ req.found = {} /\ violates_unique(req.account, part)
          /\ UNCHANGED claims
       \/ /\ \E c \in req.found : c.status # req.status
          /\ claims' = (claims \ stored) \cup {[c EXCEPT !.status = req.status] : c \in stored}
       \/ /\ \E c \in req.found : c.status = req.status
          /\ UNCHANGED claims
    /\ Answer(r)
    /\ UNCHANGED uploaded

(* A DELETE that finds no row is only worth a warning to the ORM.          *)
delete_dataset_part_claim(r) ==
    /\ request[r].op = "delete"
    /\ claims' = {c \in claims : c.id \notin ids(request[r].found)}
    /\ Answer(r)
    /\ UNCHANGED uploaded

(* The upload and the claims it clears, in one commit.                     *)
create_upload(r) ==
    /\ request[r].op = "upload"
    /\ uploaded' = uploaded \cup (request[r].parts \ {Whole})
    /\ claims' = {c \in claims : c.id \notin ids(request[r].found)}
    /\ Answer(r)
-----------------------------------------------------------------------------
Load(r) ==
    \/ \E account \in AccountIds, part \in Parts \cup {Whole}, status \in Statuses :
          load_claim(r, account, part, status)
    \/ \E account \in AccountIds, part \in Parts : load_delete(r, account, part)
    \/ \E account \in AccountIds \cup {Nobody}, keep \in BOOLEAN : load_next(r, account, keep)
    \/ \E account \in AccountIds, parts \in (SUBSET Parts) \cup {{Whole}} :
          load_upload(r, account, parts)

Commit(r) == create_claim(r) \/ delete_dataset_part_claim(r) \/ create_upload(r)

Next == \E r \in RequestIds : Load(r) \/ Commit(r)

Spec == Init /\ [][Next]_vars
-----------------------------------------------------------------------------
(* "Each account can only have one claim per dataset or dataset part"      *)
(* (DatasetClaim): for a part, however requests overlap.  For the dataset  *)
(* it takes requests that do not: the constraint does not see the NULL     *)
(* part, only the check before the insert does.                            *)
OneClaim ==
    /\ \A account \in AccountIds, part \in Parts :
          Cardinality(claims_of(account, {part})) <= 1
    /\ Alone => \A account \in AccountIds : Cardinality(claims_of(account, {Whole})) <= 1

(* The part that /next hands out is free at that moment: no two scrapers   *)
(* are sent to the same part, nor one to a part that is already uploaded.  *)
NextIsFree(r) ==
    request[r].op = "next" =>
        \A p \in request[r].parts : p \notin uploaded /\ \A c \in claims : c.part # p

(* "When the upload is made the claim is removed" (ClaimStatus): the       *)
(* uploader has no claim left on what the upload is of.                    *)
UploadSettlesClaims(r) ==
    request[r].op = "upload" =>
        \A c \in claims' : ~ (c.account = request[r].account /\ c.part \in request[r].parts)

(* As long as requests do not overlap, each does to the claims what it is  *)
(* for, and a claim goes only by a request of its own account, although ids*)
(* of deleted rows come back.                                              *)
ClaimsServed ==
    [][ Alone' =>
          /\ \A r \in InFlight : request'[r] = Idle => NextIsFree(r) /\ UploadSettlesClaims(r)
          /\ \A c \in claims \ claims' :
                \E r \in InFlight : request[r].account = c.account /\ request'[r] = Idle ]_vars
=============================================================================
