------------------------------ MODULE Webseeds ------------------------------
(***************************************************************************)
(* The webseeds of one torrent: rows that requests create, approve and     *)
(* delete, jobs that the scheduler's process pool runs to validate them,   *)
(* and the url list of the torrent file on disk, which listeners rewrite   *)
(* from the committed rows before the transaction they are in commits.     *)
(*                                                                         *)
(* Requests run in several web workers and jobs in several pool processes: *)
(* whatever is read before a commit may be stale when it commits.          *)
(***************************************************************************)
EXTENDS Integers, FiniteSets, FiniteSetsExt

CONSTANTS
    Urls,
    RequestIds,
    MaxRequests,     \* bound: requests served in a behaviour
    MaxRestarts,     \* bound: restarts of the scheduler process
    MaxConcurrent    \* webseed_validation.max_concurrent: processes of the pool

ASSUME WebseedsAssumption ==
    /\ IsFiniteSet(Urls)
    /\ MaxRequests \in Nat /\ MaxRestarts \in Nat
    /\ MaxConcurrent \in Nat \ {0}

VARIABLES
    rows,          \* rows of webseeds
    file,          \* url list of the torrent file
    request,       \* request id -> what the request has read and is to do
    stored,        \* urls with a job in the scheduler's job store
    job,           \* url -> the instance of its job in the process pool
    served, restarts,
    passed,        \* history: urls of the original torrent or found good once
    overlapped,    \* history: two transactions have been open at once
    deleted,       \* history: a webseed has been deleted
    skipped        \* history: urls a job of which the scheduler has skipped

vars == <<rows, file, request, stored, job, served, restarts, passed, overlapped, deleted, skipped>>

Statuses == {"in_original", "pending_review", "queued", "in_progress", "validated", "error"}
Ids == 1..(Cardinality(Urls) + MaxRequests)
Rows == [id : Ids, url : Urls, approved : BOOLEAN, status : Statuses]

Idle == [op |-> "idle"]
NoJob == [at |-> "none"]

(* An open transaction is at "commit"; create and approve then come to     *)
(* "queue" the validation.  id 0 is a row yet to be inserted.  queue is    *)
(* the queue_validation of approve_webseed.                                *)
Requests ==
    [op : {"create", "approve", "delete"}, at : {"commit", "queue"}, url : Urls,
     id : Ids \cup {0}, approved : BOOLEAN, status : Statuses, queue : BOOLEAN]

(* starting and finishing are open transactions: the one that claims the   *)
(* row, and the one that records the result.                               *)
Jobs ==
    [at : {"submitted", "validating", "ended"}]
        \cup [at : {"starting", "finishing"}, id : Ids, status : Statuses]

TypeOK ==
    /\ rows \subseteq Rows
    /\ \A w, x \in rows : w.id = x.id \/ w.url = x.url => w = x
    /\ file \subseteq Urls
    /\ request \in [RequestIds -> Requests \cup {Idle}]
    /\ stored \subseteq Urls
    /\ job \in [Urls -> Jobs \cup {NoJob}]
    /\ served \in 0..MaxRequests /\ restarts \in 0..MaxRestarts
    /\ passed \subseteq Urls
    /\ overlapped \in BOOLEAN /\ deleted \in BOOLEAN
    /\ skipped \subseteq Urls

(* The torrent was uploaded with some urls: create_torrent takes them as   *)
(* approved and "in_original", and the file as it is.                      *)
Init ==
    \E original \in SUBSET Urls, number \in [Urls -> 1..Cardinality(Urls)] :
        /\ \A u, v \in Urls : number[u] = number[v] => u = v
        /\ rows = {[id |-> number[u], url |-> u, approved |-> TRUE, status |-> "in_original"] :
                      u \in original}
        /\ file = original
        /\ request = [r \in RequestIds |-> Idle]
        /\ stored = {}
        /\ job = [u \in Urls |-> NoJob]
        /\ served = 0 /\ restarts = 0
        /\ passed = original
        /\ overlapped = FALSE /\ deleted = FALSE
        /\ skipped = {}

OpenRequests == {r \in RequestIds : request[r] # Idle /\ request[r].at = "commit"}
OpenJobs == {u \in Urls : job[u].at \in {"starting", "finishing"}}
Quiet == OpenRequests = {} /\ OpenJobs = {}

(* A transaction opens.                                                    *)
Open == overlapped' = (overlapped \/ ~ Quiet)

row_of(u) == {w \in rows : w.url = u}
row_with(id) == {w \in rows : w.id = id}
-----------------------------------------------------------------------------
(* Mutant of may_serve: a webseed that waits for its validation is served. *)
may_serve_queued(w) == w.approved /\ w.status \in {"validated", "in_original", "queued"}

(* v.status in ("validated", "in_original") and v.is_visible: no route     *)
(* sets is_removed of a webseed.                                           *)
may_serve(w) == w.approved /\ w.status \in {"validated", "in_original"}

listed == {w.url : w \in {x \in rows : may_serve(x)}}

(* Mutant of sync_webseeds: the other rows are left out.                   *)
sync_only(add, remove) == file' = add \ remove

(* _sync_webseeds: the list is made anew from the committed rows.  The one *)
(* that is being written is added or taken away explicitly.                *)
sync_webseeds(add, remove) == file' = (listed \cup add) \ remove

(* The listeners on status and is_approved, for row w about to become x.   *)
set_webseed(w, x) ==
    IF may_serve(x) THEN sync_webseeds({w.url}, {}) ELSE sync_webseeds({}, {w.url})

(* An UPDATE by id of a row that is gone raises StaleDataError.            *)
update(id, approved, status) ==
    rows' = {IF w.id = id THEN [w EXCEPT !.approved = @ \/ approved, !.status = status] ELSE w :
                w \in rows}
-----------------------------------------------------------------------------
Receive(r, op, url, id, approved, status, queue) ==
    /\ request[r] = Idle
    /\ served < MaxRequests
    /\ served' = served + 1
    /\ request' = [request EXCEPT ![r] =
           [op |-> op, at |-> "commit", url |-> url, id |-> id,
            approved |-> approved, status |-> status, queue |-> queue]]
    /\ Open
    /\ UNCHANGED <<rows, stored, job, restarts, passed, deleted, skipped>>

(* trusted: the uploader of the torrent, or scope upload or review.        *)
status_of_new(trusted) == IF trusted THEN "queued" ELSE "pending_review"

load_create(r, url, trusted) ==
    /\ Receive(r, "create", url, 0, trusted, status_of_new(trusted), FALSE)
    /\ sync_webseeds({}, {})

status_after_approval(w) == IF w.status = "pending_review" THEN "queued" ELSE w.status

load_approve(r, w) ==
    /\ Receive(r, "approve", w.url, w.id, TRUE, status_after_approval(w),
               w.status = "pending_review")
    /\ set_webseed(w, [w EXCEPT !.approved = TRUE, !.status = status_after_approval(w)])

(* session.delete fires no listener: the file stays as it is.              *)
load_delete(r, w) ==
    /\ Receive(r, "delete", w.url, w.id, w.approved, w.status, FALSE)
    /\ UNCHANGED file
-----------------------------------------------------------------------------
(* SQLite: the highest id in the table plus one.                           *)
next_id == 1 + Max({0} \cup {w.id : w \in rows})

Answer(r) == request' = [request EXCEPT ![r] = Idle]
Proceed(r, id) == request' = [request EXCEPT ![r].at = "queue", ![r].id = id]

insert(req) ==
    rows' = rows \cup {[id |-> next_id, url |-> req.url, approved |-> req.approved,
                        status |-> req.status]}

(* Mutant of create_webseed: a url may be there twice.                     *)
create_unchecked(r) ==
    /\ request[r].op = "create" /\ request[r].at = "commit"
    /\ insert(request[r])
    /\ Proceed(r, next_id)
    /\ UNCHANGED <<file, stored, job, served, restarts, passed, overlapped, deleted, skipped>>

create_webseed(r) ==
    LET req == request[r] IN
    /\ req.op = "create" /\ req.at = "commit"
    /\ \/ /\ row_of(req.url) = {}
          /\ insert(req)
          /\ Proceed(r, next_id)
       \/ /\ row_of(req.url) # {}        \* UniqueConstraint("url", "torrent_id")
          /\ Answer(r)
          /\ UNCHANGED rows
    /\ UNCHANGED <<file, stored, job, served, restarts, passed, overlapped, deleted, skipped>>

(* Only what the request has changed is written: the status of a row that  *)
(* was not pending_review when it was read is left alone.                  *)
approve_webseed(r) ==
    LET req == request[r] IN
    /\ req.op = "approve" /\ req.at = "commit"
    /\ \/ /\ row_with(req.id) # {}
          /\ \/ req.queue /\ update(req.id, TRUE, "queued")
             \/ /\ ~ req.queue
                /\ rows' = {IF w.id = req.id THEN [w EXCEPT !.approved = TRUE] ELSE w : w \in rows}
          /\ Proceed(r, req.id)
       \/ /\ row_with(req.id) = {}
          /\ Answer(r)
          /\ UNCHANGED rows
    /\ UNCHANGED <<file, stored, job, served, restarts, passed, overlapped, deleted, skipped>>

delete_webseed(r) ==
    /\ request[r].op = "delete" /\ request[r].at = "commit"
    /\ rows' = rows \ row_with(request[r].id)
    /\ deleted' = TRUE
    /\ Answer(r)
    /\ UNCHANGED <<file, stored, job, served, restarts, passed, overlapped, skipped>>

(* Both read their row again by its id, create_webseed to see whether it   *)
(* needs_review, and fail if it is gone.                                   *)
wants_validation(req, w) == req.queue \/ (req.op = "create" /\ w.approved)

(* The id of a job is a hash of its arguments.  If the store has it, it    *)
(* raises ConflictingIdError and the request fails, its row committed.     *)
queue_job(r) ==
    /\ request[r] # Idle /\ request[r].at = "queue"
    /\ stored' = stored \cup
          {w.url : w \in {x \in row_with(request[r].id) : wants_validation(request[r], x)}}
    /\ Answer(r)
    /\ UNCHANGED <<rows, file, job, served, restarts, passed, overlapped, deleted, skipped>>
-----------------------------------------------------------------------------
(* apscheduler takes a due job out of the store; while an instance of the  *)
(* same id is in the pool it is skipped (max_instances is 1), for good.    *)
submit_job(u) ==
    /\ u \in stored
    /\ stored' = stored \ {u}
    /\ \/ /\ job[u] = NoJob
          /\ job' = [job EXCEPT ![u] = [at |-> "submitted"]]
          /\ UNCHANGED skipped
       \/ /\ job[u] # NoJob
          /\ skipped' = skipped \cup {u}
          /\ UNCHANGED job
    /\ UNCHANGED <<rows, file, request, served, restarts, passed, overlapped, deleted>>

Running == {u \in Urls : job[u].at \in {"starting", "validating", "finishing"}}

(* Mutant of is_due: only a webseed that failed before is validated.       *)
is_failed(w) == w.status = "error"

(* "Webseed is being validated by another process".                        *)
is_due(w) == w.status # "in_progress"

(* validate_webseed_service up to the commit that claims the row.          *)
begin(u) ==
    /\ job[u].at = "submitted"
    /\ Cardinality(Running) < MaxConcurrent
    /\ \/ \E w \in row_of(u) :
             /\ is_due(w)
             /\ set_webseed(w, [w EXCEPT !.status = "in_progress"])
             /\ job' = [job EXCEPT ![u] = [at |-> "starting", id |-> w.id, status |-> "in_progress"]]
             /\ Open
       \/ /\ \A w \in row_of(u) : ~ is_due(w)
          /\ job' = [job EXCEPT ![u] = [at |-> "ended"]]
          /\ UNCHANGED <<file, overlapped>>
    /\ UNCHANGED <<rows, request, stored, served, restarts, passed, deleted, skipped>>

(* Either commit of a job, which then goes on to step at.                  *)
commit_job(u, at) ==
    /\ \/ /\ row_with(job[u].id) # {}
          /\ update(job[u].id, FALSE, job[u].status)
          /\ job' = [job EXCEPT ![u] = [at |-> at]]
       \/ /\ row_with(job[u].id) = {}
          /\ job' = [job EXCEPT ![u] = [at |-> "ended"]]
          /\ UNCHANGED rows
    /\ UNCHANGED <<file, request, stored, served, restarts, passed, overlapped, deleted, skipped>>

claim(u) == job[u].at = "starting" /\ commit_job(u, "validating")

(* The ranges have been fetched and compared, or something went wrong: the *)
(* row is read again and written.  If it is gone, the job dies.            *)
finish(u, result) ==
    /\ job[u].at = "validating"
    /\ passed' = IF result = "validated" THEN passed \cup {u} ELSE passed
    /\ \/ \E w \in row_of(u) :
             /\ set_webseed(w, [w EXCEPT !.status = result])
             /\ job' = [job EXCEPT ![u] = [at |-> "finishing", id |-> w.id, status |-> result]]
             /\ Open
       \/ /\ row_of(u) = {}
          /\ job' = [job EXCEPT ![u] = [at |-> "ended"]]
          /\ UNCHANGED <<file, overlapped>>
    /\ UNCHANGED <<rows, request, stored, served, restarts, deleted, skipped>>

record(u) == job[u].at = "finishing" /\ commit_job(u, "ended")

(* The callback of the future frees the instance.                          *)
free(u) ==
    /\ job[u].at = "ended"
    /\ job' = [job EXCEPT ![u] = NoJob]
    /\ UNCHANGED <<rows, file, request, stored, served, restarts, passed, overlapped, deleted, skipped>>

(* The scheduler process goes, with its pool; the store is in the database.*)
restart ==
    /\ restarts < MaxRestarts
    /\ restarts' = restarts + 1
    /\ job' = [u \in Urls |-> NoJob]
    /\ UNCHANGED <<rows, file, request, stored, served, passed, overlapped, deleted, skipped>>
-----------------------------------------------------------------------------
Load(r) ==
    \/ \E url \in Urls, trusted \in BOOLEAN : load_create(r, url, trusted)
    \/ \E w \in rows : load_approve(r, w)
    \/ \E w \in rows : load_delete(r, w)

Handle(r) == create_webseed(r) \/ approve_webseed(r) \/ delete_webseed(r) \/ queue_job(r)

Work(u) ==
    \/ submit_job(u)
    \/ begin(u)
    \/ claim(u)
    \/ \E result \in {"validated", "error"} : finish(u, result)
    \/ record(u)
    \/ free(u)

Next ==
    \/ \E r \in RequestIds : Load(r) \/ Handle(r)
    \/ \E u \in Urls : Work(u)
    \/ restart

(* A handler that was started goes on, the scheduler wakes up for a due    *)
(* job, and every fetch of a validation has a timeout.                     *)
Fairness ==
    /\ \A r \in RequestIds : WF_vars(Handle(r))
    /\ \A u \in Urls : WF_vars(Work(u))

Spec == Init /\ [][Next]_vars /\ Fairness
-----------------------------------------------------------------------------
(* "Webseeds added that haven't been validated shouldn't be added to the   *)
(* file until they are" (test_webseeds_file_sync_status): nor is any url   *)
(* that was not in the original torrent.  It holds of transactions that    *)
(* overlap, and of deletions, but not of both: the verdict on one url may  *)
(* be written to the row of another that got the id of a deleted one.      *)
OnlyProvenServed == (overlapped /\ deleted) \/ file \subseteq passed

(* "Webseeds stay in sync in the torrent file as the db object is mutated" *)
(* (test_webseeds_file_sync).  It takes transactions that do not overlap,  *)
(* and a scheduler that does not stop between a rewrite of the file and the*)
(* commit after it; and the urls of deleted webseeds stay in the file.     *)
InSyncAlone ==
    Quiet /\ ~ overlapped /\ restarts = 0 =>
        listed \subseteq file /\ \A u \in file \ listed : row_of(u) = {}

(* A queued webseed gets its verdict, unless a restart loses the queue (as *)
(* queue_job documents), or the scheduler skips its job because the last   *)
(* one has not quite ended, as when two approvals overlap.  Nor does it    *)
(* hold of deletions: a job that has read the row may then write to the    *)
(* next row with the same id, which stays in_progress without a job.       *)
Decided ==
    \A u \in Urls :
        (\E w \in row_of(u) : w.status = "queued")
            ~> \/ restarts > 0 \/ deleted \/ u \in skipped
               \/ \E w \in row_of(u) : w.status \in {"validated", "error"}
=============================================================================
