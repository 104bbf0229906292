# A model of sciop

sciop is a catalogue of datasets and of the torrents that carry them. Web
workers serve an HTTP API and pages; all of them work on one SQLite database and
on torrent files on disk; a scheduler process of its own scrapes trackers at an
interval and validates webseeds from a queue. Moderators approve what accounts
post, resolve reports, and suspend accounts.

This directory holds TLA+ modules of the parts of sciop where the order of
things matters, the TLC configurations that check them on small instances, and
proofs, checked by TLAPS, of what should hold for instances of any size.

## Reading guide

| module | what it is | code |
|---|---|---|
| `Scopes` | who may do what: scopes, and who may suspend whom | `models/account.py` |
| `Accounts` | suspend, restore, grant, revoke, suspension by report, the audit log | `api/routes/review.py`, `api/deps.py`, `models/account.py`, `models/report.py` |
| `ReportDesk` | abstract: what resolving reports promises | |
| `Moderation` | items, reports, removals, the audit log; implements `ReportDesk` | `api/routes/review.py`, `models/report.py`, `models/mixins/moderation.py`, `models/upload.py`, `models/account.py` |
| `Claims` | claims on parts of a dataset, and uploads that settle them | `api/routes/claims.py`, `crud.py`, `models/claim.py` |
| `Webseeds` | webseed rows, validation jobs, the url list of the torrent file | `models/webseed.py`, `models/torrent.py`, `services/webseeds.py`, `api/routes/uploads.py`, `scheduler/rpc.py` |
| `Scraping` | rounds of scraping, errors of trackers and their back-off | `services/tracker_scrape.py`, `models/tracker.py`, `cli/trackers.py` |
| `UdpTracker` | the exchange of datagrams with UDP trackers, below one answer of `Scraping` | `services/tracker_scrape.py` |
| `Torrents` | torrent rows, files on disk and uploads: upload, replacement, rename | `api/routes/torrents.py`, `api/routes/uploads.py`, `crud.py`, `models/torrent.py`, `models/upload.py` |
| `Edits` | creating and editing a dataset, and its history tables | `models/mixins/edit.py`, `models/dataset.py`, `models/mixins/list.py`, `crud.py`, `api/routes/datasets.py` |
| `Scheduler` | one scheduler among forked workers: start, stop, kill | `scheduler/base.py`, `scheduler/local.py`, `scheduler/rpc.py`, `scheduler/main.py`, `app.py` |
| `Migrations` | the 23 migrations, up and down, step by step | `migrations/versions/` |
| `Startup` | making, migrating, seeding and reindexing the database | `db.py`, `models/mixins/search.py`, `models/mixins/enum.py`, `cli/maintain.py`, `migrations/env.py`, `app.py` |
| `AccountsProofs`, `ModerationProofs`, `ClaimsProofs`, `TorrentsProofs`, `EditsProofs`, `StartupProofs` | theorems about the module each is named after | |
| `ScrapingProofs`, `WebseedsProofs` | the same, and theorems about a component at their side: `UdpTracker`, which the scraper talks through, and `Scheduler`, which runs the webseed jobs | |
| `MC...` | the instances TLC checks, one per component (two configurations each for `MCScheduler` and `MCStartup`) | |

All paths are under `src/src/sciop/`. `PROJECT.json` names for every definition
the lines it stands for, for every run its properties, for every property a
plausible mistake in the code that breaks it, and the hazards of the code.

## The system

### Components

**Accounts and scopes.** State: accounts, `is_suspended`, the links to scopes
(`review`, `admin`, `root`, `upload`, ...). `root` implies all scopes, `admin`
all but `root`. Operations: suspend, restore, grant, revoke (admins, with rules
of their own in `review.py`), and suspension by the resolution of a report (with
the rules of `Account.can_suspend`). Hard: rules in two places; checks on what a
request loaded, then several commits. Correct if there is always a root who can
log in, if nobody below root gains or takes authority, and if the audit log
tells the truth.

**Content moderation and reports.** State: datasets, parts, uploads, each with
`is_approved` and `is_removed`; reports with the action that resolved them; the
audit log. Operations: create, approve, unapprove, deny, delete, report, and
resolve with dismiss, hide, remove, suspend, suspend_remove. Hard: a resolution
is up to five commits, one of them made by a listener in a session of its own
(the infohash of a removed upload is renamed); some log before they act and some
after. Correct if nothing is removed behind the back of the log, if a removed
item frees its public name and a visible one keeps it, and if a report is closed
once, when its action has taken effect.

**Claims.** State: claims of accounts on datasets and parts. Operations: claim,
release, next unclaimed part, and an upload that settles claims. Hard: the
handlers run in threads, check, then insert; the unique constraint has a NULL
in it. Correct if nobody claims twice, nobody's claim is touched by another, and
the part that `/next` hands out is free.

**Webseeds, and the job queue.** State: rows of webseeds with a status, the url list
in the torrent file, jobs in the scheduler's store and in its process pool.
Operations: create, approve, delete; the validation job claims the row, fetches
ranges, records the result; listeners rewrite the torrent file from the database on
every change. Hard: the file is written before the transaction commits, from what
others have committed; a job outlives its row, and rows are updated by ids that come
back; the pool forgets its queue on a restart. Correct if the file never names an
url nobody has found good, agrees with the database, and a queued webseed gets its
verdict.

**Tracker scraping.** State: trackers with `n_errors` and `next_scrape_after`,
links between trackers and torrents with `last_scraped_at`, and the round in
memory. Operations: gather, ask all trackers at once up to `n_workers`, record
the numbers, record the errors; an operator clears back-offs. Hard: partial
answers, errors of some pages, two transactions of which the first may fail,
a counter read in one session and written in another. Correct if errors are
counted right, who fails is given a rest, and nobody is given up.

**The exchange with UDP trackers.** State: one counter of transaction ids for all
clients, and for each client its connection, its socket, the future it waits on.
Operations: connect, ask for a page, receive, time out. Hard: datagrams are
lost, repeated, late; all pages of a connection have one transaction id; the
counter passes the value that fits its field. Correct if a page gets its own
numbers or an error, and every scrape ends.

**Torrent upload and replacement.** State: rows of `torrent_files` with their
infohash, file name and upload; the files on disk. Operations: upload (new, or
in place of an old torrent), create an upload, change its infohash, rename its
file. Hard: a replacement is a file operation and up to four commits; ids and
paths come back. Correct if a row has the file it describes, and an upload the
torrent it was given.

**Edit history.** State: the row of a dataset, its urls, tags and parts, and a
history table for each. Operations: create, patch, add parts. Hard: versions are
made by a session listener, from what the request holds in memory, by rules
that differ for columns, link tables and owned rows. Correct if the history
gives back every state there was.

**Scheduler start and shutdown.** State: the semaphore forked with the workers,
each worker's `rpc_process`, the spawned processes and their port, the job
store. Operations: start, stop (ask over RPC, join, terminate, kill), the run of
the spawned process. Hard: workers come and go in any order and die; the job
store outlives them. Correct if one scheduler runs and runs the jobs that are
configured.

**Startup and migrations.** State: the schema, the version stamp, the search
tables and their triggers, the scopes and the root account. Operations: what
each worker does at its start (make missing tables, check the stamp, seed), the
migrations, `reindex`. Hard: SQLite makes a CREATE or ALTER permanent at once;
workers start side by side; searches are kept by triggers which migrations drop.
Correct if who serves has the schema of the models, the stamp tells the truth,
and starting harms nothing.

**Feeds, counters and statistics, pages, RDF, command line, configuration.**
Derived data and input and output.

### How they interact

Workers, the scheduler and the command line tool share nothing but the database
and the files; a worker asks the scheduler to queue a job by XML-RPC. A request
opens a session, its dependencies load what it works on, the handler checks the
loaded copy, and the database sees its writes at each `commit`. Everything else
may commit in between.

## How the code is modelled

- *A request is a load and its commits.* A `load_...` action is the
  dependencies and the checks of a handler; its copy of what it read goes into
  `request`. Each commit is an action, named after the function it is in. A
  request that fails a check changes nothing and is not started. A reload that
  follows a commit at once is taken with that commit.
- *What the ORM does is part of the step.* It writes an attribute only if it
  differs from the loaded copy; it fails on an UPDATE of a row that is gone, and
  on a link row it can not find; a unique constraint fails an INSERT, and does
  not see NULLs; SQLite gives out ids of deleted rows again.
- *Breaking off.* `Abort` ends a request of `Accounts` or `Moderation` between
  two commits: the worker dies, or the next commit finds the database locked.
  `restart` stops the scheduler's process in `Webseeds` and `Scraping`: what was
  in memory is gone, the database and the job store remain.
- *History variables.* `overlapped` says whether two requests (transactions, in
  `Webseeds`) have ever been open at once, `aborted` whether one broke off;
  `passed`, `deleted`, `skipped`, `streak`, `doubtful`, `limited` record what
  the properties speak of. No action reads them.
  A property of the form `~ overlapped => ...` is one the code guarantees only
  as long as requests do not overlap, although they may: nothing locks the rows
  between the check and the commit. The same formulas without the condition are
  violated; `PROJECT.json` says so at the hazards concerned.

Simplifications, module by module:

- `Accounts`: items that a report removes on the way to a suspension are one
  commit without content here; they are the matter of `Moderation`.
- `Moderation`: scopes do not change, and nobody is restored; edits (PATCH) and
  the removal of a dataset's parts with it are left out; a report is one insert.
- `Claims`: one dataset; parts are numbers in the order of their slugs.
- `Webseeds`: one torrent; what a validation fetches and compares is one of two
  results; reading the rows and writing the file is one step; the audit log is
  left out; `is_removed` of a webseed is not modelled since nothing sets it; at
  the start the rows may have any order of ids.
- `Scraping`: a page has one of the answers an exchange can give, the messages
  of the UDP protocol are in `UdpTracker`; `n_errors` stops at `MaxErrors`, from
  where the back-off is the longest there is, so nothing is cut off; durations
  are whole ticks; `next_scrape_after` in the past is the same as none. Clearing
  back-offs loads and writes in one step: since the three fields are always
  written together, a commit in between leaves the same as one before or after.
- `UdpTracker`: ids go to `MaxId`, which stands for 2^32 - 1; what a tracker
  answers is any of the kinds the client tells apart; time is the action
  `minute`, by which a connection gets too old; the operating system does not
  give out a port while answers to it may arrive; each round has clients of its
  own. The write side of `UDPReadWriteLock` is never used. An answer that can not
  be unpacked is an error "default" as in the code, where the exception is built
  by a call of `msg`, which raises a TypeError.
- `Torrents`: refused requests (400, 403, 404) that change nothing are not steps;
  what a torrent holds is its content, of which only having a tracker matters;
  webseeds and parts of an upload are left out.
- `Edits`: one dataset, with the links to its parent that its urls have (an url
  row that lost its dataset is left out); what a request reads is one step; the
  sessions do not autoflush. Rows of `tags` are assumed to exist. An UPDATE
  names the columns that changed, a version has the whole object as in memory.
- `Scheduler`: AsyncIOScheduler ends at once; a local scheduler dies with its
  worker; the handlers of SIGTERM do nothing. apscheduler, gunicorn and
  multiprocessing are external.
- `Startup`: a table is the set of revisions whose changes it has, so what is in
  a column is left out; pysqlite's transactions are the legacy ones (DDL is
  permanent until the first DML of a connection, and what follows is atomic with
  the new version); foreign keys are not enforced. A table is made in steps, any
  of which may be the last: the table, its indices (`partial` has the tables that
  lack some; those of one table are one step), its search table, its triggers (the
  three are one step). A step of a migration may be torn in the same way
  (`TearMigration`). A start that fails is made again. What an administrator does
  not do is `Exclusive`: he does not downgrade the database under running workers,
  nor build a new one by migrations while workers start on it. He may be stopped
  in the middle of either, and workers start then. `Deployments` says what is there
  at the beginning: a database of some version, the workers that serve it, and
  how many commands the administrator is going to give.

## What is checked

Bounds are constants of the modules, named in a comment at their declaration.

| run | instance | distinct states | result |
|---|---|---|---|
| `accounts` | 3 accounts, one of them root; 2 requests in flight, 3 served | 99k | holds |
| `moderation` | an uploader with two items, an admin, a reviewer, two reports; 2 in flight, 3 served | 168k | holds |
| `claims` | 2 accounts and a visitor, 2 parts; 2 in flight, 4 served | 180k | holds |
| `webseeds` | 2 urls; 2 in flight, 3 served; pool of one; 1 restart | 202k | holds |
| `scraping` | a UDP and an HTTP tracker, 2 torrents, 3 links; 1 worker; 1 restart; unbounded time | 496k | holds |
| `udp` | 2 clients, 2 pages, ids to 1, 3 scrapes | 192k | holds |
| `torrents` | 2 workers, 2 infohashes, 2 names, 3 contents, one without a tracker; 3 requests, 1 failure | 544k | holds |
| `edits` | 2 workers, 2 columns of 2 values, 2 urls, 2 tags, a part; 3 requests | 520k | holds |
| `scheduler` | 2 workers, 3 spawned processes, a job; 3 stops, 1 kill | 87k | holds |
| `scheduler_single` | the same | | two schedulers run |
| `startup` | all 23 migrations; a new database with 2 workers and no command, a new one with 1 worker, and versions 19 and 23 with 2; 2 commands, 1 kill; four tables with indices | 157k | holds |
| `startup_stamp` | the same migrations; a new database, 1 worker, 1 kill; all indices | | a table without its indices is stamped |

What the passing runs show:

- `accounts`: `SomeActiveRoot`, `NoCoup` and `AuditTellsTruth` hold of requests
  that do not overlap (the last also needs that none broke off). Three requests
  suffice for every escalation in steps: grant, use the grant, undo. Two
  overlapping requests are all that a check gone stale needs.
- `moderation`: `NameIffPresent`, and of `AuditHolds` that a removal is logged,
  hold under any overlap; that the newest row of the log tells what is visible
  (the rest of `AuditHolds`) and `ResolvedOnceAndFully` (a report is resolved
  once, and a sweep leaves nothing of the account) only without. `DeskSpec`: with
  any overlap and any request breaking off, the module implements `ReportDesk`,
  under the mapping of removed items to the set of items with `is_removed`. Three
  requests allow a post, a sweep over it and a third party; the upload and the
  dataset differ in how they lose their public name.
- `claims`: of `OneClaim` the part that is about parts holds under any overlap,
  thanks to the constraint; the rest, and `ClaimsServed` (`/next` hands out a free
  part, an upload settles the claims it answers, nobody's claim is touched by
  another), only without. Four requests let a claim be made, settled, made anew
  by someone else under the same id, and asked for.
- `webseeds`: `OnlyProvenServed` holds under any restart, and under any overlap as
  long as no webseed was deleted, or without overlap whatever is deleted. With both
  it fails, though not within three requests: a job reads the row it is to judge,
  the row is deleted, another url gets a row with its id, and the UPDATE by id marks
  that one valid; an approval then puts an url in the file that nobody has fetched.
  The proof asked for the condition (see below), and TLC shows the behaviour when
  `MaxRequests` is 4 and the condition is left out. `InSyncAlone` needs transactions
  that do not overlap and no restart, and even so urls of deleted webseeds may stay.
  `Decided` holds as long as no webseed is deleted: a job which outlives its row
  fetches the unreviewed row that follows it, or writes its status to a row that got
  the same id, which then stays in progress for good. An approval queues a
  validation only for a row that it found pending review (`queue_validation`), so
  that a row found queued or judged keeps its job or its verdict. `Decided` also
  excludes a restart, which loses the queue as `queue_job` documents, and a job the
  scheduler skips because one with its id is still in the pool. Two urls and one
  place in the pool make one job wait for another.
- `scraping`: `CountsFailures` and `RecordedFailureRests` hold although trackers
  answer in part, fail on one page and answer the next, and back-offs are cleared in
  between. The second says nothing of a tracker that answered with 429 and no more:
  it is given a rest too, against the code's own comment (see below). `AskedAgain`
  says that no tracker is given up. Pages of one torrent let a tracker answer one
  and fail another; one worker makes the trackers wait for each other; three errors
  in a row reach `max_backoff`.
- `udp`: `OwnNumbers` holds although all pages of a connection share an id:
  what keeps the answers apart is that each request has a socket of its own (the
  mutant that keeps the socket is caught). `OverflowLosesOnePage`: the id that
  does not fit costs the one page that draws it and no more. `ScrapeEnds`: no
  loss, repetition or malformed answer leaves a scrape waiting, since every wait
  has a time limit. Two pages let the answer to one come late; ids to 1 let the
  counter turn over within a behaviour; a second client draws ids in between.
- `torrents`: `RowMatchesFile` and `UploadKeepsTorrent` hold of requests that do
  not overlap over one torrent and are not cut off, while requests about other
  torrents interleave freely with them. Three requests allow a replacement under
  a new name, a rename back, and an upload under the old name; ids of deleted
  rows come back, so that a stale id can hit another torrent.
- `edits`: `HistoryHolds`: read as of any commit, the history gives the dataset
  that commit left, and what has the time stamp of a version of the dataset is
  complete, as the comment in `edit.py` promises; of edits that overlap the
  version has stale columns. `EditsTouchOwnFields` holds under any overlap. Three
  requests are a creation, a change, and a change back.
- `scheduler`: `OneSchedulerAlone`: as long as only workers that have acquired
  the semaphore release it there is one scheduler, through stops and kills,
  because a stopping worker kills the process it spawned before it releases. When
  another worker releases there may be two (`scheduler_single`), which does not
  last: the second finds the port taken (`OneSchedulerInTheEnd`).
  `StoreFollowsConfig`: jobs that an earlier deployment left in the store are
  gone once the scheduler answers. Three processes are one more than workers, so
  that a third can start while an orphan and another one live.
- `startup`: `ServesHead`: whatever started, migrated or was killed before, a
  serving worker finds the last version and every table as the models declare it,
  except for tables that were not so when a start stamped the database unchecked.
  `StampTellsSchema`: after migrations up and down, from any revision, the tables
  are what the stamp says, unless a migration stopped half way, which SQLite does
  not undo; indices that were missing at an unchecked stamp go on missing.
  `SearchTrusted`: at the head an index with triggers is current, although rows are
  written while it is rebuilt, since the triggers are made before it is filled. It
  leaves out what `doubt` records: an index whose reindex stopped before it was
  filled, one that outlived its table, and one of a table that was written to before
  a starting worker had made its triggers; it says nothing of a table that has lost
  its triggers. `StartsHarmless`, `ComesUp`: workers that start at once may make
  each other fail, but change nothing that is there, and one comes up unless a table
  was left without its indices or a migration half done. `StartupAssumption` also
  checks that the tables of the models are those the last migration leaves. Two
  workers race on a new database without a command, since workers are away while
  migrations build one: what these leave meets one worker. What a command does
  beside two is seen from versions 19 and 23. From version 19 the commands run the
  last four migrations; two commands are an upgrade or a kill, and then another way.
  One kill suffices for each way of breaking off; more would add broken states on
  top of broken ones. Nearly all tables have indices; the four that are taken to
  have them are one that early migrations touch, one with full text search, one that
  is copied often, and the last that is made, so that a kill hits each kind of
  place. All of them (`AllIndexed`) are in `startup_stamp`.

**Divergences.** `scheduler_single` shows that a worker which never started the
scheduler releases the semaphore when it stops (`scheduler/base.py:54`), against
the docstring of `start_scheduler` (`base.py:100`). `startup_stamp` shows that a
start which is killed between the CREATE TABLE and the CREATE INDEX of a table
(`db.py:120`) leaves a table that the next start takes for made. That start stamps
the database (`db.py:151`), though "we know we are at the head since we just made
the db" (`db.py:149`), and serves it without the index, and every later start is
refused. The modules follow the code
also in these cases, which no run of their own shows; each is at its hazard in
`PROJECT.json`:

- `review.py:249` lets a root suspend a root, which `account.py:194` rules out;
- two overlapping resolutions of a report are both carried out (`report.py:345`);
- an account can claim one dataset twice, by overlapping requests
  (`claims.py:106`: NULLs are distinct to the constraint);
- `/next?claim=false` claims as well (`claims.py:194`, against `claims.py:191`);
- the url of a deleted webseed stays in the torrent file (`uploads.py:226`);
- a verdict may be written to the row of another url which got the id of a deleted
  row (`services/webseeds.py:109`), and so an url that was not validated into the
  file, against `tests/test_models/test_torrent.py:130`;
- a round in which no tracker answers raises before it records the failures
  (`tracker_scrape.py:795`);
- a 429 is backed off as if there had been no response (`tracker_scrape.py:474`,
  against the comment at 528);
- a start that refuses an old database has already made the tables it lacks, so
  that the migration it asks for fails at them (`db.py:120`, `db.py:157`);
- a reindex that is killed before it has filled an index leaves an empty one that
  has its triggers (`models/mixins/search.py:226`); a migration that copies a table,
  as `20251022-624409a_add_reports.py` does, takes its triggers away, and nothing
  makes them again at a start; rows written between the making of a table and
  that of its triggers by a starting worker are not in the index;
- a replacement that is refused for lack of a tracker has already deleted the old
  torrent (`api/routes/torrents.py:81`).

*Deadlock* is checked for `Startup`, where a worker can always start. Elsewhere it
is not: a behaviour ends when the bound on requests, scrapes or stops is reached
or there is nothing left to do, and the system idles legally.

*Symmetry* is used for requests, workers and values that start alike, only in
runs without liveness.

*Fairness* is assumed in five modules, weak everywhere. `Webseeds`: a handler that
was started goes on, the scheduler wakes up for a due job, and a validation ends,
since each fetch has a timeout and a bounded number of retries. `Scraping`: the
interval job starts a round when something is due, every request to a tracker has
a timeout, the semaphore passes the turn on, the recording goes on, and time
passes. `UdpTracker`: the event loop goes on with a client that can go on, and its
timers fire. `Scheduler`: gunicorn replaces a worker that is gone, the joins of a
stopping worker have timeouts, and a spawned process runs until it ends.
`Startup`: a start that has begun goes on, and a worker that is gone is started
again. No request has to arrive, no command is given, and answers are never
assumed to be good ones.

## What is proved

The theorems hold for any values of the constants that satisfy the assumptions
of the modules, so for any number of accounts, items, urls, workers and
requests. For each component an inductive invariant is
stated (`Inv`; in `AccountsProofs` there are two), shown by one lemma per action,
and the properties are derived from it.

**`AccountsProofs`**, from `ScopeNamesAssumption` and `AccountsAssumption` (some
account is root at the start, and it is one of the accounts; "suspension" is not
the name of a scope).

- `TypeCorrect`: `Spec => []TypeOK`, action by action.
- `RootSurvives`: `Spec => []SomeActiveRoot`. The property is not inductive: a
  request that passed its checks long ago could take the last root away. The
  inductive invariant `Undisturbed` adds that, as long as requests have not
  overlapped, at most one is in flight, and that what it loaded is still what
  the database says (`Cleared`): its actor is not suspended, its target's scopes
  are those it saw, and the rules of its operation hold of them now. Then each
  commit is checked against the rules: a suspension or revocation that hits a
  root is that of another root, who stays.
- `NoCoupEver`: `Spec => NoCoup`, from the same invariant.
- `AuditTrue`: `Spec => []AuditTellsTruth`. The property speaks of quiet states
  only; `Truthful` adds what is true in between: every row agrees with its account
  but the one that the request in flight is about (`Between`), and what that
  request has brought about already (`Underway`) is what the missing half of it
  will make true. It rests on `Undisturbed`: a revocation that deletes nothing
  is logged truly since the scopes it loaded are those there are.

**`ModerationProofs`**, from `ScopeNamesAssumption` and `ModerationAssumption`
(owners and targets are what they refer to, no item is an account).

- `TypeCorrect`, `NamesFollow` (`NameIffPresent`), `AuditTrue` (`AuditHolds`),
  `ResolvesOnce` (`ResolvedOnceAndFully`). A request is up to five commits, so
  `Inv` says of each that is in flight which steps its operation may be at
  (`Ordered`) and what its commits have brought about that no other request can
  undo (`Achieved`: the row is logged, the culprit suspended, the item removed,
  the upload renamed or still to be renamed by it). This part holds under any
  overlap. `Existing` says that what is reported or has a row in the log exists.
  `Solo` is the part for requests that do not overlap: one in flight, what it
  saw is what there is (`Undisturbed`), and the newest row tells whether an item
  is approved unless the request is between change and row (`Told`).
- `ImplementsDesk`: `Spec => DeskSpec`, the refinement of `ReportDesk`, whatever
  overlaps and breaks off. `DeskStep` maps each step: opening a report, closing it,
  the commit that removes items and the one that suspends are steps of the desk,
  all others stutter. Closing needs `Achieved`: by then the effect of the action
  is there, and removals and suspensions are never taken back.

**`ClaimsProofs`**, from `ClaimsAssumption` (parts are positive numbers, the
visitor is no account).

- `TypeCorrect`, which includes that ids are unique although they come back:
  `Accounted` keeps the ids of rows, and those of rows still to come, within the
  number of requests served, so that the next id is in range.
- `OneClaimEach` (`OneClaim`): for parts from the constraint alone; for the dataset
  itself from `Undisturbed`, by which a request without company still has the
  true rows in hand (`Fresh`) when it inserts.
- `Served` (`ClaimsServed`): the deletion by id hits the row that was loaded, since
  in between nobody else has deleted or inserted.

**`WebseedsProofs`**, from `WebseedsAssumption` (the urls are finitely many, the
pool has a place).

- `TypeCorrect`: rows are one per id and one per url, and ids stay in bounds
  (`Accounted`, as in `ClaimsProofs`).
- `ServesProven` (`OnlyProvenServed`): `Intended` says that an open transaction is
  about to write "validated" only for an url that passed. Transactions write by
  id, so this needs `Proven`, unless transactions have overlapped and a webseed
  was deleted: the row with the id a transaction has read is there and of the url
  it was read for, what may be served has passed, and so has what is in the file.
  `Apart` (without overlap one transaction is open at most) keeps it through
  deletions. An earlier form of the property claimed it of any overlap. It could
  not be proved, for good reason: see the run `webseeds`.
- `InSync` (`InSyncAlone`): the file is written by listeners before the commit, so
  the invariant is about what the rows will be once the open transaction commits
  (`InStep`).

**`Scheduler`, in `WebseedsProofs`**, which extends it in the same way (`SchedulerSpec`,
`SchedulerTypeOK`), from `SchedulerAssumption` (the name for no server is not that of
one), with the invariant `SchedulerInv`.

- `SchedulerTypeCorrect`: `Budgeted` bounds the semaphore by the stops made.
- `Alone` (`OneSchedulerAlone`): `Single` says that, while no stranger has released,
  the semaphore is free at most once and only when nobody owns or runs a
  scheduler, and that what runs is what is owned; `Placed` says who may own what
  in each mode.
- `StoreInLine` (`StoreFollowsConfig`): every job that a running scheduler has been
  through is in line (`Stored`), since others that go through the same store put
  it in line too.

**`ScrapingProofs`**, from `ScrapingAssumption` (UDP and HTTP trackers are apart, links
are of trackers and torrents, the configured intervals, pools and multipliers are
positive and known for "default", the longest back-off is reached by MaxErrors).

- `TypeCorrect`: back-offs are between a tick and max_backoff whatever the error
  (`BackoffBounds`). 2^n is a positive number as that of the subsets of an
  interval of n (`PowerOfTwo`): the recursion that defines it is out of reach.
- `FailuresCount` (`CountsFailures`): the property speaks of the time between rounds.
  For each tracker the invariant says what is unfinished: nothing is known of it
  before its turn (`Ordered`), and after its turn the number of rounds it has
  failed in a row is `Outlook`, n_errors as the end of the round is going to leave
  it (`Counted`). A tracker that has answered in its turn has no failed round
  behind it, even one that `doubtful` excuses, so that the end of the round leaves
  no doubt about it.
- `FailuresRest` (`RecordedFailureRests`, an action property): the handler is the
  only step that ends a round whose errors were counted, and by then the trackers
  that failed are those it goes through, each for at least a tick. `Silent` accounts
  for those that said nothing but 429, on which `CountsFailures` depends too.

**`UdpTracker`, in `ScrapingProofs`**, from `UdpTrackerAssumption` (at least one
page, id and scrape), with the invariant `UdpInv`. `ScrapingProofs` extends both
modules, so the specification of `UdpTracker` is called `UdpSpec` and its type
invariant `UdpTypeOK`. The two specifications share no variable.

- `UdpTypeCorrect`: in particular a page opens two sockets at most (`Bounded`).
- `NumbersAreOwn` (`OwnNumbers`): all that was ever sent over the socket that is
  open now was sent for the page the client is at (`AtIts`), so an answer that
  arrives there, first or repeated, is of that page. Transaction ids play no
  part in the argument, since all pages of a connection share one.
- `OnePagePerCycle` (`OverflowLosesOnePage`): `UdpCounted` allows for the id that does
  not fit having been drawn already in the turn that is not over.

**`TorrentsProofs`**, from `TorrentsAssumption` (no file is not a content; the bounds
are numbers).

- `TypeCorrect`: ids come back and any request may insert, so `Accounted` keeps the
  ids of torrents and of uploads, and the number of times the files of a torrent
  were listed, within what was asked for, less what requests under way may still
  insert. `DataStep` shows it under any overlap and any failure, together with
  unique infohashes and references to uploads that exist (`Unique`, `Referring`).
- `FileOfRow` (`RowMatchesFile`) and `UploadSupplied` (`UploadKeepsTorrent`) follow from
  `Orderly`, which speaks of the states in which no request was cut off and no
  two about one torrent have overlapped: requests about one torrent are `Apart`;
  what a request has in hand is what is there (`InHand`: the row it is to delete or
  to edit, no row and its own file where it is to insert); a row is matched by
  its file unless a request has yet to finish it (`RowsHold`); and an upload has one
  torrent, or one request that is about to give it one, or was left without
  (`Provided`). Steps of different torrents do interleave: `StepOrderly` says that a
  step which leaves other infohashes alone (`Untouched`) has only its own request,
  rows and uploads to answer for, and there is one lemma per action that does so.
  Uploads are not confined to an infohash, so each action argues for all of them.

**`EditsProofs`**, from `EditsAssumption` (no row is not a row, and leaving a
collection alone is not a collection).

- `TypeCorrect`: every commit ends a request, so that the commits and the requests
  under way are no more than the requests there were (`Within`), and no row has the
  time of a commit still to come (`Dated`).
- `HistoryReads` (`HistoryHolds`). A version is one snapshot per table, and what a
  history table says of a time is its latest rows by then. So a commit has two
  things to show: that reading at any earlier time is not disturbed by its rows,
  which have the time of now (`Dated`), and that reading now gives what it leaves in
  the tables (`ReadNow`), with one lemma for each table that it versions
  (`UrlVersions`, `LinkVersions`, `PartVersions`). The latter needs that the tables
  before were what the last commit left (`Begun`), and that an edit holds the
  dataset as it is (`Solo`), which is true only without overlap: then the
  collections it compares with are those of the tables. A roll-back writes neither,
  a commit that finds nothing changed makes no version, and there the reading of now
  falls back on the version before.
- `EditsKeepOthers` (`EditsTouchOwnFields`, an action property), under any overlap: an
  UPDATE sets only the columns that changed in the session that commits.

**`StartupProofs`**, from `StartupAssumption` (the migrations are lists of steps on
tables, the models declare the tables of the last version, accounts can be
searched). Nothing is assumed of what the migrations do, nor of how many commands
are given and processes killed.

- `TypeCorrect`: with it comes that a migration always has a revision to go to: one
  that goes up is below the head, one that goes down above the first (`Climbs`).
- `ServesOnlyHead` (`ServesHead`): `Relies` says what each worker may rely on, by
  how far its start has come. Past the check of the version the stamp is head and
  every table is whole that was not presumed to be (`AtHead`). It gets there in one
  of two ways: `command.check` has found all tables whole, or the database had no
  stamp, and whichever tables were not whole at the stamp are those presumed. It
  stays so: a migration that goes up is excluded by the version; one that goes down,
  or up from nothing, by the workers that are not `Away` (`NotExclusive`); and a
  table that another start makes, or makes the indices of, was missing or without
  them, hence presumed already (`MakeTableInv`, `MakeIndexesInv`). A worker that is
  about to stamp may do so although another was faster. That only a killed start
  leaves a root without scopes is `BareRoot`.
- `StartsDoNoHarm` (`StartsHarmless`, an action property): a table is made only where
  there was none, and a stamp is written over one only if it is the same (`Relies`).

An earlier form of `ServesHead` did without `presumed`, and its proof needed that a
new database is given no command. Since `create_all` is not atomic that is not
enough (`startup_stamp`), and with the condition it is not needed.

**Only model-checked.** `StampTellsSchema` and `SearchTrusted` of `Startup` are about
what the 23 migrations of the program do, step by step; of other lists they are
false. To prove them is to evaluate the migrations, which is what TLC does. Out of
reach of the prover are liveness under fairness and ENABLED (`Decided`,
`AskedAgain`, `ScrapeEnds`, `OneSchedulerInTheEnd`, `ComesUp`). `scheduler_single` is a
counterexample, and there is nothing to prove. No module declares a RECURSIVE operator.
All the other invariants and action properties of the runs are stated by a theorem.

## What is not modelled, and the plan

Planned, in this order:

1. A composition of `Webseeds` and `Torrents`, which share the torrent file: a
   replacement while a validation of the old torrent runs.
2. The cascade from a removed dataset to its parts, in `Moderation`.

Not modelled, since nothing here depends on it or it keeps no state: the page
counter and statistics (derived data), feeds, web pages, RDF, search queries,
registration and login (they change neither scopes nor suspensions), the command
line apart from clearing back-offs and reindexing (`maintain webseeds validate`
queues the jobs that `Webseeds` has already), configuration, seed data for
development. In modelled components: the cascade from a removed dataset to its
parts, external identifiers, paths of parts, and the history of uploads and
torrents, which is made by the functions `Edits` models. What a webseed
validation hashes and what bencode and the UDP packets look like is data no
property here tells apart.
