------------------------------- MODULE Startup -------------------------------
(***************************************************************************)
(* How the database comes to have its tables: the web workers, each of     *)
(* which makes the missing ones when it starts, and the administrator, who *)
(* migrates the database and rebuilds the search tables.                   *)
(*                                                                         *)
(* SQLite makes every CREATE, DROP and ALTER permanent at once, until the  *)
(* first INSERT, UPDATE or DELETE of a connection opens a transaction: a   *)
(* table is there before its indices are, and they before its search.      *)
(* What a migration does from then on, its copies of tables included,      *)
(* takes effect together with the new version.                             *)
(*                                                                         *)
(* The administrator never downgrades the database under running workers,  *)
(* nor builds a new one by migrations while workers start on it.  He may   *)
(* be stopped in the middle of building one, and workers start then.       *)
(***************************************************************************)
EXTENDS Integers, Sequences, FiniteSets, FiniteSetsExt, Functions

CONSTANTS
    Workers,
    Tables,       \* every table there ever was
    Revisions,    \* the migrations: what up and down do, step by step
    Models,       \* the tables of the models, in the order create_all makes them
    Indexed,      \* the tables that are made with indices
    Searchable,   \* the tables with full text search, in the order of reindex
    Deployments,  \* version first served at, workers, bound: commands given
    MaxCrashes    \* bound: processes killed in a behaviour

VARIABLES
    schema,     \* table -> the revisions whose changes it has
    partial,    \* tables that lack some of it: indices yet to be made, or never
    copies,     \* tables of which an _alembic_tmp_ copy was left behind
    version,    \* the stamp: 0 is none, n the n-th revision
    search,     \* table -> its full text search
    seeded,     \* the rows of the scopes are there
    root,       \* the root account
    worker,     \* worker -> how far its start has come
    admin,      \* what the administrator's command is doing
    commands,   \* that the administrator may still give
    crashes,
    torn,       \* history: a migration has stopped half way
    doubt,      \* history: tables whose index may be of other rows than theirs
    presumed    \* history: tables that were not whole when a start stamped head

vars == <<schema, partial, copies, version, search, seeded, root, worker, admin,
          commands, crashes, torn, doubt, presumed>>

head == Len(Revisions)
ModelTables == Range(Models)
SearchTables == Range(Searchable)

Off == [at |-> "off", todo |-> {}]
Absent == [at |-> "absent", todo |-> {}]
Idle == [at |-> "idle"]
-----------------------------------------------------------------------------
AllRevs == UNION {UNION {s.revs : s \in Range(Revisions[n].up)} : n \in 1..head}

(* A table that is not there has no revision.                              *)
TablesOf(s) == {t \in Tables : s[t] # {}}

InPlace == {"create", "drop", "alter", "revert"}
Copying == {"copy", "restore"}
MigrationStep ==
    [op : InPlace \cup Copying \cup {"fill", "sift", "search"}, table : Tables, revs : SUBSET AllRevs]

Gives(step, rev) == step.op \in {"create", "alter", "copy"} /\ rev \in step.revs
Takes(step, rev) ==
    \/ step.op \in {"create", "drop"}
    \/ step.op \in {"revert", "restore"} /\ rev \in step.revs

(* After some steps, a table has the changes that the last step to touch   *)
(* them gave it.                                                           *)
After(s, steps) ==
    [t \in Tables |-> {rev \in AllRevs :
        LET touch == {i \in DOMAIN steps :
                         steps[i].table = t /\ (Gives(steps[i], rev) \/ Takes(steps[i], rev))}
        IN  IF touch = {} THEN rev \in s[t] ELSE Gives(steps[Max(touch)], rev)}]

(* A table that is there already, or is not, a column twice.               *)
Conflicts(s, step) ==
    \/ step.op = "create" /\ s[step.table] # {}
    \/ step.op \notin {"create", "search"} /\ s[step.table] = {}
    \/ step.op = "alter" /\ step.revs \subseteq s[step.table]
    \/ step.op = "revert" /\ step.revs \cap s[step.table] = {}

StepsOn(t, from, to) ==
    UNION {{s \in Range(Revisions[n].up) : s.table = t} : n \in from..to}

(* The schema of every version, by what each table has had since it was    *)
(* made; the models declare that of head.                                  *)
TableAt(t, n) ==
    LET made == {k \in 1..n : \E s \in StepsOn(t, k, k) : s.op \in {"create", "drop"}} IN
    IF made = {} \/ \E s \in StepsOn(t, Max(made), Max(made)) : s.op = "drop" THEN {}
    ELSE UNION {s.revs : s \in StepsOn(t, Max(made), n)}

SchemaAt == [n \in 0..head |-> [t \in Tables |-> TableAt(t, n)]]

HeadSchema == SchemaAt[head]

(* As the models declare it.                                               *)
Whole(t) == schema[t] = HeadSchema[t] /\ t \notin partial

ASSUME StartupAssumption ==
    /\ Revisions \in Seq([up : Seq(MigrationStep), down : Seq(MigrationStep)])
    /\ Deployments \subseteq [version : 0..head, workers : SUBSET Workers, commands : Nat]
    /\ Models \in Seq(Tables) /\ ModelTables = TablesOf(HeadSchema)
    /\ Indexed \subseteq Tables
    /\ Searchable \in Seq(ModelTables) /\ "accounts" \in SearchTables
    /\ MaxCrashes \in Nat

NoSearch == [index |-> FALSE, triggers |-> FALSE, current |-> FALSE]
FullSearch == [index |-> TRUE, triggers |-> TRUE, current |-> TRUE]

(* The triggers are three: a table that lacks one has none.  Before it is  *)
(* made, an index is current if it would be, of a table without rows.      *)

(* A copied or dropped table loses its triggers, and its index stays.      *)
(* The steps of a search make both, the index empty.                       *)
SearchAfter(f, steps) ==
    [t \in SearchTables |->
        LET touch == {i \in DOMAIN steps :
                         steps[i].table = t /\ steps[i].op \in Copying \cup {"drop", "search"}}
            made == \E i \in touch : steps[i].op = "search"
        IN  IF touch = {} THEN f[t]
            ELSE [index |-> f[t].index \/ made,
                  triggers |-> steps[Max(touch)].op = "search",
                  current |-> f[t].current /\ ~ made]]

(* What rows written to a table do to its search: nothing reaches an index *)
(* without triggers.                                                       *)
Written(f, t) == [f EXCEPT ![t].current = @ /\ f[t].triggers]

(* A trigger without its table makes the write fail.                       *)
Writable(t) == search[t].triggers => search[t].index
-----------------------------------------------------------------------------
Ats == {"absent", "off", "making", "indexes", "indexing", "triggering", "versioning",
        "stamping", "scopes", "seeding", "root", "enrolling", "granting", "serving"}

TypeOK ==
    /\ schema \in [Tables -> SUBSET AllRevs]
    /\ partial \subseteq Tables /\ copies \subseteq Tables
    /\ version \in 0..head
    /\ search \in [SearchTables -> [index : BOOLEAN, triggers : BOOLEAN, current : BOOLEAN]]
    /\ seeded \in BOOLEAN
    /\ root \in {"none", "bare", "scoped"}
    /\ worker \in [Workers -> [at : Ats, todo : SUBSET ModelTables]]
    /\ \/ admin = Idle
       \/ /\ admin.at = "migrating" /\ admin.way \in {"up", "down"}
          /\ admin.step \in Nat \ {0} /\ admin.tail \in BOOLEAN
       \/ /\ admin.at \in {"drop", "untrigger", "index", "trigger", "rebuild"}
          /\ admin.next \in 1..Len(Searchable)
    /\ commands \in Nat /\ crashes \in 0..MaxCrashes
    /\ torn \in BOOLEAN
    /\ doubt \subseteq SearchTables
    /\ presumed \subseteq Tables

(* A database that was served at an older version, or none at all.         *)
Init ==
    /\ \E d \in Deployments :
        /\ version = d.version
        /\ schema = SchemaAt[d.version]
        /\ search = [t \in SearchTables |->
               IF version >= 3 \/ (version > 0 /\ t # "uploads") THEN FullSearch ELSE NoSearch]
        /\ seeded = (version > 0)
        /\ root = IF version > 0 THEN "scoped" ELSE "none"
        /\ worker = [w \in Workers |-> IF w \in d.workers THEN Off ELSE Absent]
        /\ commands = d.commands
    /\ partial = {} /\ copies = {}
    /\ admin = Idle
    /\ crashes = 0
    /\ torn = FALSE
    /\ doubt = {} /\ presumed = {}

database == <<schema, partial, copies, version, search, seeded, root>>
history == <<torn, doubt, presumed>>
counts == <<commands, crashes>>

Goto(w, at) == worker' = [worker EXCEPT ![w].at = at]
Fail(w) == worker' = [worker EXCEPT ![w] = Off]

(* The queries of a start need the columns of the models.                  *)
Queryable(t) == schema[t] = HeadSchema[t]
-----------------------------------------------------------------------------
(* What the administrator does not do while workers run.                   *)
Exclusive(way) == way = "down" \/ version = 0 \/ ~ seeded

(* Mutant of missing: tables that a migration dropped are made again.      *)
ever_known == Tables \ TablesOf(schema)

missing == ModelTables \ TablesOf(schema)

(* create_all looks for every table of the models first.                   *)
create_tables(w) ==
    /\ worker[w].at = "off"
    /\ ~ (admin.at = "migrating" /\ Exclusive(admin.way))
    /\ worker' = [worker EXCEPT ![w] = [at |-> "making", todo |-> missing]]
    /\ UNCHANGED <<database, admin, counts, history>>

NextTable(w) == Models[CHOOSE i \in DOMAIN Models :
                           /\ Models[i] \in worker[w].todo
                           /\ \A j \in 1..(i - 1) : Models[j] \notin worker[w].todo]

(* On to the search of the table, if it has one, or to the next table.     *)
Made(w) ==
    IF NextTable(w) \in SearchTables /\ worker[w].at # "triggering"
    THEN Goto(w, "indexing")
    ELSE worker' = [worker EXCEPT ![w] = [at |-> "making", todo |-> @.todo \ {NextTable(w)}]]

(* CREATE TABLE.  The table is empty: an index that has outlived the one   *)
(* before it has rows that it has not.                                     *)
make_table(w) ==
    LET t == NextTable(w) IN
    /\ worker[w].at = "making" /\ worker[w].todo # {}
    /\ IF schema[t] # {}
       THEN Fail(w) /\ UNCHANGED <<schema, partial, search>>
       ELSE /\ schema' = [schema EXCEPT ![t] = HeadSchema[t]]
            /\ partial' = partial \cup ({t} \cap Indexed)
            /\ search' = IF t \in SearchTables THEN [search EXCEPT ![t].current = ~ search[t].index] ELSE search
            /\ IF t \in Indexed THEN Goto(w, "indexes") ELSE Made(w)
    /\ UNCHANGED <<copies, version, seeded, root, admin, counts, history>>

(* Every CREATE INDEX of the table.                                        *)
make_indexes(w) ==
    LET t == NextTable(w) IN
    /\ worker[w].at = "indexes"
    /\ IF t \in partial
       THEN Made(w) /\ partial' = partial \ {t}
       ELSE Fail(w) /\ UNCHANGED partial
    /\ UNCHANGED <<schema, copies, version, search, seeded, root, admin, counts, history>>

(* An index that is there is kept, with what it holds.                     *)
after_create(w) ==
    LET t == NextTable(w) IN
    \/ /\ worker[w].at = "indexing"
       /\ search' = [search EXCEPT ![t].index = TRUE]
       /\ doubt' = IF search[t].index THEN doubt \cup {t} ELSE doubt
       /\ Goto(w, "triggering")
       /\ UNCHANGED <<schema, partial, copies, version, seeded, root, admin, counts, torn, presumed>>
    \/ /\ worker[w].at = "triggering"
       /\ IF search[t].triggers
          THEN Fail(w) /\ UNCHANGED search
          ELSE search' = [search EXCEPT ![t].triggers = TRUE] /\ Made(w)
       /\ UNCHANGED <<schema, partial, copies, version, seeded, root, admin, counts, history>>

(* Rows written to a table while a start has yet to make its triggers.     *)
Write(t) ==
    /\ search' = Written(search, t)
    /\ doubt' = IF \E v \in Workers : worker[v].at \in {"indexes", "indexing", "triggering"}
                                        /\ NextTable(v) = t
                THEN doubt \cup {t} ELSE doubt

tables_made(w) ==
    /\ worker[w].at = "making" /\ worker[w].todo = {}
    /\ Goto(w, "versioning")
    /\ UNCHANGED <<database, admin, counts, history>>

(* Mutant of up_to_date: every stamp will do.                              *)
stamped == version # 0

(* command.check: at the head, and what is there is what the models say.   *)
up_to_date == version = head /\ copies = {} /\ \A t \in Tables : Whole(t)

(* Mutant of unstamped: a database that is behind is stamped as well.      *)
behind == version < head

unstamped == version = 0

ensure_alembic_version(w) ==
    /\ worker[w].at = "versioning"
    /\ \/ unstamped /\ Goto(w, "stamping")
       \/ ~ unstamped /\ up_to_date /\ Goto(w, "scopes")
       \/ ~ unstamped /\ ~ up_to_date /\ Fail(w)
    /\ UNCHANGED <<database, admin, counts, history>>

(* Whatever tables there are: nothing is compared.                         *)
stamp(w) ==
    /\ worker[w].at = "stamping"
    /\ version' = head
    /\ presumed' = presumed \cup {t \in Tables : ~ Whole(t)}
    /\ Goto(w, "scopes")
    /\ UNCHANGED <<schema, partial, copies, search, seeded, root, admin, counts, torn, doubt>>
-----------------------------------------------------------------------------
(* Rows are read in one step and committed in another.  A row that another *)
(* worker has added meanwhile breaks a unique constraint: the start fails. *)

(* Mutant of scopes_missing: every start adds the rows.                    *)
scopes_wanted == TRUE

scopes_missing == ~ seeded

ensure_enum_values(w) ==
    \/ /\ worker[w].at = "scopes"
       /\ Goto(w, IF scopes_missing THEN "seeding" ELSE "root")
       /\ UNCHANGED <<database, admin, counts, history>>
    \/ /\ worker[w].at = "seeding"
       /\ IF seeded THEN Fail(w) ELSE Goto(w, "root")
       /\ seeded' = TRUE
       /\ UNCHANGED <<schema, partial, copies, version, search, root, admin, counts, history>>

look_for_root(w) ==
    /\ worker[w].at = "root"
    /\ IF ~ Queryable("accounts") THEN Fail(w)
       ELSE Goto(w, IF root = "none" THEN "enrolling" ELSE "serving")
    /\ UNCHANGED <<database, admin, counts, history>>

CommitAccount(w, next) ==
    /\ worker[w].at = "enrolling"
    /\ IF root = "none" /\ Writable("accounts")
       THEN root' = "bare" /\ Write("accounts") /\ Goto(w, next)
       ELSE Fail(w) /\ UNCHANGED <<root, search, doubt>>
    /\ UNCHANGED <<schema, partial, copies, version, seeded, admin, counts, torn, presumed>>

(* The account is committed before it is given its scopes.                 *)
create_account(w) == CommitAccount(w, "granting")

grant_scopes(w) ==
    /\ worker[w].at = "granting"
    /\ root' = "scoped"
    /\ Goto(w, "serving")
    /\ UNCHANGED <<schema, partial, copies, version, search, seeded, admin, counts, history>>

ensure_root(w) == look_for_root(w) \/ create_account(w) \/ grant_scopes(w)

(* A request adds, changes or deletes a row of a searchable table.         *)
write(w, t) ==
    /\ worker[w].at = "serving"
    /\ Writable(t)
    /\ Write(t)
    /\ UNCHANGED <<schema, partial, copies, version, seeded, root, worker, admin, counts, torn, presumed>>

stop(w) ==
    /\ worker[w].at = "serving"
    /\ Fail(w)
    /\ UNCHANGED <<database, admin, counts, history>>

(* Killed in the middle of its start.                                      *)
kill(w) ==
    /\ worker[w].at \notin {"absent", "off", "serving"}
    /\ crashes < MaxCrashes
    /\ crashes' = crashes + 1
    /\ Fail(w)
    /\ UNCHANGED <<commands, database, admin, history>>
-----------------------------------------------------------------------------
Migrating == admin.at = "migrating"

Steps == IF admin.way = "up" THEN Revisions[version + 1].up ELSE Revisions[version].down

NextStep == Steps[admin.step]
NextOp == IF admin.step <= Len(Steps) THEN NextStep.op ELSE "commit"
Rest == SubSeq(Steps, admin.step, Len(Steps))

Command ==
    /\ admin = Idle
    /\ commands > 0
    /\ commands' = commands - 1

StartMigration(way) ==
    /\ Command
    /\ \/ way = "up" /\ version < head
       \/ way = "down" /\ version > 0
    /\ Exclusive(way) => \A w \in Workers : worker[w].at \in {"absent", "off"}
    /\ admin' = [at |-> "migrating", way |-> way, step |-> 1, tail |-> FALSE]
    /\ UNCHANGED <<database, worker, crashes, history>>

(* The tables that some steps make or drop, with all that belongs to them. *)
Renewed(steps) == {steps[i].table : i \in {j \in DOMAIN steps : steps[j].op \in {"create", "drop"}}}

(* A step that is permanent at once.                                       *)
MigrateInPlace ==
    /\ Migrating /\ ~ admin.tail
    /\ NextOp \in InPlace
    /\ ~ Conflicts(schema, NextStep)
    /\ schema' = After(schema, <<NextStep>>)
    /\ partial' = partial \ Renewed(<<NextStep>>)
    /\ search' = SearchAfter(search, <<NextStep>>)
    /\ admin' = [admin EXCEPT !.step = @ + 1]
    /\ UNCHANGED <<copies, version, seeded, root, worker, counts, history>>

(* The copy is made, and is permanent; filling it opens the transaction.   *)
MakeCopy ==
    /\ Migrating /\ ~ admin.tail
    /\ NextOp \in Copying
    /\ NextStep.table \notin copies /\ schema[NextStep.table] # {}
    /\ copies' = copies \cup {NextStep.table}
    /\ admin' = [admin EXCEPT !.tail = TRUE]
    /\ UNCHANGED <<schema, partial, version, search, seeded, root, worker, counts, history>>

InTail == admin.tail \/ NextOp \notin InPlace \cup Copying

(* A copy that an earlier step of the tail has left is there no longer.    *)
TailConflicts ==
    LET copied == IF admin.tail THEN {NextStep.table} ELSE {} IN
    \E i \in admin.step..Len(Steps) :
        \/ Conflicts(After(schema, SubSeq(Steps, admin.step, i - 1)), Steps[i])
        \/ Steps[i].op \in Copying /\ Steps[i].table \in copies \ copied

(* Up to the commit, with the new version; and on with the next revision.  *)
CommitMigration ==
    /\ Migrating /\ InTail /\ ~ TailConflicts
    /\ schema' = After(schema, Rest)
    /\ partial' = partial \ Renewed(Rest)
    /\ search' = SearchAfter(search, Rest)
    /\ copies' = IF admin.tail THEN copies \ {NextStep.table} ELSE copies
    /\ version' = IF admin.way = "up" THEN version + 1 ELSE version - 1
    /\ admin' = IF admin.way = "up" /\ version' < head
                THEN [admin EXCEPT !.step = 1, !.tail = FALSE]
                ELSE Idle
    /\ UNCHANGED <<seeded, root, worker, counts, history>>

(* A migration that stops has done something, if not all, of its work.     *)
Half == admin.step > 1 \/ admin.tail

StopMigration ==
    /\ admin' = Idle
    /\ torn' = (torn \/ Half)
    /\ UNCHANGED <<database, worker, doubt, presumed>>

(* A step may need an index that its table lacks.                          *)
Hindered == partial \cap (IF InTail THEN {Rest[i].table : i \in DOMAIN Rest} ELSE {NextStep.table}) # {}

Blocked ==
    \/ ~ InTail /\ NextOp \in InPlace /\ Conflicts(schema, NextStep)
    \/ ~ InTail /\ NextOp \in Copying
           /\ (NextStep.table \in copies \/ schema[NextStep.table] = {})
    \/ InTail /\ TailConflicts

FailMigration ==
    /\ Migrating /\ (Blocked \/ Hindered)
    /\ StopMigration
    /\ UNCHANGED counts

(* Rows that the migration cannot bring over.                              *)
RejectRows ==
    /\ Migrating /\ InTail /\ \E i \in DOMAIN Rest : Rest[i].op = "sift"
    /\ StopMigration
    /\ UNCHANGED counts

KillMigration ==
    /\ Migrating
    /\ crashes < MaxCrashes
    /\ crashes' = crashes + 1
    /\ StopMigration
    /\ UNCHANGED commands

(* Between the statements of one step: a table is made and its indices are *)
(* not, or they are gone and the table is not.                             *)
TearMigration ==
    /\ Migrating /\ ~ admin.tail
    /\ NextOp \in InPlace /\ NextStep.table \in Indexed
    /\ ~ Conflicts(schema, NextStep)
    /\ crashes < MaxCrashes
    /\ crashes' = crashes + 1
    /\ schema' = IF NextOp \in {"create", "alter"} THEN After(schema, <<NextStep>>) ELSE schema
    /\ partial' = partial \cup {NextStep.table}
    /\ admin' = Idle
    /\ torn' = TRUE
    /\ UNCHANGED <<copies, version, search, seeded, root, worker, commands, doubt, presumed>>
-----------------------------------------------------------------------------
Reindexing == admin.at \in {"drop", "untrigger", "index", "trigger", "rebuild"}
Reindexed == Searchable[admin.next]

StartReindex ==
    /\ Command
    /\ SearchTables \subseteq TablesOf(schema)
    /\ admin' = [at |-> "drop", next |-> 1]
    /\ UNCHANGED <<database, worker, crashes, history>>

fts_drop ==
    \/ /\ admin.at = "drop"
       /\ search' = [search EXCEPT ![Reindexed].index = FALSE, ![Reindexed].current = FALSE]
       /\ admin' = [admin EXCEPT !.at = "untrigger"]
       /\ UNCHANGED <<schema, partial, copies, version, seeded, root, worker, counts, history>>
    \/ /\ admin.at = "untrigger"
       /\ search' = [search EXCEPT ![Reindexed].triggers = FALSE]
       /\ admin' = [admin EXCEPT !.at = "index"]
       /\ UNCHANGED <<schema, partial, copies, version, seeded, root, worker, counts, history>>

Rebuilt == IF admin.next < Len(Searchable) THEN [at |-> "drop", next |-> admin.next + 1] ELSE Idle

(* Mutant of fts_rebuild: the index is filled before it has its triggers.  *)
fts_fill_first ==
    \/ /\ admin.at = "index"
       /\ search' = [search EXCEPT ![Reindexed].index = TRUE, ![Reindexed].current = TRUE]
       /\ admin' = [admin EXCEPT !.at = "trigger"]
       /\ UNCHANGED <<schema, partial, copies, version, seeded, root, worker, counts, history>>
    \/ /\ admin.at = "trigger"
       /\ search' = [search EXCEPT ![Reindexed].triggers = TRUE]
       /\ admin' = [admin EXCEPT !.at = "rebuild"]
       /\ UNCHANGED <<schema, partial, copies, version, seeded, root, worker, counts, history>>
    \/ /\ admin.at = "rebuild"
       /\ doubt' = doubt \ {Reindexed}
       /\ admin' = Rebuilt
       /\ UNCHANGED <<database, worker, counts, torn, presumed>>

(* The index has been dropped and not been filled again.                   *)
BreakOff ==
    /\ admin' = Idle
    /\ doubt' = IF admin.at = "drop" THEN doubt ELSE doubt \cup {Reindexed}
    /\ UNCHANGED <<commands, database, worker, torn, presumed>>

(* after_create makes the index, empty, and the triggers, and raises if    *)
(* there are some; the rebuild command of FTS5 then reads every row.       *)
fts_rebuild ==
    \/ /\ admin.at = "index"
       /\ search' = [search EXCEPT ![Reindexed].index = TRUE]
       /\ admin' = [admin EXCEPT !.at = "trigger"]
       /\ UNCHANGED <<schema, partial, copies, version, seeded, root, worker, counts, history>>
    \/ /\ admin.at = "trigger" /\ ~ search[Reindexed].triggers
       /\ search' = [search EXCEPT ![Reindexed].triggers = TRUE]
       /\ admin' = [admin EXCEPT !.at = "rebuild"]
       /\ UNCHANGED <<schema, partial, copies, version, seeded, root, worker, counts, history>>
    \/ /\ admin.at = "trigger" /\ search[Reindexed].triggers
       /\ BreakOff
       /\ UNCHANGED crashes
    \/ /\ admin.at = "rebuild"
       /\ search' = [search EXCEPT ![Reindexed].current = TRUE]
       /\ doubt' = doubt \ {Reindexed}
       /\ admin' = Rebuilt
       /\ UNCHANGED <<schema, partial, copies, version, seeded, root, worker, counts, torn, presumed>>

KillReindex ==
    /\ Reindexing
    /\ crashes < MaxCrashes
    /\ crashes' = crashes + 1
    /\ BreakOff
-----------------------------------------------------------------------------
StartWorker(w) ==
    \/ create_tables(w) \/ make_table(w) \/ make_indexes(w) \/ after_create(w) \/ tables_made(w)
    \/ ensure_alembic_version(w) \/ stamp(w) \/ ensure_enum_values(w) \/ ensure_root(w)

Migrate ==
    \/ \E way \in {"up", "down"} : StartMigration(way)
    \/ MigrateInPlace \/ MakeCopy \/ CommitMigration \/ FailMigration \/ RejectRows
    \/ KillMigration \/ TearMigration

Reindex == StartReindex \/ fts_drop \/ fts_rebuild \/ KillReindex

Next ==
    \/ \E w \in Workers :
        \/ StartWorker(w) \/ stop(w) \/ kill(w)
        \/ \E t \in SearchTables : write(w, t)
    \/ Migrate
    \/ Reindex

(* A worker that has begun its start goes on, and one that is gone is      *)
(* started again by the service manager.                                   *)
Spec == Init /\ [][Next]_vars /\ \A w \in Workers : WF_vars(StartWorker(w))
-----------------------------------------------------------------------------
(* The revisions whose downgrade does nothing.                             *)
Kept == UNION {UNION {s.revs : s \in Range(r.up)} :
                  r \in {q \in Range(Revisions) : q.down = <<>>}}

(* StampTellsSchema: as long as no migration has stopped half way, the     *)
(* stamp tells what the tables are like, but for what an empty downgrade   *)
(* leaves, for tables only the models know of, which a refused start may   *)
(* have added (db.py create_tables makes them before it looks at the       *)
(* version), and for indices that were missing when a start stamped head.  *)
StampTellsSchema ==
    ~ torn /\ ~ Migrating =>
        \A t \in Tables :
            LET due == SchemaAt[version][t] IN
            \/ /\ due \subseteq schema[t] /\ schema[t] \subseteq due \cup Kept
               /\ t \in partial => t \in presumed
            \/ due = {} /\ schema[t] = HeadSchema[t]

(* KnownAtHead: a start only stamps a database that is as the models       *)
(* declare it: "we know we are at the head since we just made the db"      *)
(* (db.py ensure_alembic_version).                                         *)
KnownAtHead == \A w \in Workers : worker[w].at = "stamping" => \A t \in Tables : Whole(t)

(* ServesHead: whatever starts, migrations and kills have come before, a   *)
(* worker serves only a database that is stamped with the last version,    *)
(* with every table as the models declare it, indices included, but for    *)
(* tables that were not when a start stamped the database unchecked.  And  *)
(* there is a root account without scopes only while the start that made   *)
(* it goes on, or where such a start was killed between its two commits:   *)
(* ensure_root gives scopes only to an account it makes.                   *)
ServesHead ==
    /\ (\E w \in Workers : worker[w].at = "serving") =>
          version = head /\ \A t \in Tables \ presumed : Whole(t)
    /\ root = "bare" => crashes > 0 \/ \E w \in Workers : worker[w].at = "granting"

(* SearchTrusted: at the head, an index that has its triggers holds what   *)
(* its table does, although requests write rows while it is rebuilt.  Not  *)
(* so one whose reindex stopped before it was filled, which stays empty;   *)
(* one that outlived its table; and one of a table that rows were written  *)
(* to while the start that made it had yet to make its triggers.  Nor does *)
(* it say anything of a table that has lost its triggers.                  *)
SearchTrusted ==
    version = head /\ ~ Reindexing =>
        \A t \in SearchTables \ doubt :
            search[t].index /\ search[t].triggers => search[t].current

(* StartsHarmless: no start changes a table that is there, nor the stamp   *)
(* of a database that has one: "don't automatically migrate since it could *)
(* be destructive" (db.py ensure_alembic_version).                         *)
StartsHarmless ==
    [][~ Migrating =>
           /\ version # 0 => version' = version
           /\ \A t \in Tables : schema[t] # {} => schema'[t] = schema[t]]_vars

(* ComesUp: on a new database, or one that is at the head, a worker comes  *)
(* to serve, although workers that start at once make each other fail.     *)
(* There must be no table left without its indices, by a start or a        *)
(* migration that was stopped: every start on it is refused.               *)
Making == {NextTable(w) : w \in {v \in Workers : worker[v].at = "indexes"}}
Startable ==
    /\ version \in {0, head} /\ ~ torn /\ ~ Migrating /\ copies = {}
    /\ partial \subseteq Making
    /\ Writable("accounts")
ComesUp == <>[]Startable => []<>(\E w \in Workers : worker[w].at = "serving")

=============================================================================
