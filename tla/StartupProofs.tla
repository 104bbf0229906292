--------------------------- MODULE StartupProofs ---------------------------
(***************************************************************************)
(* Proofs about Startup, for every set of workers and tables, every list   *)
(* of migrations and any number of kills.                                  *)
(***************************************************************************)
EXTENDS Startup, FiniteSetTheorems, WellFoundedInduction, TLAPS

WorkerState == [at : Ats, todo : SUBSET ModelTables]
Shapes == [Tables -> SUBSET AllRevs]
Searches == [index : BOOLEAN, triggers : BOOLEAN, current : BOOLEAN]

DatabaseTyped ==
    /\ schema \in Shapes
    /\ partial \subseteq Tables /\ copies \subseteq Tables
    /\ version \in 0..head
    /\ search \in [SearchTables -> Searches]
    /\ seeded \in BOOLEAN
    /\ root \in {"none", "bare", "scoped"}

MigratingState == [at : {"migrating"}, way : {"up", "down"}, step : Nat \ {0}, tail : BOOLEAN]
ReindexingState ==
    [at : {"drop", "untrigger", "index", "trigger", "rebuild"}, next : 1..Len(Searchable)]

AdminTyped ==
    /\ admin \in {Idle} \cup MigratingState \cup ReindexingState
    /\ commands \in Nat /\ crashes \in 0..MaxCrashes
    /\ torn \in BOOLEAN /\ doubt \subseteq SearchTables /\ presumed \subseteq Tables

(* There is a migration for the way that is being gone.                    *)
Climbs ==
    admin.at = "migrating" =>
        /\ admin.way = "up" => version < head
        /\ admin.way = "down" => version > 0

(* The table a worker that still has some to make is making.               *)
FirstOf(todo) ==
    Models[CHOOSE i \in DOMAIN Models :
               /\ Models[i] \in todo
               /\ \A j \in 1..(i - 1) : Models[j] \notin todo]

PastVersion == {"scopes", "seeding", "root", "enrolling", "granting", "serving"}
Away == {"absent", "off"}

AtHead == version = head /\ \A t \in Tables \ presumed : Whole(t)

(* What a worker may rely on when its start has come as far as x: past the *)
(* check of the version, on a database that is that of the models, but for *)
(* the tables that were presumed to be; and nobody else changes the stamp  *)
(* that it is about to set.                                                *)
Relies(x) ==
    /\ x.at \in PastVersion => AtHead
    /\ x.at = "stamping" => version \in {0, head} /\ admin.at # "migrating"
    /\ x.at \in {"indexing", "triggering"} => FirstOf(x.todo) \in SearchTables
    /\ admin.at = "migrating" /\ Exclusive(admin.way) => x.at \in Away

BareRoot == root = "bare" => crashes > 0 \/ \E w \in Workers : worker[w].at = "granting"

Inv ==
    /\ DatabaseTyped
    /\ AdminTyped
    /\ worker \in [Workers -> WorkerState]
    /\ Climbs
    /\ \A w \in Workers : Relies(worker[w])
    /\ BareRoot

-----------------------------------------------------------------------------
(* The schemas of the versions.                                            *)

LEMMA Least ==
  ASSUME NEW S \in SUBSET Nat, S # {}
  PROVE  \E x \in S : \A y \in S : x <= y
<1>. DEFINE R == OpToRel(<, Nat)
<1>1. PICK x \in S : \A y \in S : ~ (<<y, x>> \in R)
  BY WFMin, NatLessThanWellFounded
<1>2. \A y \in S : ~ (y < x)
  BY <1>1 DEF OpToRel
<1>. QED  BY <1>2

(* A set of numbers with a bound has a greatest one, and Max finds it.     *)
LEMMA MaxOfBounded ==
  ASSUME NEW S \in SUBSET Nat, S # {}, NEW n \in Nat, \A x \in S : x <= n
  PROVE  /\ Max(S) \in S
         /\ \A y \in S : y <= Max(S)
<1>. DEFINE T == {n - x : x \in S}
<1>1. T \in SUBSET Nat /\ T # {}
  <2>1. \A x \in S : n - x \in Nat
    OBVIOUS
  <2>. QED  BY <2>1
<1>2. PICK m \in S : \A y \in S : n - m <= n - y
  <2>1. PICK t \in T : \A u \in T : t <= u
    BY <1>1, Least
  <2>2. PICK m \in S : t = n - m
    OBVIOUS
  <2>. QED  BY <2>1, <2>2
<1>3. \A y \in S : m >= y
  <2>. TAKE y \in S
  <2>1. y \in Nat /\ m \in Nat /\ n - m <= n - y
    BY <1>2
  <2>. QED  BY <2>1
<1>. QED  BY <1>3 DEF Max

LEMMA Lists ==
    /\ head \in Nat
    /\ \A n \in 1..head : Revisions[n].up \in Seq(MigrationStep) /\ Revisions[n].down \in Seq(MigrationStep)
    /\ ModelTables \subseteq Tables
    /\ SearchTables \subseteq ModelTables
    /\ Len(Searchable) \in Nat /\ Len(Searchable) >= 1
<1>1. head \in Nat /\ head = Len(Revisions) /\ DOMAIN Revisions = 1..head
    BY StartupAssumption DEF head
<1>2. \A n \in 1..head : Revisions[n] \in [up : Seq(MigrationStep), down : Seq(MigrationStep)]
  <2>1. PICK R : R = [up : Seq(MigrationStep), down : Seq(MigrationStep)]
    OBVIOUS
  <2>2. Revisions \in Seq(R)
    BY <2>1, StartupAssumption
  <2>3. \A n \in 1..head : Revisions[n] \in R
    BY <1>1, <2>2
  <2> QED BY <2>1, <2>3
<1>3. \A n \in 1..head : Revisions[n].up \in Seq(MigrationStep) /\ Revisions[n].down \in Seq(MigrationStep)
    BY <1>2
<1>4. ModelTables \subseteq Tables
    BY StartupAssumption DEF ModelTables, Range
<1>5. SearchTables \subseteq ModelTables
    BY StartupAssumption DEF SearchTables, Range
<1>6. Len(Searchable) \in Nat /\ Len(Searchable) >= 1
  <2>1. Searchable \in Seq(ModelTables) /\ \E i \in DOMAIN Searchable : Searchable[i] = "accounts"
    BY StartupAssumption DEF SearchTables, Range
  <2>2. Len(Searchable) \in Nat /\ Len(Searchable) # 0
    BY <2>1
  <2> QED BY <2>2
<1> QED BY <1>1, <1>3, <1>4, <1>5, <1>6

LEMMA TableTyped ==
    ASSUME NEW t \in Tables, NEW n \in 0..head
    PROVE  TableAt(t, n) \subseteq AllRevs
<1> DEFINE made == {k \in 1..n : \E s \in StepsOn(t, k, k) : s.op \in {"create", "drop"}}
<1>1. CASE made = {}
    BY <1>1 DEF TableAt
<1>2. CASE made # {}
  <2>1. Max(made) \in made
    <3>1. made \in SUBSET Nat /\ n \in Nat /\ \A x \in made : x <= n
      BY Lists
    <3> QED BY <1>2, <3>1, MaxOfBounded
  <2>0. PICK first : first = Max(made)
    OBVIOUS
  <2>2. first..n \subseteq 1..head
    <3>1. first \in 1..n /\ n \in Nat /\ n <= head /\ head \in Nat
      BY <2>0, <2>1, Lists
    <3> QED BY <3>1
  <2>3. \A s \in StepsOn(t, first, n) : s.revs \subseteq AllRevs
    <3> SUFFICES ASSUME NEW s \in StepsOn(t, first, n) PROVE s.revs \subseteq AllRevs
        OBVIOUS
    <3>1. PICK k \in first..n : s \in Range(Revisions[k].up)
      BY DEF StepsOn
    <3>2. k \in 1..head
      BY <2>2
    <3> QED BY <3>1, <3>2 DEF AllRevs
  <2>4. \/ TableAt(t, n) = {}
        \/ TableAt(t, n) = UNION {s.revs : s \in StepsOn(t, first, n)}
    BY <2>0 DEF TableAt
  <2> QED BY <2>3, <2>4
<1> QED BY <1>1, <1>2

LEMMA Schemas ==
    /\ \A n \in 0..head : SchemaAt[n] \in Shapes
    /\ HeadSchema \in Shapes
    /\ \A t \in ModelTables : HeadSchema[t] # {}
<1>1. \A n \in 0..head : SchemaAt[n] \in Shapes
    BY TableTyped DEF SchemaAt, Shapes
<1>2. head \in 0..head
    BY Lists
<1>3. HeadSchema \in Shapes
    BY <1>1, <1>2 DEF HeadSchema
<1>4. \A t \in ModelTables : HeadSchema[t] # {}
    BY StartupAssumption DEF TablesOf
<1> QED BY <1>1, <1>3, <1>4

(* A worker that still has tables to make comes to one of them.            *)
LEMMA FirstFound ==
    ASSUME NEW todo \in SUBSET ModelTables, todo # {}
    PROVE  FirstOf(todo) \in todo
<1> DEFINE S == {i \in DOMAIN Models : Models[i] \in todo}
<1>1. S # {} /\ S \in SUBSET Nat
    BY StartupAssumption DEF ModelTables, Range
<1>2. PICK i \in S : \A j \in S : i <= j
    BY <1>1, Least
<1>3. \A j \in 1..(i - 1) : Models[j] \notin todo
  <2>1. DOMAIN Models = 1..Len(Models) /\ Len(Models) \in Nat
    BY StartupAssumption
  <2>2. \A j \in 1..(i - 1) : j \in DOMAIN Models /\ ~ (i <= j)
    BY <1>1, <2>1
  <2> QED BY <1>2, <2>2
<1> QED BY <1>2, <1>3 DEF FirstOf

LEMMA InitInv == Init => Inv
<1> SUFFICES ASSUME Init PROVE Inv
    OBVIOUS
<1> USE DEF Init
<1>1. PICK d \in Deployments :
        /\ version = d.version
        /\ schema = SchemaAt[d.version]
        /\ search = [t \in SearchTables |->
               IF version >= 3 \/ (version > 0 /\ t # "uploads") THEN FullSearch ELSE NoSearch]
        /\ seeded = (version > 0)
        /\ root = IF version > 0 THEN "scoped" ELSE "none"
        /\ worker = [w \in Workers |-> IF w \in d.workers THEN Off ELSE Absent]
        /\ commands = d.commands
    OBVIOUS
<1>2. d.version \in 0..head /\ d.commands \in Nat /\ MaxCrashes \in Nat
    BY StartupAssumption
<1>3. DatabaseTyped
  <2>1. search \in [SearchTables -> Searches]
    BY <1>1 DEF FullSearch, NoSearch, Searches
  <2>2. seeded \in BOOLEAN /\ root \in {"none", "bare", "scoped"}
    BY <1>1
  <2> QED BY <1>1, <1>2, <2>1, <2>2, Schemas DEF DatabaseTyped
<1>4. AdminTyped
  <2>1. commands \in Nat /\ crashes \in 0..MaxCrashes
    BY <1>1, <1>2
  <2> QED BY <2>1 DEF AdminTyped
<1>5. worker \in [Workers -> WorkerState] /\ \A w \in Workers : worker[w].at \in Away
    BY <1>1 DEF Off, Absent, WorkerState, Ats, Away
<1>6. admin.at = "idle"
    BY DEF Idle
<1>7. \A w \in Workers : Relies(worker[w])
    BY <1>5, <1>6 DEF Relies, PastVersion, Away
<1>8. Climbs /\ BareRoot
    BY <1>1, <1>6 DEF Climbs, BareRoot
<1> QED BY <1>3, <1>4, <1>5, <1>7, <1>8 DEF Inv

-----------------------------------------------------------------------------
(* A step of one worker.                                                   *)

LEMMA Sets ==
    ASSUME Inv, NEW w \in Workers, NEW x \in WorkerState, worker' = [worker EXCEPT ![w] = x]
    PROVE  /\ worker' \in [Workers -> WorkerState]
           /\ worker'[w] = x
           /\ \A v \in Workers \ {w} : worker'[v] = worker[v]
    BY DEF Inv

LEMMA Goes ==
    ASSUME Inv, NEW w \in Workers, NEW at \in Ats, Goto(w, at)
    PROVE  \E x \in WorkerState : /\ x = [at |-> at, todo |-> worker[w].todo]
                                  /\ worker' = [worker EXCEPT ![w] = x]
<1>1. worker[w] \in WorkerState
    BY DEF Inv
<1>2. PICK old : old = worker[w]
    OBVIOUS
<1>3. PICK x : x = [old EXCEPT !.at = at]
    OBVIOUS
<1>4. x \in WorkerState /\ x = [at |-> at, todo |-> old.todo]
    BY <1>1, <1>2, <1>3 DEF WorkerState
<1>5. worker' = [worker EXCEPT ![w] = x]
    BY <1>2, <1>3 DEF Goto
<1> QED BY <1>2, <1>4, <1>5

LEMMA OffRelies == Off \in WorkerState /\ Off.at = "off" /\ Relies(Off)
    BY DEF Off, WorkerState, Ats, Relies, PastVersion, Away

LEMMA BareStays ==
    ASSUME Inv, NEW w \in Workers, NEW x \in WorkerState, worker' = [worker EXCEPT ![w] = x],
           root' = root, crashes' = crashes,
           worker[w].at # "granting"
    PROVE  BareRoot'
<1>1. ASSUME NEW v \in Workers, worker[v].at = "granting" PROVE worker'[v].at = "granting"
    BY <1>1, Sets
<1> QED BY <1>1 DEF Inv, BareRoot

(* What does not change the stamp and the command, nor a table that is as  *)
(* the models declare it, leaves every worker what it relies on.           *)
LEMMA SameRelies ==
    ASSUME NEW y, Relies(y), UNCHANGED <<version, presumed, admin>>, seeded => seeded',
           \A t \in Tables : Whole(t) => Whole(t)'
    PROVE  Relies(y)'
<1>1. AtHead => AtHead'
    BY DEF AtHead
<1>2. Exclusive(admin.way)' => Exclusive(admin.way)
    BY DEF Exclusive
<1> QED BY <1>1, <1>2 DEF Relies

LEMMA WorkerStep ==
    ASSUME Inv, NEW w \in Workers, NEW x \in WorkerState, worker' = [worker EXCEPT ![w] = x],
           UNCHANGED <<version, commands, admin, copies, torn, presumed>>,
           schema' \in Shapes, partial' \subseteq Tables,
           \A t \in Tables : Whole(t) => Whole(t)',
           search' \in [SearchTables -> Searches], seeded' \in BOOLEAN, seeded => seeded',
           root' \in {"none", "bare", "scoped"},
           crashes' \in 0..MaxCrashes, doubt' \subseteq SearchTables,
           Relies(x), BareRoot'
    PROVE  Inv'
<1> USE DEF Inv
<1>1. DatabaseTyped'
    BY DEF DatabaseTyped
<1>2. AdminTyped'
    BY DEF AdminTyped
<1>3. Climbs'
    BY DEF Climbs
<1>4. worker' \in [Workers -> WorkerState]
    BY Sets
<1>5. ASSUME NEW v \in Workers PROVE Relies(worker[v])'
  <2>1. PICK y : y = worker'[v]
    OBVIOUS
  <2>2. Relies(y)
    <3>1. CASE v = w
      BY <2>1, <3>1, Sets
    <3>2. CASE v # w
      BY <2>1, <3>2, Sets
    <3> QED BY <3>1, <3>2
  <2>3. Relies(y)'
    BY <2>2, SameRelies
  <2> QED BY <2>1, <2>3 DEF Relies
<1> QED BY <1>1, <1>2, <1>3, <1>4, <1>5

(* A step that leaves the tables alone.                                    *)
LEMMA TablesAlone ==
    ASSUME Inv, UNCHANGED <<schema, partial>>
    PROVE  schema' \in Shapes /\ partial' \subseteq Tables /\ \A t \in Tables : Whole(t) => Whole(t)'
    BY DEF Inv, DatabaseTyped, Whole

(* A step that changes nothing but how far the worker has come.            *)
LEMMA WorkerGoes ==
    ASSUME Inv, NEW w \in Workers, NEW x \in WorkerState, worker' = [worker EXCEPT ![w] = x],
           UNCHANGED <<database, admin, counts, history>>,
           Relies(x), worker[w].at # "granting"
    PROVE  Inv'
<1>1. BareRoot'
    BY BareStays DEF database, counts
<1>2. UNCHANGED <<schema, partial>>
    BY DEF database
<1> QED BY <1>1, <1>2, TablesAlone, WorkerStep DEF database, counts, history, Inv, DatabaseTyped, AdminTyped

LEMMA CreateTablesInv ==
    ASSUME Inv, NEW w \in Workers, create_tables(w)
    PROVE  Inv'
<1>1. PICK x : x = [at |-> "making", todo |-> missing]
    OBVIOUS
<1>2. x \in WorkerState /\ worker' = [worker EXCEPT ![w] = x]
    BY <1>1 DEF create_tables, WorkerState, Ats, missing
<1>3. Relies(x)
    BY <1>1 DEF create_tables, Relies, PastVersion
<1> QED BY <1>2, <1>3, WorkerGoes DEF create_tables

(* A worker that is under way keeps the administrator from some commands.  *)
LEMMA NotExclusive ==
    ASSUME Inv, NEW w \in Workers, worker[w].at \notin Away
    PROVE  ~ (admin.at = "migrating" /\ Exclusive(admin.way))
    BY DEF Inv, Relies

LEMMA TablesMadeInv ==
    ASSUME Inv, NEW w \in Workers, tables_made(w)
    PROVE  Inv'
<1>1. PICK x \in WorkerState : /\ x = [at |-> "versioning", todo |-> worker[w].todo]
                               /\ worker' = [worker EXCEPT ![w] = x]
    BY Goes DEF tables_made, Ats
<1>2. worker[w].at = "making"
    BY DEF tables_made
<1>3. Relies(x)
    BY <1>1, <1>2, NotExclusive DEF Relies, PastVersion, Away
<1> QED BY <1>1, <1>2, <1>3, WorkerGoes DEF tables_made

LEMMA VersionInv ==
    ASSUME Inv, NEW w \in Workers, ensure_alembic_version(w)
    PROVE  Inv'
<1>1. worker[w].at = "versioning" /\ UNCHANGED <<database, admin, counts, history>>
    BY DEF ensure_alembic_version
<1>2. ~ (admin.at = "migrating" /\ Exclusive(admin.way))
    BY <1>1, NotExclusive DEF Away
<1>3. CASE unstamped /\ Goto(w, "stamping")
  <2>1. PICK x \in WorkerState : /\ x = [at |-> "stamping", todo |-> worker[w].todo]
                                 /\ worker' = [worker EXCEPT ![w] = x]
    BY <1>3, Goes DEF Ats
  <2>2. version = 0 /\ admin.at # "migrating"
    BY <1>2, <1>3 DEF unstamped, Exclusive
  <2>3. Relies(x)
    BY <2>1, <2>2 DEF Relies, PastVersion
  <2> QED BY <1>1, <2>1, <2>3, WorkerGoes
<1>4. CASE up_to_date /\ Goto(w, "scopes")
  <2>1. PICK x \in WorkerState : /\ x = [at |-> "scopes", todo |-> worker[w].todo]
                                 /\ worker' = [worker EXCEPT ![w] = x]
    BY <1>4, Goes DEF Ats
  <2>2. AtHead
    BY <1>4 DEF up_to_date, AtHead
  <2>3. Relies(x)
    BY <1>2, <2>1, <2>2 DEF Relies
  <2> QED BY <1>1, <2>1, <2>3, WorkerGoes
<1>5. CASE Fail(w)
    BY <1>1, <1>5, OffRelies, WorkerGoes DEF Fail
<1> QED BY <1>3, <1>4, <1>5 DEF ensure_alembic_version

(* Past the check of the version, a worker relies on the same all along.   *)
LEMMA StillRelies ==
    ASSUME Inv, NEW w \in Workers, worker[w].at \in PastVersion,
           NEW x, x.at \in PastVersion
    PROVE  Relies(x)
<1>1. AtHead /\ ~ (admin.at = "migrating" /\ Exclusive(admin.way))
    BY NotExclusive DEF Inv, Relies, PastVersion, Away
<1>2. x.at \notin {"stamping", "indexing", "triggering"}
    BY DEF PastVersion
<1> QED BY <1>1, <1>2 DEF Relies

LEMMA EnumInv ==
    ASSUME Inv, NEW w \in Workers, ensure_enum_values(w)
    PROVE  Inv'
<1>1. worker[w].at \in {"scopes", "seeding"} /\ worker[w].at \in PastVersion
    BY DEF ensure_enum_values, PastVersion
<1>2. UNCHANGED <<version, schema, partial, commands, admin, copies, torn, search, root, crashes,
                  doubt, presumed>>
      /\ seeded' \in BOOLEAN /\ (seeded => seeded')
    BY DEF ensure_enum_values, database, counts, history, Inv, DatabaseTyped
<1>3. PICK x \in WorkerState : Relies(x) /\ worker' = [worker EXCEPT ![w] = x]
  <2>1. CASE Fail(w)
    BY <2>1, OffRelies DEF Fail
  <2>2. ASSUME NEW at \in {"seeding", "root"}, Goto(w, at)
        PROVE  \E x \in WorkerState : Relies(x) /\ worker' = [worker EXCEPT ![w] = x]
    <3>1. PICK x \in WorkerState : /\ x = [at |-> at, todo |-> worker[w].todo]
                                   /\ worker' = [worker EXCEPT ![w] = x]
      BY <2>2, Goes DEF Ats
    <3>2. x.at \in PastVersion
      BY <3>1 DEF PastVersion
    <3> QED BY <1>1, <3>1, <3>2, StillRelies
  <2> QED BY <2>1, <2>2 DEF ensure_enum_values
<1>4. BareRoot'
    BY <1>1, <1>2, <1>3, BareStays
<1> QED BY <1>2, <1>3, <1>4, TablesAlone, WorkerStep DEF Inv, DatabaseTyped, AdminTyped

(* The worker goes on with the table it has made, or with the next.        *)
LEMMA MadeGoes ==
    ASSUME Inv, NEW w \in Workers, worker[w].at \in {"making", "indexes", "triggering"}, Made(w)
    PROVE  \E x \in WorkerState : Relies(x) /\ worker' = [worker EXCEPT ![w] = x]
<1>1. PICK old : old = worker[w]
    OBVIOUS
<1>2. old \in WorkerState /\ ~ (admin.at = "migrating" /\ Exclusive(admin.way))
    BY <1>1, NotExclusive DEF Inv, Away
<1>3. CASE NextTable(w) \in SearchTables /\ Goto(w, "indexing")
  <2>1. PICK x \in WorkerState : /\ x = [at |-> "indexing", todo |-> old.todo]
                                 /\ worker' = [worker EXCEPT ![w] = x]
    BY <1>1, <1>3, Goes DEF Ats
  <2>2. FirstOf(x.todo) = NextTable(w)
    BY <1>1, <2>1 DEF NextTable, FirstOf
  <2>3. Relies(x)
    BY <1>2, <1>3, <2>1, <2>2 DEF Relies, PastVersion
  <2> QED BY <2>1, <2>3
<1>4. CASE worker' = [worker EXCEPT ![w] = [at |-> "making", todo |-> @.todo \ {NextTable(w)}]]
  <2>1. PICK x : x = [at |-> "making", todo |-> old.todo \ {NextTable(w)}]
    OBVIOUS
  <2>2. x \in WorkerState /\ worker' = [worker EXCEPT ![w] = x]
    BY <1>1, <1>2, <1>4, <2>1 DEF WorkerState, Ats, Inv
  <2>3. Relies(x)
    BY <1>2, <2>1 DEF Relies, PastVersion
  <2> QED BY <2>2, <2>3
<1> QED BY <1>3, <1>4 DEF Made

(* The table is not there, and is none that is as the models declare it.   *)
LEMMA MakeTableInv ==
    ASSUME Inv, NEW w \in Workers, make_table(w)
    PROVE  Inv'
<1>1. worker[w].at = "making" /\ worker[w].todo # {} /\ worker[w].todo \subseteq ModelTables
    BY DEF make_table, Inv, WorkerState
<1>2. PICK t : t = NextTable(w)
    OBVIOUS
<1>3. t \in ModelTables /\ t \in Tables
    BY <1>1, <1>2, FirstFound, Lists DEF NextTable, FirstOf
<1>4. UNCHANGED <<copies, version, seeded, root, admin, counts, history>>
    BY DEF make_table
<1>5. CASE schema[t] # {}
  <2>1. Fail(w) /\ UNCHANGED <<schema, partial, search>>
    BY <1>2, <1>5 DEF make_table
  <2> QED BY <1>1, <1>4, <2>1, OffRelies, WorkerGoes DEF Fail, database
<1>6. CASE schema[t] = {}
  <2>1. /\ schema' = [schema EXCEPT ![t] = HeadSchema[t]]
        /\ partial' = partial \cup ({t} \cap Indexed)
    BY <1>2, <1>6 DEF make_table
  <2>2. schema' \in Shapes /\ partial' \subseteq Tables
    BY <1>3, <2>1, Schemas DEF Inv, DatabaseTyped, Shapes
  <2>3. ASSUME NEW u \in Tables, Whole(u) PROVE Whole(u)'
    <3>1. u # t
      BY <1>3, <1>6, <2>3, Schemas DEF Whole
    <3> QED BY <2>1, <2>3, <3>1 DEF Whole, Inv, DatabaseTyped, Shapes
  <2>4. search' \in [SearchTables -> Searches]
    <3>1. CASE t \notin SearchTables
      BY <1>2, <1>6, <3>1 DEF make_table, Inv, DatabaseTyped
    <3>2. CASE t \in SearchTables
      <4>1. PICK old : old = search[t]
        OBVIOUS
      <4>2. PICK new : new = [old EXCEPT !.current = ~ old.index]
        OBVIOUS
      <4>3. old \in Searches /\ search \in [SearchTables -> Searches]
        BY <3>2, <4>1 DEF Inv, DatabaseTyped
      <4>4. new \in Searches
        BY <4>2, <4>3 DEF Searches
      <4>5. search' = [search EXCEPT ![t] = new]
        BY <1>2, <1>6, <3>2, <4>1, <4>2 DEF make_table
      <4> QED BY <4>3, <4>4, <4>5
    <3> QED BY <3>1, <3>2
  <2>5. PICK x \in WorkerState : Relies(x) /\ worker' = [worker EXCEPT ![w] = x]
    <3>1. CASE Goto(w, "indexes")
      <4>1. PICK x \in WorkerState : /\ x = [at |-> "indexes", todo |-> worker[w].todo]
                                     /\ worker' = [worker EXCEPT ![w] = x]
        BY <3>1, Goes DEF Ats
      <4>2. Relies(x)
        BY <1>1, <4>1, NotExclusive DEF Relies, PastVersion, Away
      <4> QED BY <4>1, <4>2
    <3>2. CASE Made(w)
      BY <1>1, <3>2, MadeGoes
    <3> QED BY <1>2, <1>6, <3>1, <3>2 DEF make_table
  <2>6. BareRoot'
    BY <1>1, <1>4, <2>5, BareStays DEF counts
  <2> QED BY <1>4, <2>2, <2>3, <2>4, <2>5, <2>6, WorkerStep
          DEF counts, history, Inv, DatabaseTyped, AdminTyped
<1> QED BY <1>5, <1>6

LEMMA MakeIndexesInv ==
    ASSUME Inv, NEW w \in Workers, make_indexes(w)
    PROVE  Inv'
<1>1. /\ UNCHANGED <<schema, copies, version, search, seeded, root, admin, counts, history>>
      /\ partial' \subseteq partial /\ worker[w].at = "indexes"
    BY DEF make_indexes
<1>2. schema' \in Shapes /\ partial' \subseteq Tables /\ \A u \in Tables : Whole(u) => Whole(u)'
    BY <1>1 DEF Inv, DatabaseTyped, Whole
<1>3. PICK x \in WorkerState : Relies(x) /\ worker' = [worker EXCEPT ![w] = x]
  <2>1. CASE Fail(w)
    BY <2>1, OffRelies DEF Fail
  <2>2. CASE Made(w)
    BY <1>1, <2>2, MadeGoes
  <2> QED BY <2>1, <2>2 DEF make_indexes
<1>4. BareRoot'
    BY <1>1, <1>3, BareStays DEF counts
<1> QED BY <1>1, <1>2, <1>3, <1>4, WorkerStep DEF counts, history, Inv, DatabaseTyped, AdminTyped

LEMMA AfterCreateInv ==
    ASSUME Inv, NEW w \in Workers, after_create(w)
    PROVE  Inv'
<1>1. PICK t : t = NextTable(w)
    OBVIOUS
<1>2. worker[w].at \in {"indexing", "triggering"} /\ Relies(worker[w])
    BY DEF after_create, Inv
<1>3. t \in SearchTables
    BY <1>1, <1>2 DEF NextTable, FirstOf, Relies
<1>4. /\ UNCHANGED <<version, schema, partial, commands, admin, copies, torn, presumed>>
      /\ UNCHANGED <<seeded, root, crashes>>
    BY DEF after_create, counts, history
<1>5. doubt' \subseteq SearchTables
    BY <1>1, <1>3 DEF after_create, Inv, AdminTyped, history
<1>6. PICK old : old = search[t]
    OBVIOUS
<1>7. old \in Searches /\ search \in [SearchTables -> Searches]
    BY <1>3, <1>6 DEF Inv, DatabaseTyped
<1>8. search' \in [SearchTables -> Searches]
  <2>1. CASE search' = [search EXCEPT ![t].index = TRUE]
    <3>1. PICK new : new = [old EXCEPT !.index = TRUE]
      OBVIOUS
    <3>2. new \in Searches
      BY <1>7, <3>1 DEF Searches
    <3>3. search' = [search EXCEPT ![t] = new]
      BY <1>6, <2>1, <3>1
    <3> QED BY <1>7, <3>2, <3>3
  <2>2. CASE search' = [search EXCEPT ![t].triggers = TRUE]
    <3>1. PICK new : new = [old EXCEPT !.triggers = TRUE]
      OBVIOUS
    <3>2. new \in Searches
      BY <1>7, <3>1 DEF Searches
    <3>3. search' = [search EXCEPT ![t] = new]
      BY <1>6, <2>2, <3>1
    <3> QED BY <1>7, <3>2, <3>3
  <2> QED BY <1>1, <1>7, <2>1, <2>2 DEF after_create
<1>9. PICK x \in WorkerState : Relies(x) /\ worker' = [worker EXCEPT ![w] = x]
  <2>1. CASE Fail(w)
    BY <2>1, OffRelies DEF Fail
  <2>2. CASE worker[w].at = "triggering" /\ Made(w)
    BY <2>2, MadeGoes
  <2>3. CASE Goto(w, "triggering")
    <3>1. PICK x \in WorkerState : /\ x = [at |-> "triggering", todo |-> worker[w].todo]
                                   /\ worker' = [worker EXCEPT ![w] = x]
      BY <2>3, Goes DEF Ats
    <3>2. FirstOf(x.todo) = t
      BY <1>1, <3>1 DEF NextTable, FirstOf
    <3>3. Relies(x)
      BY <1>2, <1>3, <3>1, <3>2, NotExclusive DEF Relies, PastVersion, Away
    <3> QED BY <3>1, <3>3
  <2> QED BY <2>1, <2>2, <2>3 DEF after_create
<1>10. BareRoot'
    BY <1>2, <1>4, <1>9, BareStays
<1> QED BY <1>4, <1>5, <1>8, <1>9, <1>10, TablesAlone, WorkerStep DEF Inv, DatabaseTyped, AdminTyped

LEMMA StampInv ==
    ASSUME Inv, NEW w \in Workers, stamp(w)
    PROVE  Inv'
<1>1. PICK x \in WorkerState : /\ x = [at |-> "scopes", todo |-> worker[w].todo]
                               /\ worker' = [worker EXCEPT ![w] = x]
    BY Goes DEF stamp, Ats
<1>2. worker[w].at = "stamping" /\ admin.at # "migrating"
    BY DEF stamp, Inv, Relies
<1>3. /\ version' = head /\ presumed' = presumed \cup {t \in Tables : ~ Whole(t)}
      /\ UNCHANGED <<schema, partial, copies, search, seeded, root, admin, counts, torn, doubt>>
    BY DEF stamp
<1>4. AtHead'
    BY <1>3 DEF AtHead, Whole
<1>5. ASSUME NEW y, Relies(y) PROVE Relies(y)'
    BY <1>2, <1>3, <1>4, <1>5 DEF Relies
<1>6. Relies(x)'
    BY <1>1, <1>2, <1>3, <1>4 DEF Relies, PastVersion
<1>7. ASSUME NEW v \in Workers PROVE Relies(worker[v])'
  <2>1. PICK y : y = worker'[v]
    OBVIOUS
  <2>2. Relies(y)'
    <3>1. CASE v = w
      BY <1>1, <1>6, <2>1, <3>1, Sets
    <3>2. CASE v # w
      <4>1. y = worker[v] /\ Relies(worker[v])
        BY <1>1, <2>1, <3>2, Sets DEF Inv
      <4> QED BY <1>5, <4>1
    <3> QED BY <3>1, <3>2
  <2> QED BY <2>1, <2>2 DEF Relies
<1>8. DatabaseTyped'
    BY <1>3, Lists DEF Inv, DatabaseTyped
<1>9. AdminTyped'
    BY <1>3 DEF Inv, AdminTyped, counts
<1>10. Climbs'
    BY <1>2, <1>3 DEF Climbs
<1>11. BareRoot'
    BY <1>1, <1>2, <1>3, BareStays DEF counts
<1>12. worker' \in [Workers -> WorkerState]
    BY <1>1, Sets
<1> QED BY <1>7, <1>8, <1>9, <1>10, <1>11, <1>12 DEF Inv

(* What the writing of rows does to the search of a table.                 *)
LEMMA WrittenTyped ==
    ASSUME Inv, NEW t
    PROVE  Written(search, t) \in [SearchTables -> Searches]
<1>1. search \in [SearchTables -> Searches]
    BY DEF Inv, DatabaseTyped
<1>2. CASE t \in SearchTables
  <2>1. PICK old : old = search[t]
    OBVIOUS
  <2>2. PICK new : new = [old EXCEPT !.current = old.current /\ search[t].triggers]
    OBVIOUS
  <2>3. old \in Searches
    BY <1>1, <1>2, <2>1
  <2>4. old.current \in BOOLEAN /\ old.triggers \in BOOLEAN
    BY <2>3 DEF Searches
  <2>5. new \in Searches
    BY <2>1, <2>2, <2>3, <2>4 DEF Searches
  <2>6. Written(search, t) = [search EXCEPT ![t] = new]
    BY <2>1, <2>2 DEF Written
  <2> QED BY <1>1, <2>5, <2>6
<1>3. CASE t \notin SearchTables
    BY <1>1, <1>3 DEF Written
<1> QED BY <1>2, <1>3

LEMMA WriteTyped ==
    ASSUME Inv, NEW t \in SearchTables, Write(t)
    PROVE  search' \in [SearchTables -> Searches] /\ doubt' \subseteq SearchTables
    BY WrittenTyped DEF Write, Inv, AdminTyped

LEMMA RootInv ==
    ASSUME Inv, NEW w \in Workers, ensure_root(w)
    PROVE  Inv'
<1>1. worker[w].at \in {"root", "enrolling", "granting"} /\ worker[w].at \in PastVersion
    BY DEF ensure_root, look_for_root, create_account, CommitAccount, grant_scopes, PastVersion
<1>2. ASSUME NEW at \in {"enrolling", "serving", "granting"}, Goto(w, at)
      PROVE  \E x \in WorkerState : x.at = at /\ Relies(x) /\ worker' = [worker EXCEPT ![w] = x]
  <2>1. PICK x \in WorkerState : /\ x = [at |-> at, todo |-> worker[w].todo]
                                 /\ worker' = [worker EXCEPT ![w] = x]
    BY <1>2, Goes DEF Ats
  <2>2. x.at = at /\ x.at \in PastVersion
    BY <2>1 DEF PastVersion
  <2> QED BY <1>1, <2>1, <2>2, StillRelies
<1>3. CASE look_for_root(w)
  <2>1. PICK x \in WorkerState : Relies(x) /\ worker' = [worker EXCEPT ![w] = x]
    <3>1. CASE Fail(w)
      BY <3>1, OffRelies DEF Fail
    <3>2. CASE Goto(w, IF root = "none" THEN "enrolling" ELSE "serving")
      BY <1>2, <3>2
    <3> QED BY <1>3, <3>1, <3>2 DEF look_for_root
  <2> QED BY <1>3, <2>1, WorkerGoes DEF look_for_root
<1>4. CASE create_account(w)
  <2>1. UNCHANGED <<version, schema, partial, commands, admin, copies, torn, presumed>>
        /\ UNCHANGED <<seeded, crashes>> /\ worker[w].at = "enrolling"
    BY <1>4 DEF create_account, CommitAccount, counts
  <2>2. CASE root' = "bare" /\ Write("accounts") /\ Goto(w, "granting")
    <3>1. PICK x \in WorkerState : x.at = "granting" /\ Relies(x) /\ worker' = [worker EXCEPT ![w] = x]
      BY <1>2, <2>2
    <3>2. BareRoot'
      BY <3>1, Sets DEF BareRoot
    <3>3. search' \in [SearchTables -> Searches] /\ doubt' \subseteq SearchTables
      BY <2>2, StartupAssumption, WriteTyped
    <3> QED BY <2>1, <2>2, <3>1, <3>2, <3>3, TablesAlone, WorkerStep DEF Inv, DatabaseTyped, AdminTyped
  <2>3. CASE Fail(w) /\ UNCHANGED <<root, search, doubt>>
    <3>1. BareRoot'
      BY <2>1, <2>3, OffRelies, BareStays DEF Fail
    <3> QED BY <2>1, <2>3, <3>1, OffRelies, TablesAlone, WorkerStep
            DEF Fail, Inv, DatabaseTyped, AdminTyped
  <2> QED BY <1>4, <2>2, <2>3 DEF create_account, CommitAccount
<1>5. CASE grant_scopes(w)
  <2>1. UNCHANGED <<version, schema, partial, commands, admin, copies, torn, presumed>>
        /\ UNCHANGED <<search, seeded, crashes, doubt>> /\ root' = "scoped" /\ Goto(w, "serving")
    BY <1>5 DEF grant_scopes, counts, history
  <2>2. PICK x \in WorkerState : Relies(x) /\ worker' = [worker EXCEPT ![w] = x]
    BY <1>2, <2>1
  <2>3. BareRoot'
    BY <2>1 DEF BareRoot
  <2> QED BY <2>1, <2>2, <2>3, TablesAlone, WorkerStep DEF Inv, DatabaseTyped, AdminTyped
<1> QED BY <1>3, <1>4, <1>5 DEF ensure_root

LEMMA WriteInv ==
    ASSUME Inv, NEW w \in Workers, NEW t \in SearchTables, write(w, t)
    PROVE  Inv'
<1>1. PICK x : x = worker[w]
    OBVIOUS
<1>2. x \in WorkerState /\ Relies(x) /\ worker' = [worker EXCEPT ![w] = x]
    BY <1>1 DEF write, Inv
<1>3. search' \in [SearchTables -> Searches] /\ doubt' \subseteq SearchTables
    BY WriteTyped DEF write
<1>4. UNCHANGED <<version, schema, partial, commands, admin, copies, torn, presumed>>
      /\ UNCHANGED <<seeded, root, crashes, worker>>
    BY DEF write, counts
<1>5. BareRoot'
    BY <1>4 DEF Inv, BareRoot
<1> QED BY <1>2, <1>3, <1>4, <1>5, TablesAlone, WorkerStep DEF Inv, DatabaseTyped, AdminTyped

LEMMA StopInv ==
    ASSUME Inv, NEW w \in Workers, stop(w)
    PROVE  Inv'
    BY OffRelies, WorkerGoes DEF stop, Fail

LEMMA KillInv ==
    ASSUME Inv, NEW w \in Workers, kill(w)
    PROVE  Inv'
<1>1. crashes' \in 0..MaxCrashes /\ crashes' > 0
    BY StartupAssumption DEF kill, Inv, AdminTyped
<1>2. BareRoot'
    BY <1>1 DEF BareRoot
<1>3. UNCHANGED <<version, schema, partial, commands, admin, copies, torn, presumed>>
      /\ UNCHANGED <<search, seeded, root, doubt>> /\ worker' = [worker EXCEPT ![w] = Off]
    BY DEF kill, Fail, database, history
<1> QED BY <1>1, <1>2, <1>3, OffRelies, TablesAlone, WorkerStep DEF Inv, DatabaseTyped, AdminTyped

-----------------------------------------------------------------------------
(* A step of the administrator.                                            *)

LEMMA AdminStep ==
    ASSUME Inv, UNCHANGED <<worker, root>>, DatabaseTyped', AdminTyped', Climbs',
           crashes' >= crashes,
           \A w \in Workers : worker[w].at \in PastVersion => AtHead',
           \A w \in Workers : worker[w].at = "stamping" => version' \in {0, head} /\ admin'.at # "migrating",
           (admin.at = "migrating" /\ Exclusive(admin.way))' => \A w \in Workers : worker[w].at \in Away
    PROVE  Inv'
<1>1. ASSUME NEW w \in Workers PROVE Relies(worker[w])'
  <2>1. PICK x : x = worker[w]
    OBVIOUS
  <2>2. x.at \in {"indexing", "triggering"} => FirstOf(x.todo) \in SearchTables
    BY <2>1 DEF Inv, Relies
  <2>3. Relies(x)'
    BY <2>1, <2>2 DEF Relies
  <2> QED BY <2>1, <2>3 DEF Relies
<1>2. BareRoot'
  <2>1. crashes \in Nat /\ crashes' \in Nat
    BY StartupAssumption DEF Inv, AdminTyped
  <2> QED BY <2>1 DEF Inv, BareRoot
<1> QED BY <1>1, <1>2 DEF Inv

(* A command that leaves the tables and the stamp alone, and that is no    *)
(* migration afterwards unless it was the same one before.                 *)
LEMMA HarmlessStep ==
    ASSUME Inv,
           UNCHANGED <<worker, root, schema, partial, version, seeded, presumed>>,
           copies' \subseteq Tables, search' \in [SearchTables -> Searches],
           AdminTyped', crashes' >= crashes,
           admin'.at = "migrating" => admin.at = "migrating" /\ admin'.way = admin.way
    PROVE  Inv'
<1>1. DatabaseTyped'
    BY DEF Inv, DatabaseTyped
<1>2. Climbs'
    BY DEF Inv, Climbs
<1>3. \A w \in Workers : worker[w].at \in PastVersion => AtHead'
    BY DEF Inv, Relies, AtHead, Whole
<1>4. \A w \in Workers : worker[w].at = "stamping" => version' \in {0, head} /\ admin'.at # "migrating"
    BY DEF Inv, Relies
<1>5. (admin.at = "migrating" /\ Exclusive(admin.way))' => \A w \in Workers : worker[w].at \in Away
    BY DEF Inv, Relies, Exclusive
<1> QED BY <1>1, <1>2, <1>3, <1>4, <1>5, AdminStep

LEMMA StartMigrationInv ==
    ASSUME Inv, NEW way \in {"up", "down"}, StartMigration(way)
    PROVE  Inv'
<1>1. /\ admin = Idle /\ commands > 0 /\ commands' = commands - 1
      /\ UNCHANGED <<database, worker, crashes, history>>
      /\ commands \in Nat
    BY DEF StartMigration, Command, Inv, AdminTyped
<1>2. PICK a : a = [at |-> "migrating", way |-> way, step |-> 1, tail |-> FALSE]
    OBVIOUS
<1>3. admin' = a /\ a \in MigratingState /\ a.at = "migrating" /\ a.way = way
    BY <1>2 DEF StartMigration, MigratingState
<1>4. DatabaseTyped'
    BY <1>1 DEF Inv, DatabaseTyped, database
<1>5. AdminTyped'
  <2>1. commands' \in Nat
    BY <1>1
  <2> QED BY <1>1, <1>3, <2>1 DEF Inv, AdminTyped, history
<1>6. Climbs'
    BY <1>1, <1>3 DEF StartMigration, Climbs, database
<1>7. \A w \in Workers : worker[w].at \in PastVersion => AtHead'
    BY <1>1 DEF Inv, Relies, AtHead, Whole, database, history
<1>8. Exclusive(way) => \A w \in Workers : worker[w].at \in Away
    BY DEF StartMigration, Away
<1>9. ASSUME NEW w \in Workers, worker[w].at = "stamping" PROVE FALSE
  <2>1. version \in {0, head} /\ ~ Exclusive(way)
    BY <1>8, <1>9 DEF Inv, Relies, Away
  <2>2. version # 0 /\ way = "up"
    BY <2>1 DEF Exclusive
  <2>3. version < head
    BY <2>2 DEF StartMigration
  <2> QED BY <2>1, <2>2, <2>3, Lists
<1>10. (admin.at = "migrating" /\ Exclusive(admin.way))' => \A w \in Workers : worker[w].at \in Away
    BY <1>1, <1>3, <1>8 DEF Exclusive, database
<1>11. crashes' >= crashes
    BY <1>1, StartupAssumption DEF Inv, AdminTyped
<1> QED BY <1>1, <1>4, <1>5, <1>6, <1>7, <1>9, <1>10, <1>11, AdminStep DEF database

(* While the database is migrated, nobody is past the check of the         *)
(* version, nor about to stamp; and the steps of the migration are steps   *)
(* of its list.                                                            *)
LEMMA Underway ==
    ASSUME Inv, Migrating
    PROVE  /\ admin # Idle /\ admin \in MigratingState /\ admin.way \in {"up", "down"}
           /\ version \in Nat /\ version <= head /\ head \in Nat
           /\ IF admin.way = "up" THEN version < head ELSE version > 0
           /\ \A w \in Workers : worker[w].at \notin PastVersion \cup {"stamping"}
           /\ Steps \in Seq(MigrationStep)
<1>1. admin # Idle /\ admin \in MigratingState
    BY DEF Inv, AdminTyped, Migrating, Idle, ReindexingState
<1>2. admin.way \in {"up", "down"} /\ admin.at = "migrating"
    BY <1>1 DEF MigratingState
<1>3. IF admin.way = "up" THEN version < head ELSE version > 0
    BY <1>2 DEF Inv, Climbs
<1>4. version \in Nat /\ version <= head /\ head \in Nat
    BY Lists DEF Inv, DatabaseTyped
<1>5. \A w \in Workers : worker[w].at \notin PastVersion \cup {"stamping"}
  <2>1. CASE admin.way = "up"
    BY <1>2, <1>3, <1>4, <2>1 DEF Inv, Relies, AtHead
  <2>2. CASE admin.way = "down"
    BY <1>2, <2>2 DEF Inv, Relies, PastVersion, Exclusive, Away
  <2> QED BY <1>2, <2>1, <2>2
<1>6. Steps \in Seq(MigrationStep)
  <2>1. CASE admin.way = "up"
    <3>1. version + 1 \in 1..head
      BY <1>3, <1>4, <2>1
    <3> QED BY <2>1, <3>1, Lists DEF Steps
  <2>2. CASE admin.way # "up"
    <3>1. version \in 1..head
      BY <1>3, <1>4, <2>2
    <3> QED BY <2>2, <3>1, Lists DEF Steps
  <2> QED BY <2>1, <2>2
<1> QED BY <1>1, <1>2, <1>3, <1>4, <1>5, <1>6

LEMMA Afterwards ==
    ASSUME Inv, NEW steps
    PROVE  After(schema, steps) \in Shapes
    BY DEF After, Shapes

LEMMA SearchAfterwards ==
    ASSUME Inv, NEW steps
    PROVE  SearchAfter(search, steps) \in [SearchTables -> Searches]
<1> DEFINE touch(t) == {i \in DOMAIN steps :
                          steps[i].table = t /\ steps[i].op \in Copying \cup {"drop", "search"}}
           made(t) == \E i \in touch(t) : steps[i].op = "search"
           then(t) == IF touch(t) = {} THEN search[t]
                      ELSE [index |-> search[t].index \/ made(t),
                            triggers |-> steps[Max(touch(t))].op = "search",
                            current |-> search[t].current /\ ~ made(t)]
<1>1. ASSUME NEW t \in SearchTables PROVE then(t) \in Searches
  <2>1. search[t] \in Searches
    BY DEF Inv, DatabaseTyped
  <2>2. search[t].index \in BOOLEAN /\ search[t].current \in BOOLEAN
    BY <2>1 DEF Searches
  <2> QED BY <2>1, <2>2 DEF Searches
<1>2. SearchAfter(search, steps) = [t \in SearchTables |-> then(t)]
    BY DEF SearchAfter
<1> HIDE DEF then
<1> QED BY <1>1, <1>2

LEMMA NextTyped ==
    ASSUME Inv, Migrating, NextOp \in InPlace \cup Copying
    PROVE  NextStep.table \in Tables
<1>1. PICK R : R = MigrationStep
    OBVIOUS
<1>2. PICK s : s = Steps
    OBVIOUS
<1>3. s \in Seq(R) /\ Len(s) \in Nat
    BY <1>1, <1>2, Underway
<1>4. admin.step \in Nat \ {0} /\ admin.step <= Len(s)
    BY <1>2, Underway DEF NextOp, InPlace, Copying, MigratingState
<1>5. s[admin.step] \in R
    BY <1>3, <1>4
<1> QED BY <1>1, <1>2, <1>5 DEF NextStep, MigrationStep

LEMMA InPlaceInv ==
    ASSUME Inv, MigrateInPlace
    PROVE  Inv'
<1>1. /\ Migrating
      /\ schema' = After(schema, <<NextStep>>)
      /\ partial' \subseteq partial
      /\ search' = SearchAfter(search, <<NextStep>>)
      /\ UNCHANGED <<copies, version, seeded, root, worker, counts, history>>
    BY DEF MigrateInPlace
<1>2. PICK a : a = admin
    OBVIOUS
<1>3. a \in MigratingState
    BY <1>1, <1>2, Underway
<1>4. PICK b : b = [a EXCEPT !.step = a.step + 1]
    OBVIOUS
<1>5. admin' = b
    BY <1>2, <1>4 DEF MigrateInPlace
<1>6. b \in MigratingState /\ b.at = a.at /\ b.way = a.way
    BY <1>3, <1>4 DEF MigratingState
<1>7. DatabaseTyped'
  <2>1. schema' \in Shapes
    BY <1>1, Afterwards
  <2>2. search' \in [SearchTables -> Searches]
    BY <1>1, SearchAfterwards
  <2> QED BY <1>1, <2>1, <2>2 DEF Inv, DatabaseTyped
<1>8. AdminTyped'
    BY <1>1, <1>5, <1>6 DEF Inv, AdminTyped, counts, history
<1>9. Climbs'
    BY <1>1, <1>2, <1>5, <1>6 DEF Inv, Climbs
<1>10. (admin.at = "migrating" /\ Exclusive(admin.way))' => \A w \in Workers : worker[w].at \in Away
    BY <1>1, <1>2, <1>5, <1>6 DEF Inv, Relies, Exclusive
<1>11. \A w \in Workers : worker[w].at \notin PastVersion \cup {"stamping"}
    BY <1>1, Underway
<1>12. crashes' >= crashes
    BY <1>1, StartupAssumption DEF Inv, AdminTyped, counts
<1> QED BY <1>1, <1>7, <1>8, <1>9, <1>10, <1>11, <1>12, AdminStep

LEMMA MakeCopyInv ==
    ASSUME Inv, MakeCopy
    PROVE  Inv'
<1>1. /\ Migrating /\ NextOp \in Copying
      /\ copies' = copies \cup {NextStep.table}
      /\ UNCHANGED <<schema, partial, version, search, seeded, root, worker, counts, history>>
    BY DEF MakeCopy
<1>2. PICK a : a = admin
    OBVIOUS
<1>3. a \in MigratingState
    BY <1>1, <1>2, Underway
<1>4. PICK b : b = [a EXCEPT !.tail = TRUE]
    OBVIOUS
<1>5. admin' = b
    BY <1>2, <1>4 DEF MakeCopy
<1>6. b \in MigratingState /\ b.at = a.at /\ b.way = a.way
    BY <1>3, <1>4 DEF MigratingState
<1>7. copies' \subseteq Tables /\ search' \in [SearchTables -> Searches]
    BY <1>1, NextTyped DEF Inv, DatabaseTyped
<1>8. AdminTyped'
    BY <1>1, <1>5, <1>6 DEF Inv, AdminTyped, counts, history
<1>9. crashes' >= crashes
    BY <1>1, StartupAssumption DEF Inv, AdminTyped, counts
<1> QED BY <1>1, <1>2, <1>5, <1>6, <1>7, <1>8, <1>9, HarmlessStep DEF Migrating, history

LEMMA CommitMigrationInv ==
    ASSUME Inv, CommitMigration
    PROVE  Inv'
<1>1. /\ Migrating
      /\ schema' = After(schema, Rest)
      /\ partial' \subseteq partial
      /\ search' = SearchAfter(search, Rest)
      /\ copies' \subseteq copies
      /\ version' = IF admin.way = "up" THEN version + 1 ELSE version - 1
      /\ UNCHANGED <<seeded, root, worker, counts, history>>
    BY DEF CommitMigration
<1>2. PICK a : a = admin
    OBVIOUS
<1>3. /\ a \in MigratingState /\ a.at = "migrating" /\ a.way \in {"up", "down"}
      /\ version \in Nat /\ version <= head /\ head \in Nat
      /\ IF a.way = "up" THEN version < head ELSE version > 0
    BY <1>1, <1>2, Underway DEF MigratingState
<1>4. version' \in 0..head /\ (a.way = "up" => version' > 0)
  <2>1. CASE a.way = "up"
    BY <1>1, <1>2, <1>3, <2>1
  <2>2. CASE a.way = "down"
    BY <1>1, <1>2, <1>3, <2>2
  <2> QED BY <1>3, <2>1, <2>2
<1>5. PICK b : b = [a EXCEPT !.step = 1, !.tail = FALSE]
    OBVIOUS
<1>6. b \in MigratingState /\ b.at = a.at /\ b.way = a.way
  <2>1. PICK c : c = [a EXCEPT !.step = 1]
    OBVIOUS
  <2>2. c \in MigratingState /\ c.at = a.at /\ c.way = a.way
    BY <1>3, <2>1 DEF MigratingState
  <2>3. b = [c EXCEPT !.tail = FALSE]
    BY <1>3, <1>5, <2>1 DEF MigratingState
  <2> QED BY <2>2, <2>3 DEF MigratingState
<1>7. \/ admin' = Idle
      \/ admin' = b /\ b.way = "up" /\ version' < head
    BY <1>2, <1>5, <1>6 DEF CommitMigration
<1>8. Idle.at # "migrating"
    BY DEF Idle
<1>9. DatabaseTyped'
  <2>1. schema' \in Shapes
    BY <1>1, Afterwards
  <2>2. search' \in [SearchTables -> Searches]
    BY <1>1, SearchAfterwards
  <2>3. copies' \subseteq Tables /\ partial' \subseteq Tables
    BY <1>1 DEF Inv, DatabaseTyped
  <2> QED BY <1>1, <1>4, <2>1, <2>2, <2>3 DEF Inv, DatabaseTyped
<1>10. AdminTyped'
    BY <1>1, <1>6, <1>7 DEF Inv, AdminTyped, counts, history
<1>11. Climbs'
    BY <1>7, <1>8 DEF Climbs
<1>12. \A w \in Workers : worker[w].at \notin PastVersion \cup {"stamping"}
    BY <1>1, Underway
<1>13. ASSUME admin'.at = "migrating", Exclusive(admin.way)' PROVE \A w \in Workers : worker[w].at \in Away
  <2>1. admin' = b /\ b.way = "up" /\ version' # 0
    BY <1>4, <1>6, <1>7, <1>8, <1>13
  <2>2. ~ seeded
    BY <1>1, <1>13, <2>1 DEF Exclusive
  <2> QED BY <1>1, <2>2 DEF Inv, Relies, Exclusive, Migrating
<1>14. crashes' >= crashes
    BY <1>1, StartupAssumption DEF Inv, AdminTyped, counts
<1> QED BY <1>1, <1>9, <1>10, <1>11, <1>12, <1>13, <1>14, AdminStep

LEMMA StopMigrationInv ==
    ASSUME Inv, FailMigration \/ RejectRows \/ KillMigration
    PROVE  Inv'
<1>1. /\ Migrating /\ admin' = Idle /\ torn' = (torn \/ Half)
      /\ UNCHANGED <<database, worker, doubt, presumed>> /\ commands' = commands
    BY DEF FailMigration, RejectRows, KillMigration, StopMigration, counts
<1>2. admin \in MigratingState
    BY <1>1, Underway
<1>3. crashes' \in 0..MaxCrashes /\ crashes' >= crashes
    BY StartupAssumption DEF FailMigration, RejectRows, KillMigration, counts, Inv, AdminTyped
<1>4. torn' \in BOOLEAN
    BY <1>1, <1>2 DEF Half, MigratingState, Inv, AdminTyped
<1>5. AdminTyped'
    BY <1>1, <1>3, <1>4 DEF Inv, AdminTyped
<1>6. copies' \subseteq Tables /\ search' \in [SearchTables -> Searches]
    BY <1>1 DEF Inv, DatabaseTyped, database
<1>7. admin'.at # "migrating"
    BY <1>1 DEF Idle
<1> QED BY <1>1, <1>3, <1>5, <1>6, <1>7, HarmlessStep DEF database

LEMMA TearInv ==
    ASSUME Inv, TearMigration
    PROVE  Inv'
<1>1. /\ Migrating /\ NextOp \in InPlace /\ admin' = Idle /\ torn' = TRUE
      /\ schema' \in {schema, After(schema, <<NextStep>>)}
      /\ partial' = partial \cup {NextStep.table}
      /\ crashes < MaxCrashes /\ crashes' = crashes + 1
      /\ UNCHANGED <<copies, version, search, seeded, root, worker, commands, doubt, presumed>>
    BY DEF TearMigration
<1>2. crashes' \in 0..MaxCrashes /\ crashes' >= crashes
    BY <1>1, StartupAssumption DEF Inv, AdminTyped
<1>3. DatabaseTyped'
  <2>1. schema' \in Shapes
    BY <1>1, Afterwards DEF Inv, DatabaseTyped
  <2> QED BY <1>1, <2>1, NextTyped DEF Inv, DatabaseTyped
<1>4. AdminTyped'
    BY <1>1, <1>2 DEF Inv, AdminTyped
<1>5. admin'.at # "migrating"
    BY <1>1 DEF Idle
<1>6. Climbs'
    BY <1>5 DEF Climbs
<1>7. \A w \in Workers : worker[w].at \notin PastVersion \cup {"stamping"}
    BY <1>1, Underway
<1> QED BY <1>1, <1>2, <1>3, <1>4, <1>5, <1>6, <1>7, AdminStep

-----------------------------------------------------------------------------
(* The rebuild of the searches.                                            *)

LEMMA StartReindexInv ==
    ASSUME Inv, StartReindex
    PROVE  Inv'
<1>1. /\ admin = Idle /\ commands > 0 /\ commands' = commands - 1 /\ commands \in Nat
      /\ UNCHANGED <<database, worker, crashes, history>>
    BY DEF StartReindex, Command, Inv, AdminTyped
<1>2. PICK a : a = [at |-> "drop", next |-> 1]
    OBVIOUS
<1>3. admin' = a /\ a \in ReindexingState /\ a.at # "migrating"
    BY <1>2, Lists DEF StartReindex, ReindexingState
<1>4. AdminTyped'
  <2>1. commands' \in Nat
    BY <1>1
  <2> QED BY <1>1, <1>3, <2>1 DEF Inv, AdminTyped, history
<1>5. copies' \subseteq Tables /\ search' \in [SearchTables -> Searches]
    BY <1>1 DEF Inv, DatabaseTyped, database
<1>6. crashes' >= crashes
    BY <1>1, StartupAssumption DEF Inv, AdminTyped
<1> QED BY <1>1, <1>3, <1>4, <1>5, <1>6, HarmlessStep DEF database, history

LEMMA InReindex ==
    ASSUME Inv, Reindexing
    PROVE  admin \in ReindexingState /\ Reindexed \in SearchTables
<1>1. admin \in ReindexingState
    BY DEF Inv, AdminTyped, Reindexing, Idle, MigratingState
<1>2. admin.next \in 1..Len(Searchable)
    BY <1>1 DEF ReindexingState
<1>3. DOMAIN Searchable = 1..Len(Searchable)
    BY StartupAssumption
<1> QED BY <1>1, <1>2, <1>3 DEF Reindexed, SearchTables, Range

LEMMA ReindexStep ==
    ASSUME Inv, Reindexing,
           UNCHANGED <<schema, partial, copies, version, seeded, root, worker, commands, torn, presumed>>,
           crashes' \in 0..MaxCrashes, crashes' >= crashes,
           search' \in [SearchTables -> Searches], doubt' \subseteq SearchTables,
           admin' \in {Idle} \cup ReindexingState
    PROVE  Inv'
<1>1. copies' \subseteq Tables
    BY DEF Inv, DatabaseTyped
<1>2. AdminTyped'
    BY DEF Inv, AdminTyped
<1>3. admin'.at # "migrating"
    BY DEF Idle, ReindexingState
<1> QED BY <1>1, <1>2, <1>3, HarmlessStep

LEMMA NextAt ==
    ASSUME Inv, Reindexing, NEW at \in {"drop", "untrigger", "index", "trigger", "rebuild"},
           admin' = [admin EXCEPT !.at = at]
    PROVE  admin' \in ReindexingState
<1>1. PICK a : a = admin
    OBVIOUS
<1>2. a \in ReindexingState
    BY <1>1, InReindex
<1> QED BY <1>1, <1>2 DEF ReindexingState

LEMMA DropInv ==
    ASSUME Inv, fts_drop
    PROVE  Inv'
<1>1. Reindexing
    BY DEF fts_drop, Reindexing
<1>2. PICK t : t = Reindexed
    OBVIOUS
<1>3. PICK old : old = search[t]
    OBVIOUS
<1>4. t \in SearchTables /\ search \in [SearchTables -> Searches] /\ old \in Searches
    BY <1>1, <1>2, <1>3, InReindex DEF Inv, DatabaseTyped
<1>5. admin' \in ReindexingState
    BY <1>1, NextAt DEF fts_drop
<1>6. search' \in [SearchTables -> Searches]
  <2>1. CASE search' = [search EXCEPT ![Reindexed].index = FALSE, ![Reindexed].current = FALSE]
    <3>1. PICK new : new = [old EXCEPT !.index = FALSE, !.current = FALSE]
      OBVIOUS
    <3>2. new \in Searches
      BY <1>4, <3>1 DEF Searches
    <3>3. search' = [search EXCEPT ![t] = new]
      BY <1>2, <1>3, <1>4, <2>1, <3>1
    <3> QED BY <1>4, <3>2, <3>3
  <2>2. CASE search' = [search EXCEPT ![Reindexed].triggers = FALSE]
    <3>1. PICK new : new = [old EXCEPT !.triggers = FALSE]
      OBVIOUS
    <3>2. new \in Searches
      BY <1>4, <3>1 DEF Searches
    <3>3. search' = [search EXCEPT ![t] = new]
      BY <1>2, <1>3, <1>4, <2>2, <3>1
    <3> QED BY <1>4, <3>2, <3>3
  <2> QED BY <2>1, <2>2 DEF fts_drop
<1>7. UNCHANGED <<schema, partial, copies, version, seeded, root, worker, counts, history>>
    BY DEF fts_drop
<1>8. crashes' \in 0..MaxCrashes /\ crashes' >= crashes /\ doubt' \subseteq SearchTables
    BY <1>7, StartupAssumption DEF counts, history, Inv, AdminTyped
<1> QED BY <1>1, <1>5, <1>6, <1>7, <1>8, ReindexStep DEF counts, history

LEMMA RebuildInv ==
    ASSUME Inv, fts_rebuild
    PROVE  Inv'
<1>1. Reindexing
    BY DEF fts_rebuild, Reindexing
<1>2. PICK t : t = Reindexed
    OBVIOUS
<1>3. PICK old : old = search[t]
    OBVIOUS
<1>4. t \in SearchTables /\ search \in [SearchTables -> Searches] /\ old \in Searches
    BY <1>1, <1>2, <1>3, InReindex DEF Inv, DatabaseTyped
<1>5. admin' \in {Idle} \cup ReindexingState
  <2>1. CASE admin' = Rebuilt
    <3>1. admin.next \in 1..Len(Searchable) /\ Len(Searchable) \in Nat
      BY <1>1, InReindex, Lists DEF ReindexingState
    <3>2. CASE admin.next < Len(Searchable)
      <4>1. admin.next + 1 \in 1..Len(Searchable)
        BY <3>1, <3>2
      <4> QED BY <2>1, <3>2, <4>1 DEF Rebuilt, ReindexingState
    <3> QED BY <2>1, <3>2 DEF Rebuilt
  <2> QED BY <1>1, <2>1, NextAt DEF fts_rebuild, BreakOff
<1>6. search' \in [SearchTables -> Searches]
  <2>1. CASE search' = [search EXCEPT ![Reindexed].index = TRUE]
    <3>1. PICK new : new = [old EXCEPT !.index = TRUE]
      OBVIOUS
    <3>2. new \in Searches
      BY <1>4, <3>1 DEF Searches
    <3>3. search' = [search EXCEPT ![t] = new]
      BY <1>2, <1>3, <2>1, <3>1
    <3> QED BY <1>4, <3>2, <3>3
  <2>2. CASE search' = [search EXCEPT ![Reindexed].triggers = TRUE]
    <3>1. PICK new : new = [old EXCEPT !.triggers = TRUE]
      OBVIOUS
    <3>2. new \in Searches
      BY <1>4, <3>1 DEF Searches
    <3>3. search' = [search EXCEPT ![t] = new]
      BY <1>2, <1>3, <2>2, <3>1
    <3> QED BY <1>4, <3>2, <3>3
  <2>3. CASE search' = [search EXCEPT ![Reindexed].current = TRUE]
    <3>1. PICK new : new = [old EXCEPT !.current = TRUE]
      OBVIOUS
    <3>2. new \in Searches
      BY <1>4, <3>1 DEF Searches
    <3>3. search' = [search EXCEPT ![t] = new]
      BY <1>2, <1>3, <2>3, <3>1
    <3> QED BY <1>4, <3>2, <3>3
  <2>4. CASE UNCHANGED search
    BY <1>4, <2>4
  <2> QED BY <2>1, <2>2, <2>3, <2>4 DEF fts_rebuild, BreakOff, database
<1>7. UNCHANGED <<schema, partial, copies, version, seeded, root, worker, counts, torn, presumed>>
    BY DEF fts_rebuild, BreakOff, history, counts, database
<1>8. doubt' \subseteq SearchTables
    BY <1>2, <1>4 DEF fts_rebuild, BreakOff, history, Inv, AdminTyped
<1>9. crashes' \in 0..MaxCrashes /\ crashes' >= crashes
    BY <1>7, StartupAssumption DEF counts, Inv, AdminTyped
<1> QED BY <1>1, <1>5, <1>6, <1>7, <1>8, <1>9, ReindexStep DEF counts

LEMMA KillReindexInv ==
    ASSUME Inv, KillReindex
    PROVE  Inv'
<1>1. /\ Reindexing /\ admin' = Idle /\ doubt' \subseteq doubt \cup {Reindexed}
      /\ UNCHANGED <<commands, database, worker, torn, presumed>>
      /\ crashes' = crashes + 1 /\ crashes < MaxCrashes
    BY DEF KillReindex, BreakOff
<1>2. doubt' \subseteq SearchTables
    BY <1>1, InReindex DEF Inv, AdminTyped
<1>3. crashes' \in 0..MaxCrashes /\ crashes' >= crashes
    BY <1>1, StartupAssumption DEF Inv, AdminTyped
<1> QED BY <1>1, <1>2, <1>3, ReindexStep DEF database, Inv, DatabaseTyped

-----------------------------------------------------------------------------
LEMMA StutterInv ==
    ASSUME Inv, UNCHANGED vars
    PROVE  Inv'
    BY DEF vars, Inv, DatabaseTyped, AdminTyped, Climbs, Relies, AtHead, Whole, Exclusive, BareRoot

LEMMA StepInv == Inv /\ [Next]_vars => Inv'
<1> SUFFICES ASSUME Inv, [Next]_vars PROVE Inv'
    OBVIOUS
<1>1. ASSUME NEW w \in Workers, StartWorker(w) PROVE Inv'
    BY <1>1, CreateTablesInv, MakeTableInv, MakeIndexesInv, AfterCreateInv, TablesMadeInv,
       VersionInv, StampInv, EnumInv, RootInv DEF StartWorker
<1>2. ASSUME NEW w \in Workers, stop(w) \/ kill(w) PROVE Inv'
    BY <1>2, StopInv, KillInv
<1>3. ASSUME NEW w \in Workers, NEW t \in SearchTables, write(w, t) PROVE Inv'
    BY <1>3, WriteInv
<1>4. ASSUME Migrate PROVE Inv'
    BY <1>4, StartMigrationInv, InPlaceInv, MakeCopyInv, CommitMigrationInv, StopMigrationInv,
       TearInv DEF Migrate
<1>5. ASSUME Reindex PROVE Inv'
    BY <1>5, StartReindexInv, DropInv, RebuildInv, KillReindexInv DEF Reindex
<1>6. CASE UNCHANGED vars
    BY <1>6, StutterInv
<1> QED BY <1>1, <1>2, <1>3, <1>4, <1>5, <1>6 DEF Next

LEMMA Invariant == Spec => []Inv
<1>1. Init => Inv
    BY InitInv
<1> QED BY <1>1, StepInv, PTL DEF Spec

-----------------------------------------------------------------------------
LEMMA InvTypes == Inv => TypeOK
<1> SUFFICES ASSUME Inv PROVE TypeOK
    OBVIOUS
<1>1. \/ admin = Idle
      \/ /\ admin.at = "migrating" /\ admin.way \in {"up", "down"}
         /\ admin.step \in Nat \ {0} /\ admin.tail \in BOOLEAN
      \/ /\ admin.at \in {"drop", "untrigger", "index", "trigger", "rebuild"}
         /\ admin.next \in 1..Len(Searchable)
    BY DEF Inv, AdminTyped, MigratingState, ReindexingState
<1> QED BY <1>1 DEF Inv, DatabaseTyped, AdminTyped, TypeOK, Shapes, Searches, WorkerState

LEMMA InvServes == Inv => ServesHead
<1> SUFFICES ASSUME Inv PROVE ServesHead
    OBVIOUS
<1>1. ASSUME NEW w \in Workers, worker[w].at = "serving" PROVE AtHead
    BY <1>1 DEF Inv, Relies, PastVersion
<1> QED BY <1>1 DEF Inv, BareRoot, ServesHead, AtHead

LEMMA StepHarmless ==
    ASSUME Inv, [Next]_vars, ~ Migrating
    PROVE  /\ version # 0 => version' = version
           /\ \A t \in Tables : schema[t] # {} => schema'[t] = schema[t]
<1>1. ASSUME NEW w \in Workers, stamp(w), version # 0 PROVE version' = version
    BY <1>1 DEF stamp, Inv, Relies
<1>2. ASSUME NEW w \in Workers, make_table(w), NEW t \in Tables, schema[t] # {} PROVE schema'[t] = schema[t]
    BY <1>2 DEF make_table, Inv, DatabaseTyped, Shapes
<1>3. ASSUME NEW w \in Workers, StartWorker(w)
      PROVE  /\ stamp(w) \/ version' = version
             /\ make_table(w) \/ schema' = schema
    BY <1>3 DEF StartWorker, create_tables, make_table, make_indexes, after_create, tables_made,
       ensure_alembic_version, stamp, ensure_enum_values, ensure_root, look_for_root,
       create_account, CommitAccount, grant_scopes, database
<1>4. CASE \E w \in Workers : StartWorker(w)
    BY <1>1, <1>2, <1>3, <1>4
<1>5. CASE UNCHANGED vars \/ ~ \E w \in Workers : StartWorker(w)
  <2>1. CASE Migrate
    BY <2>1 DEF Migrate, StartMigration, MigrateInPlace, MakeCopy, CommitMigration, FailMigration,
       RejectRows, KillMigration, TearMigration, Migrating, database
  <2>2. CASE Reindex
    BY <2>2 DEF Reindex, StartReindex, fts_drop, fts_rebuild, KillReindex, BreakOff, database
  <2>3. CASE \E w \in Workers : stop(w) \/ kill(w) \/ \E t \in SearchTables : write(w, t)
    BY <2>3 DEF stop, kill, write, database
  <2> QED BY <1>5, <2>1, <2>2, <2>3 DEF Next, vars
<1> QED BY <1>4, <1>5

(* Whatever starts, migrations, rebuilds and kills there are, and whatever *)
(* the migrations do: what is on disk is a schema of the program's tables, *)
(* and every process is at a step of its code (db.py, cli/maintain.py).    *)
THEOREM TypeCorrect == Spec => []TypeOK
    BY Invariant, InvTypes, PTL

(* A worker only serves a database that is stamped with the last version   *)
(* and has every table as the models declare it, indices included, but for *)
(* those that were not when a start stamped it unchecked; and a root       *)
(* account without scopes is one whose start goes on or was killed (db.py  *)
(* ensure_alembic_version, ensure_root), for any list of migrations.       *)
THEOREM ServesOnlyHead == Spec => []ServesHead
    BY Invariant, InvServes, PTL

(* No start changes a table that is there, nor the stamp of a database     *)
(* that has one (db.py create_tables, ensure_alembic_version).             *)
THEOREM StartsDoNoHarm == Spec => StartsHarmless
<1>1. Inv /\ [Next]_vars =>
         [~ Migrating =>
             /\ version # 0 => version' = version
             /\ \A t \in Tables : schema[t] # {} => schema'[t] = schema[t]]_vars
    BY StepHarmless
<1> QED BY <1>1, Invariant, PTL DEF Spec, StartsHarmless
=============================================================================
