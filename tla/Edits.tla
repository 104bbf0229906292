------------------------------- MODULE Edits -------------------------------
(***************************************************************************)
(* Creating and editing a dataset, and the history its edits leave.        *)
(*                                                                         *)
(* A dataset has columns, urls (rows that point to it), tags (link rows)   *)
(* and parts.  An after_flush listener copies each editable object of the  *)
(* session into its history table, under one timestamp per flush; sessions *)
(* do not autoflush, so that is one per commit.  A request reads, changes  *)
(* its objects in memory and commits: the requests of other workers commit *)
(* in between, and the objects it holds are then stale.                    *)
(***************************************************************************)
EXTENDS Integers, FiniteSets, FiniteSetsExt, Functions

CONSTANTS
    Workers,      \* the worker processes
    Columns,      \* the columns of datasets that a patch may name
    Values,       \* their values
    Urls,         \* the urls a dataset may list
    Tags,         \* its tags
    Parts,        \* the slugs of its parts
    NoRow,        \* the dataset has not been created
    NotSet,       \* a patch leaves the urls or the tags alone
    MaxRequests   \* how many requests are made

ASSUME EditsAssumption ==
    /\ MaxRequests \in Nat
    /\ NoRow \notin [Columns -> Values]
    /\ \A us \in SUBSET Urls : us # NotSet
    /\ \A ts \in SUBSET Tags : ts # NotSet

VARIABLES
    dataset,            \* the row of datasets, by column
    urls,               \* the rows of dataset_urls that point to it
    links,              \* the tags with a row in dataset_tag_links
    parts,              \* the slugs with a row in dataset_parts
    datasets__history, urls__history, links__history, parts__history,
    session,            \* what the request of each worker holds
    clock,              \* the commits so far: version_created_at
    requests,
    \* History of the model:
    past,               \* what each commit left in the tables
    overlap             \* two requests have been under way at once

tables == <<dataset, urls, links, parts>>
histories == <<datasets__history, urls__history, links__history, parts__history>>
vars == <<tables, histories, session, clock, requests, past, overlap>>

Times == 1 .. MaxRequests
\* A row of dataset_urls, by its url and the commit that made it.
UrlRows == [url : Urls, made : Times]
Row == [Columns -> Values]

\* A patch names some columns; urls and tags are replaced as a whole.
Patch == [columns : UNION {[cs -> Values] : cs \in SUBSET Columns},
          urls : {NotSet} \cup SUBSET Urls,
          tags : {NotSet} \cup ((SUBSET Tags) \ {{}})]

Closed == [at |-> "closed"]
Editing == [at : {"update"}, row : Row, urls : SUBSET UrlRows,
            tags : SUBSET Tags, patch : Patch]
Creating == [at : {"create"}, row : Row, urls : SUBSET Urls,
             tags : (SUBSET Tags) \ {{}}, parts : SUBSET Parts]
Adding == [at : {"part", "adding"}, parts : SUBSET Parts]

TypeOK ==
    /\ dataset \in {NoRow} \cup Row
    /\ urls \subseteq UrlRows
    /\ links \subseteq Tags
    /\ parts \subseteq Parts
    /\ DOMAIN datasets__history \subseteq Times
    /\ Range(datasets__history) \subseteq Row
    /\ urls__history \subseteq [id : UrlRows, owned : BOOLEAN, time : Times]
    /\ links__history \subseteq [tag : Tags, deletion : BOOLEAN, time : Times]
    /\ parts__history \subseteq [part : Parts, time : Times]
    /\ \A w \in Workers :
         \/ session[w] = Closed
         \/ session[w].at = "update" /\ session[w] \in Editing
         \/ session[w].at = "create" /\ session[w] \in Creating
         \/ session[w].at \in {"part", "adding"} /\ session[w] \in Adding
    /\ clock \in 0 .. MaxRequests
    /\ DOMAIN past = 1 .. clock
    /\ requests \in 0 .. MaxRequests
    /\ overlap \in BOOLEAN

Init ==
    /\ dataset = NoRow
    /\ urls = {}
    /\ links = {}
    /\ parts = {}
    /\ datasets__history = <<>>
    /\ urls__history = {}
    /\ links__history = {}
    /\ parts__history = {}
    /\ session = [w \in Workers |-> Closed]
    /\ clock = 0
    /\ requests = 0
    /\ past = <<>>
    /\ overlap = FALSE

-----------------------------------------------------------------------------
(* Requests.                                                               *)

Open(w, held) ==
    /\ session[w] = Closed
    /\ requests < MaxRequests
    /\ requests' = requests + 1
    /\ session' = [session EXCEPT ![w] = held]
    /\ overlap' = (overlap \/ \E v \in Workers : session[v] # Closed)
    /\ UNCHANGED <<tables, histories, clock, past>>

Close(w) ==
    /\ session' = [session EXCEPT ![w] = Closed]
    /\ UNCHANGED <<requests, overlap>>

\* A flush that fails, or finds nothing to write.
RollBack(w) ==
    /\ Close(w)
    /\ UNCHANGED <<tables, histories, clock, past>>

Contents(d, us, ls, ps) ==
    [row |-> d, urls |-> us, tags |-> ls, parts |-> ps]

\* The time of this commit, and what it leaves.
now == clock + 1

\* A row for now in a table that has one for each time.
with_now(f, row) == [t \in DOMAIN f \cup {now} |-> IF t = now THEN row ELSE f[t]]

Commit(w) ==
    /\ Close(w)
    /\ clock' = now
    /\ past' = with_now(past, Contents(dataset', urls', links', parts'))

(* Mutant of new_urls: the rows are stamped with the commit before.        *)
stale_urls(us) == [url : us, made : {clock}]

new_urls(us) == [url : us, made : {now}]

-----------------------------------------------------------------------------
(* The history tables: the after_flush listener of mixins/edit.py.         *)

\* create_version: the object as this session has it in memory.
create_version(row) == with_now(datasets__history, row)

url_versions(ids, is_owned) ==
    [id : ids, owned : {is_owned}, time : {now}]

\* _update_many_to_many: a collection that changed, or is new, and is not
\* empty, has all its links versioned, and those it lost as deletions.
_update_many_to_many(kept, added, deleted) ==
    IF added \cup deleted = {} \/ kept \cup added = {} THEN {}
    ELSE [tag : kept \cup added, deletion : {FALSE}, time : {now}]
           \cup [tag : deleted, deletion : {TRUE}, time : {now}]

(* Mutant of _update_one_to_many: only changed items have a version.       *)
nothing_unchanged(unchanged, added, removed) == {}

\* _update_one_to_many: the items of a changed collection that did not change
\* are versioned with those that did.
_update_one_to_many(unchanged, added, removed) ==
    IF added \cup removed = {} THEN {} ELSE url_versions(unchanged, TRUE)

-----------------------------------------------------------------------------
(* POST /datasets: crud.create_dataset.                                    *)

datasets_create(w) ==
    \E r \in Row, us \in SUBSET Urls, ts \in (SUBSET Tags) \ {{}}, ps \in SUBSET Parts :
        /\ dataset = NoRow
        /\ Open(w, [at |-> "create", row |-> r, urls |-> us, tags |-> ts, parts |-> ps])

\* Every object is new, and the slug is unique: a second creation fails.
create_dataset(w) ==
    /\ session[w].at = "create"
    /\ IF dataset # NoRow THEN RollBack(w)
       ELSE LET s == session[w]
                made == new_urls(s.urls)
            IN  /\ dataset' = s.row
                /\ urls' = urls \cup made
                /\ links' = s.tags
                /\ parts' = s.parts
                /\ datasets__history' = create_version(s.row)
                /\ urls__history' = urls__history \cup url_versions(made, TRUE)
                /\ links__history' = links__history \cup _update_many_to_many({}, s.tags, {})
                /\ parts__history' = parts__history \cup [part : s.parts, time : {now}]
                /\ Commit(w)

-----------------------------------------------------------------------------
(* PATCH /datasets/{slug}: Dataset.update.                                 *)

dataset_edit(w) ==
    \E p \in Patch :
        /\ dataset # NoRow
        /\ Open(w, [at |-> "update", row |-> dataset, urls |-> urls,
                    tags |-> links, patch |-> p])

(* Mutant of changed_columns: the whole object is written back.            *)
all_columns(s) == Columns

\* The columns an UPDATE names: those whose value is not the one read.
changed_columns(s) ==
    {c \in DOMAIN s.patch.columns : s.patch.columns[c] # s.row[c]}

tags_added(s) == IF s.patch.tags = NotSet THEN {} ELSE s.patch.tags \ s.tags
tags_deleted(s) == IF s.patch.tags = NotSet THEN {} ELSE s.tags \ s.patch.tags

\* ListlikeMixin.get_items keeps the rows whose value is still wanted.
urls_removed(s) ==
    IF s.patch.urls = NotSet THEN {}
    ELSE {i \in s.urls : i.url \notin s.patch.urls}
urls_added(s) ==
    IF s.patch.urls = NotSet THEN {}
    ELSE s.patch.urls \ {i.url : i \in s.urls}

\* A link that is there already, or is gone already: IntegrityError,
\* StaleDataError.
conflicts(s) ==
    \/ tags_added(s) \cap links # {}
    \/ ~(tags_deleted(s) \subseteq links)

_check_if_changed(s) ==
    changed_columns(s) \cup tags_added(s) \cup tags_deleted(s)
        \cup urls_removed(s) \cup urls_added(s) # {}

update(w) ==
    /\ session[w].at = "update"
    /\ LET s == session[w]
           seen == [c \in Columns |-> IF c \in DOMAIN s.patch.columns
                                      THEN s.patch.columns[c] ELSE s.row[c]]
           made == new_urls(urls_added(s))
           gone == urls_removed(s)
       IN  IF conflicts(s) \/ ~_check_if_changed(s) THEN RollBack(w)
           ELSE /\ dataset' = [c \in Columns |->
                                 IF c \in changed_columns(s) THEN seen[c] ELSE dataset[c]]
                /\ urls' = (urls \ gone) \cup made
                /\ links' = (links \ tags_deleted(s)) \cup tags_added(s)
                /\ datasets__history' = create_version(seen)
                /\ urls__history' =
                     UNION {urls__history, url_versions(made, TRUE),
                            url_versions(gone, FALSE),
                            _update_one_to_many(s.urls \ gone, made, gone)}
                /\ links__history' = links__history \cup
                     _update_many_to_many(s.tags \ tags_deleted(s), tags_added(s),
                                          tags_deleted(s))
                /\ UNCHANGED <<parts, parts__history>>
                /\ Commit(w)

-----------------------------------------------------------------------------
(* POST /datasets/{slug}/parts: part_create.                               *)

check_existing_dataset_parts(ps) == ps \cap parts

part_create(w) ==
    \E ps \in (SUBSET Parts) \ {{}} :
        /\ dataset # NoRow
        /\ check_existing_dataset_parts(ps) = {}
        /\ Open(w, [at |-> "part", parts |-> ps])

\* A part that has appeared since the check is returned as it is.
create_dataset_part(w) ==
    /\ session[w].at = "part"
    /\ session' = [session EXCEPT ![w] = [at |-> "adding", parts |-> @.parts \ parts]]
    /\ UNCHANGED <<tables, histories, clock, past, requests, overlap>>

\* One that has appeared since fails the unique constraint.  The dataset's own
\* collection of parts is not loaded: the dataset gets no version.
commit_parts(w) ==
    /\ session[w].at = "adding"
    /\ IF session[w].parts = {} \/ session[w].parts \cap parts # {} THEN RollBack(w)
       ELSE /\ parts' = parts \cup session[w].parts
            /\ parts__history' =
                 parts__history \cup [part : session[w].parts, time : {now}]
            /\ UNCHANGED <<dataset, urls, links, datasets__history, urls__history,
                           links__history>>
            /\ Commit(w)

-----------------------------------------------------------------------------
Next ==
    \E w \in Workers :
        \/ datasets_create(w)
        \/ create_dataset(w)
        \/ dataset_edit(w)
        \/ update(w)
        \/ part_create(w)
        \/ create_dataset_part(w)
        \/ commit_parts(w)

Spec == Init /\ [][Next]_vars

-----------------------------------------------------------------------------
(* Properties.                                                             *)

\* The last version up to time t of what has any.
upto(t, times) == {s \in times : s <= t}
last_url(t, i) ==
    LET hs == {h \in urls__history : h.id = i /\ h.time <= t}
    IN  CHOOSE h \in hs : \A g \in hs : g.time <= h.time
last_link(t, g) ==
    LET hs == {h \in links__history : h.tag = g /\ h.time <= t}
    IN  CHOOSE h \in hs : \A k \in hs : k.time <= h.time

AsOf(t) ==
    [row |-> datasets__history[Max(upto(t, DOMAIN datasets__history))],
     urls |-> {i \in {h.id : h \in {k \in urls__history : k.time <= t}} : last_url(t, i).owned},
     tags |-> {g \in {h.tag : h \in {k \in links__history : k.time <= t}} :
                 ~last_link(t, g).deletion},
     parts |-> {h.part : h \in {k \in parts__history : k.time <= t}}]

\* "Mixin to create parallel tables to track edit history": read as of any
\* commit, the history tables give the dataset that commit left, with its
\* urls, tags and parts.
Reconstructs == \A t \in DOMAIN past : AsOf(t) = past[t]

\* "so that we have a full version at a given version of the parent": the
\* versions of urls, and of links, with exactly the timestamp of a version of
\* the dataset are none or all of those it then had.
FullAtParent ==
    \A t \in DOMAIN datasets__history :
        LET hu == {h \in urls__history : h.time = t}
            hl == {h \in links__history : h.time = t}
        IN  /\ hu = {} \/ {h.id : h \in {k \in hu : k.owned}} = past[t].urls
            /\ hl = {} \/ {h.tag : h \in {k \in hl : ~k.deletion}} = past[t].tags

\* The history can be read both ways, as long as no two edits overlapped: a
\* version is the object as its request had it, stale columns included.
HistoryHolds == ~overlap => Reconstructs /\ FullAtParent

\* An edit does not undo what another did, after it read the dataset, to
\* columns and tags it does not name, whatever overlaps.
EditsTouchOwnFields ==
    [][\A w \in Workers :
          (session[w] # Closed /\ session[w].at = "update" /\ session'[w] = Closed) =>
              /\ \A c \in Columns \ DOMAIN session[w].patch.columns : dataset'[c] = dataset[c]
              /\ session[w].patch.tags = NotSet => links' = links]_vars

=============================================================================
