------------------------------ MODULE Torrents ------------------------------
(***************************************************************************)
(* Torrent files and the uploads they belong to.                           *)
(*                                                                         *)
(* A torrent is a row of torrent_files and a file on disk under            *)
(* <infohash>/<file_name>; row and file are written by different steps.    *)
(* Each worker runs one request at a time, its handlers never await, and   *)
(* between two statements of one worker the others run theirs: what a      *)
(* handler read may be gone when it writes.  A request that is refused     *)
(* before it changes anything (400, 403, 404) is not a step.               *)
(***************************************************************************)
EXTENDS Integers, FiniteSets, FiniteSetsExt, Functions

CONSTANTS
    Workers,       \* the worker processes
    Hashes,        \* the infohashes of the torrents sent
    Names,         \* their file names
    Contents,      \* what they say outside the info dictionary: trackers, ...
    Bare,          \* the contents without a tracker
    NoFile,        \* no file at a path
    MaxRequests,   \* how many requests are made
    MaxFailures    \* how many of them are cut off by a kill or a failed commit

ASSUME TorrentsAssumption ==
    /\ Bare \subseteq Contents
    /\ NoFile \notin Contents
    /\ MaxRequests \in Nat
    /\ MaxFailures \in Nat

VARIABLES
    torrents,      \* the rows of torrent_files, by torrent_file_id
    uploads,       \* the ids of the rows of uploads
    disk,          \* the torrent files
    req,           \* where each worker is in its request
    requests, failures,
    \* History:
    overlap,       \* two requests about one torrent were under way at once
    stripped,      \* uploads whose torrent an explicit edit took away
    refused        \* uploads whose torrent was deleted for a refused one

vars == <<torrents, uploads, disk, req, requests, failures, overlap, stripped,
          refused>>

None == 0
Ids == 1 .. MaxRequests + 2      \* two torrents may be there at the start
Paths == Hashes \X Names
Row == [hash : Hashes, name : Names, content : Contents,
        upload : Ids \cup {None}, files : 0 .. MaxRequests + 1]

Idle == [at |-> "idle"]
Uploading ==
    [at : {"delete", "write", "insert", "files", "attach"}, hash : Hashes,
     name : Names, content : Contents, torrent : Ids \cup {None},
     old : Names, upload : Ids \cup {None}]
Creating == [at : {"create_upload"}, hash : Hashes, torrent : Ids]
Editing == [at : {"infohash"}, hash : Hashes, other : Hashes,
            torrent : Ids \cup {None}, upload : Ids, old : Ids]
Renaming == [at : {"file_name"}, hash : Hashes, torrent : Ids, name : Names]

TypeOK ==
    /\ DOMAIN torrents \subseteq Ids
    /\ \A t \in DOMAIN torrents : torrents[t] \in Row
    /\ uploads \subseteq Ids
    /\ disk \in [Paths -> Contents \cup {NoFile}]
    /\ req \in [Workers -> {Idle} \cup Uploading \cup Creating \cup Editing \cup Renaming]
    /\ requests \in 0 .. MaxRequests
    /\ failures \in 0 .. MaxFailures
    /\ overlap \in BOOLEAN
    /\ stripped \subseteq Ids
    /\ refused \subseteq Ids

path(t) == <<torrents[t].hash, torrents[t].name>>

\* One torrent with its upload, and perhaps a second one with or without.
Init ==
    /\ \E n \in 1 .. 2 :
         torrents \in [1 .. n -> [hash : Hashes, name : Names, content : Contents \ Bare,
                                upload : {None, 1, 2}, files : {1}]]
    /\ torrents[1].upload = 1
    /\ \A t \in DOMAIN torrents : torrents[t].upload \in {None, t}
    /\ \A s, t \in DOMAIN torrents : torrents[s].hash = torrents[t].hash => s = t
    /\ uploads = {torrents[t].upload : t \in DOMAIN torrents} \ {None}
    /\ disk = [p \in Paths |->
                 LET there == {t \in DOMAIN torrents : path(t) = p} IN
                 IF there = {} THEN NoFile
                 ELSE torrents[CHOOSE t \in there : TRUE].content]
    /\ req = [w \in Workers |-> Idle]
    /\ requests = 0
    /\ failures = 0
    /\ overlap = FALSE
    /\ stripped = {}
    /\ refused = {}

-----------------------------------------------------------------------------
(* Rows.                                                                   *)

with_hash(h) == {t \in DOMAIN torrents : torrents[t].hash = h}

\* The first match, or None; the infohashes are unique columns.
get_torrent_from_infohash(h) ==
    IF with_hash(h) = {} THEN None ELSE CHOOSE t \in with_hash(h) : TRUE

torrents_of(u) == {t \in DOMAIN torrents : torrents[t].upload = u}

(* Mutant of next_id: counts from zero.                                    *)
next_count(ids) == Cardinality(ids)

\* SQLite hands out the largest id plus one: that of a deleted last row again.
next_id(ids) == IF ids = {} THEN 1 ELSE Max(ids) + 1

\* Setting Upload.torrent: the torrents it was read to have are left without
\* an upload, and the one it gets loses the upload it had.
set_torrent(u, t, had) ==
    torrents' = [s \in DOMAIN torrents |->
                   [torrents[s] EXCEPT
                      !.upload = IF s = t THEN u ELSE IF s \in had THEN None ELSE @]]

\* The uploads an edit that sets u's torrent to t leaves without one.
loses(u, t) ==
    IF t = None THEN {u} ELSE {torrents[t].upload} \ {u, None}

-----------------------------------------------------------------------------
(* Requests.                                                               *)

about(r) ==
    IF r = Idle THEN {}
    ELSE {r.hash} \cup (IF r.at = "infohash" THEN {r.other} ELSE {})

Begin(w, r) ==
    /\ req[w] = Idle
    /\ requests < MaxRequests
    /\ requests' = requests + 1
    /\ req' = [req EXCEPT ![w] = r]
    /\ overlap' = (overlap \/ \E v \in Workers : about(req[v]) \cap about(r) # {})
    /\ UNCHANGED <<failures, stripped, refused>>

Goto(w, at) == req' = [req EXCEPT ![w].at = at]

Finish(w) == req' = [req EXCEPT ![w] = Idle]

counts == <<requests, failures, overlap>>

-----------------------------------------------------------------------------
(* POST /torrents: upload_torrent, crud.create_torrent.                    *)

\* No tracker: 400, whatever has been done so far.
has_tracker(c) == c \notin Bare

\* The look for a torrent with this infohash.  One that has an upload is only
\* replaced with force=true by an account that may edit it, else refused.
upload_torrent(w) ==
    \E h \in Hashes, n \in Names, c \in Contents :
        LET t == get_torrent_from_infohash(h) IN
        /\ t # None \/ has_tracker(c)
        /\ Begin(w, [at |-> IF t = None THEN "write" ELSE "delete",
                     hash |-> h, name |-> n, content |-> c, torrent |-> t,
                     old |-> IF t = None THEN n ELSE torrents[t].name,
                     upload |-> IF t = None THEN None ELSE torrents[t].upload])
        /\ UNCHANGED <<torrents, uploads, disk>>

\* The flush deletes the row by its id and fires _delete_torrent_file.
unlink(w) == disk' = [disk EXCEPT ![<<req[w].hash, req[w].old>>] = NoFile]

\* Then the commit, and only then the look at the trackers.
delete_existing(w) ==
    /\ req[w].at = "delete"
    /\ torrents' = Restrict(torrents, DOMAIN torrents \ {req[w].torrent})
    /\ unlink(w)
    /\ IF has_tracker(req[w].content)
       THEN Goto(w, "write") /\ UNCHANGED refused
       ELSE Finish(w) /\ refused' = refused \cup ({req[w].upload} \ {None})
    /\ UNCHANGED <<uploads, stripped, counts>>

\* The commit of the delete fails: the file is gone and the row is not.
delete_fails(w) ==
    /\ req[w].at = "delete"
    /\ failures < MaxFailures
    /\ failures' = failures + 1
    /\ unlink(w)
    /\ Finish(w)
    /\ UNCHANGED <<torrents, uploads, requests, overlap, stripped, refused>>

write_file(w) ==
    /\ req[w].at = "write"
    /\ disk' = [disk EXCEPT ![<<req[w].hash, req[w].name>>] = req[w].content]
    /\ Goto(w, "insert")
    /\ UNCHANGED <<torrents, uploads, stripped, refused, counts>>

new_row(w) ==
    [hash |-> req[w].hash, name |-> req[w].name, content |-> req[w].content,
     upload |-> None, files |-> 0]

\* A row with this infohash by now: IntegrityError, and the file stays.
create_torrent(w) ==
    /\ req[w].at = "insert"
    /\ IF with_hash(req[w].hash) # {}
       THEN Finish(w) /\ UNCHANGED torrents
       ELSE LET t == next_id(DOMAIN torrents) IN
            /\ torrents' = [s \in DOMAIN torrents \cup {t} |->
                               IF s = t THEN new_row(w) ELSE torrents[s]]
            /\ req' = [req EXCEPT ![w].at = "files", ![w].torrent = t]
    /\ UNCHANGED <<uploads, disk, stripped, refused, counts>>

\* refresh raises when the row is gone; the rows of the files follow in a
\* transaction of their own.
bulk_insert_files(w) ==
    /\ req[w].at = "files"
    /\ IF req[w].torrent \in DOMAIN torrents
       THEN /\ torrents' = [torrents EXCEPT ![req[w].torrent].files = @ + 1]
            /\ IF req[w].upload # None THEN Goto(w, "attach") ELSE Finish(w)
       ELSE Finish(w) /\ UNCHANGED torrents
    /\ UNCHANGED <<uploads, disk, stripped, refused, counts>>

(* Mutant of attach: the upload of the replaced torrent is not added.      *)
attach_nothing(w) ==
    /\ req[w].at = "attach"
    /\ Finish(w)
    /\ UNCHANGED <<torrents, uploads, disk, stripped, refused, counts>>

\* The replaced torrent's upload gets the new one.
attach(w) ==
    /\ req[w].at = "attach"
    /\ IF req[w].torrent \in DOMAIN torrents
       THEN set_torrent(req[w].upload, req[w].torrent, torrents_of(req[w].upload))
       ELSE UNCHANGED torrents
    /\ Finish(w)
    /\ UNCHANGED <<uploads, disk, stripped, refused, counts>>

-----------------------------------------------------------------------------
(* POST /uploads: create_upload, crud.create_upload.  A torrent that has an *)
(* upload is not refused.                                                  *)

create_upload(w) ==
    \E t \in DOMAIN torrents :
        /\ Begin(w, [at |-> "create_upload", hash |-> torrents[t].hash,
                     torrent |-> t])
        /\ UNCHANGED <<torrents, uploads, disk>>

\* The UPDATE of a row that is gone raises StaleDataError: nothing is kept.
commit_upload(w) ==
    /\ req[w].at = "create_upload"
    /\ LET t == req[w].torrent
           u == next_id(uploads)
       IN  IF t \in DOMAIN torrents
           THEN /\ uploads' = uploads \cup {u}
                /\ set_torrent(u, t, {})
                /\ stripped' = stripped \cup loses(u, t)
           ELSE UNCHANGED <<torrents, uploads, stripped>>
    /\ Finish(w)
    /\ UNCHANGED <<disk, refused, counts>>

-----------------------------------------------------------------------------
(* PATCH /uploads/{infohash}: Upload.update.  The upload is found by the   *)
(* infohash of its torrent.                                                *)

\* An infohash no torrent has leaves the upload without one.
edit_infohash(w) ==
    \E t \in DOMAIN torrents, h \in Hashes :
        /\ torrents[t].upload # None
        /\ h # torrents[t].hash
        /\ Begin(w, [at |-> "infohash", hash |-> torrents[t].hash, other |-> h,
                     upload |-> torrents[t].upload, old |-> t,
                     torrent |-> get_torrent_from_infohash(h)])
        /\ UNCHANGED <<torrents, uploads, disk>>

commit_infohash(w) ==
    /\ req[w].at = "infohash"
    /\ LET t == req[w].torrent
           u == req[w].upload
       IN  IF t \in DOMAIN torrents \cup {None}
           THEN set_torrent(u, t, {req[w].old}) /\ stripped' = stripped \cup loses(u, t)
           ELSE UNCHANGED <<torrents, stripped>>
    /\ Finish(w)
    /\ UNCHANGED <<uploads, disk, refused, counts>>

(* Mutant of renamed: the file keeps its name.                             *)
not_renamed(h, old, new) == disk

\* _rename_torrent_file moves the file when the attribute is set.
renamed(h, old, new) ==
    IF disk[<<h, old>>] = NoFile THEN disk
    ELSE [disk EXCEPT ![<<h, old>>] = NoFile, ![<<h, new>>] = disk[<<h, old>>]]

edit_file_name(w) ==
    \E t \in DOMAIN torrents, n \in Names :
        /\ torrents[t].upload # None
        /\ n # torrents[t].name
        /\ Begin(w, [at |-> "file_name", hash |-> torrents[t].hash, torrent |-> t,
                     name |-> n])
        /\ disk' = renamed(torrents[t].hash, torrents[t].name, n)
        /\ UNCHANGED <<torrents, uploads>>

commit_file_name(w) ==
    /\ req[w].at = "file_name"
    /\ LET t == req[w].torrent IN
       IF t \in DOMAIN torrents
       THEN torrents' = [torrents EXCEPT ![t].name = req[w].name]
       ELSE UNCHANGED torrents
    /\ Finish(w)
    /\ UNCHANGED <<uploads, disk, stripped, refused, counts>>

-----------------------------------------------------------------------------
\* The worker is killed, or its next commit fails: what is committed, and
\* what is on disk, stays.
Abort(w) ==
    /\ req[w] # Idle
    /\ failures < MaxFailures
    /\ failures' = failures + 1
    /\ Finish(w)
    /\ UNCHANGED <<torrents, uploads, disk, requests, overlap, stripped, refused>>

Next ==
    \E w \in Workers :
        \/ upload_torrent(w)
        \/ delete_existing(w)
        \/ delete_fails(w)
        \/ write_file(w)
        \/ create_torrent(w)
        \/ bulk_insert_files(w)
        \/ attach(w)
        \/ create_upload(w)
        \/ commit_upload(w)
        \/ edit_infohash(w)
        \/ commit_infohash(w)
        \/ edit_file_name(w)
        \/ commit_file_name(w)
        \/ Abort(w)

Spec == Init /\ [][Next]_vars

-----------------------------------------------------------------------------
(* Safety.  "Alone": no two requests about the same torrent overlapped and  *)
(* none was cut off; requests about different torrents interleave freely.  *)

Settled == \A w \in Workers : req[w] = Idle
Alone == Settled /\ ~overlap /\ failures = 0

\* The file on disk is the torrent its row describes, and its files are listed
\* once, through any sequence of uploads, replacements and renames.
RowMatchesFile ==
    Alone => \A t \in DOMAIN torrents :
                /\ disk[path(t)] = torrents[t].content
                /\ torrents[t].files = 1

\* Replacing a torrent keeps its upload supplied: an upload is without one
\* only when a request said so, or its replacement was refused.
UploadKeepsTorrent ==
    Alone => \A u \in uploads \ (stripped \cup refused) :
                Cardinality(torrents_of(u)) = 1

=============================================================================
