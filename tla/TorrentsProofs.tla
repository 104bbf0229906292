--------------------------- MODULE TorrentsProofs ---------------------------
(***************************************************************************)
(* Proofs about Torrents, for every set of workers, infohashes, names and  *)
(* contents, and any number of requests and failures.                      *)
(***************************************************************************)
EXTENDS Torrents, FiniteSetTheorems, WellFoundedInduction, TLAPS

(* Ids come back, but they and the rows of files stay within what requests *)
(* have asked for: those still to insert are part of the count.            *)
Coming(states) == {w \in Workers : req[w].at \in states}

NewTorrent == {"delete", "write", "insert"}
NewFiles == {"delete", "write", "insert", "files"}
NewUpload == {"create_upload"}

Within(coming, asked, bound, sizes) ==
    /\ IsFiniteSet(coming)
    /\ Cardinality(coming) <= asked
    /\ \A n \in sizes : n + Cardinality(coming) <= asked + bound

FileCounts == {torrents[t].files : t \in DOMAIN torrents}

Accounted ==
    /\ Within(Coming(NewTorrent), requests, 2, DOMAIN torrents)
    /\ Within(Coming(NewUpload), requests, 2, uploads)
    /\ Within(Coming(NewFiles), requests, 1, FileCounts)

(* Infohashes are unique, and no row or request names an upload that is    *)
(* not there.                                                              *)
Unique == \A s, t \in DOMAIN torrents : torrents[s].hash = torrents[t].hash => s = t

Referring ==
    /\ \A t \in DOMAIN torrents : torrents[t].upload \in uploads \cup {None}
    /\ \A w \in Workers : req[w] \in Uploading \cup Editing =>
          req[w].upload \in uploads \cup {None}

(* The rest is about requests of which none was cut off, and of which      *)
(* those about the same torrent did not overlap.                           *)
Has(t, h) == t \in with_hash(h)

OnDisk(t) == disk[path(t)] = torrents[t].content

Matches(t) == OnDisk(t) /\ torrents[t].files = 1

(* What a request has in hand is what is there.                            *)
InHand(r) ==
    /\ r.at = "delete" =>
          /\ Has(r.torrent, r.hash)
          /\ torrents[r.torrent].name = r.old
          /\ torrents[r.torrent].upload = r.upload
    /\ r.at \in {"write", "insert"} => with_hash(r.hash) = {}
    /\ r.at = "insert" => disk[<<r.hash, r.name>>] = r.content
    /\ r.at \in {"files", "attach"} =>
          /\ Has(r.torrent, r.hash) /\ OnDisk(r.torrent)
          /\ torrents[r.torrent].upload = None
          /\ torrents[r.torrent].files = IF r.at = "files" THEN 0 ELSE 1
    /\ r.at = "attach" => r.upload # None
    /\ r.at = "create_upload" => Has(r.torrent, r.hash)
    /\ r.at = "infohash" =>
          /\ Has(r.old, r.hash) /\ torrents[r.old].upload = r.upload
          /\ r.upload # None
          /\ r.other # r.hash
          /\ r.torrent # None => Has(r.torrent, r.other)
    /\ r.at = "file_name" =>
          /\ Has(r.torrent, r.hash)
          /\ disk[<<r.hash, r.name>>] = torrents[r.torrent].content
          /\ torrents[r.torrent].files = 1

(* Request r has yet to finish row t: its files are to be listed, or its   *)
(* name to be written after the file has got it.                           *)
Finishing(r, t) == r.at \in {"files", "file_name"} /\ r.torrent = t

(* The upload of a deleted torrent waits for the one that replaces it.     *)
Replacing(r, u) ==
    /\ r.at \in {"write", "insert", "files", "attach"}
    /\ r.upload = u /\ u # None

Provided(u) ==
    /\ \A s, t \in torrents_of(u) : s = t
    /\ \A w \in Workers : Replacing(req[w], u) =>
          /\ torrents_of(u) = {}
          /\ \A v \in Workers : Replacing(req[v], u) => v = w
    /\ \/ u \in stripped \cup refused
       \/ torrents_of(u) # {}
       \/ \E w \in Workers : Replacing(req[w], u)

Apart == \A v, w \in Workers : about(req[v]) \cap about(req[w]) # {} => v = w

RowsHold ==
    \A t \in DOMAIN torrents : Matches(t) \/ \E w \in Workers : Finishing(req[w], t)

Undisturbed == ~ overlap /\ failures = 0

Orderly ==
    Undisturbed =>
        /\ Apart
        /\ \A w \in Workers : InHand(req[w])
        /\ RowsHold
        /\ \A u \in uploads : Provided(u)

Inv == TypeOK /\ Accounted /\ Unique /\ Referring /\ Orderly
-----------------------------------------------------------------------------
(* Numbers.                                                                *)

(* A set of numbers has a least one.                                       *)
LEMMA Least ==
  ASSUME NEW S \in SUBSET Nat, S # {}
  PROVE  \E x \in S : \A y \in S : x <= y
<1>. DEFINE R == OpToRel(<, Nat)
<1>1. PICK x \in S : \A y \in S : ~ (<<y, x>> \in R)
  BY WFMin, NatLessThanWellFounded
<1>2. \A y \in S : ~ (y < x)
  BY <1>1 DEF OpToRel
<1>. QED  BY <1>2

(* A set of numbers with a bound has a greatest one, and Max finds it.     *)
LEMMA MaxOfBounded ==
  ASSUME NEW S \in SUBSET Nat, S # {}, NEW n \in Nat, \A x \in S : x <= n
  PROVE  /\ Max(S) \in S
         /\ \A y \in S : y <= Max(S)
<1>. DEFINE T == {n - x : x \in S}
<1>1. T \in SUBSET Nat /\ T # {}
  <2>1. \A x \in S : n - x \in Nat
    OBVIOUS
  <2>. QED  BY <2>1
<1>2. PICK m \in S : \A y \in S : n - m <= n - y
  <2>1. PICK t \in T : \A u \in T : t <= u
    BY <1>1, Least
  <2>2. PICK m \in S : t = n - m
    OBVIOUS
  <2>. QED  BY <2>1, <2>2
<1>3. \A y \in S : m >= y
  <2>. TAKE y \in S
  <2>1. y \in Nat /\ m \in Nat /\ n - m <= n - y
    BY <1>2
  <2>. QED  BY <2>1
<1>. QED  BY <1>3 DEF Max

(* The id of a new row is free, and next to one in use or the first.       *)
LEMMA NextId ==
  ASSUME NEW ids, ids \subseteq Ids
  PROVE  /\ next_id(ids) \notin ids
         /\ next_id(ids) \in Nat /\ next_id(ids) >= 1
         /\ next_id(ids) = 1 \/ \E m \in ids : next_id(ids) = m + 1
<1>1. CASE ids = {}
  BY <1>1 DEF next_id
<1>2. CASE ids # {}
  <2>1. ids \in SUBSET Nat /\ \A x \in ids : x <= MaxRequests + 2 /\ x >= 1
    BY TorrentsAssumption DEF Ids
  <2>2. Max(ids) \in ids /\ \A y \in ids : y <= Max(ids)
    <3>1. MaxRequests + 2 \in Nat
      BY TorrentsAssumption
    <3>. QED  BY <1>2, <2>1, <3>1, MaxOfBounded
  <2>3. next_id(ids) = Max(ids) + 1
    BY <1>2 DEF next_id
  <2>4. Max(ids) \in Nat /\ Max(ids) >= 1
    BY <2>1, <2>2
  <2>5. Max(ids) + 1 \notin ids
    <3>1. SUFFICES ASSUME Max(ids) + 1 \in ids PROVE FALSE
      OBVIOUS
    <3>2. Max(ids) + 1 <= Max(ids)
      BY <2>2, <3>1
    <3>. QED  BY <2>4, <3>2
  <2>6. Max(ids) + 1 \in Nat /\ Max(ids) + 1 >= 1
    BY <2>4
  <2>7. \E m \in ids : next_id(ids) = m + 1
    BY <2>2, <2>3
  <2>. QED  BY <2>3, <2>5, <2>6, <2>7
<1>. QED  BY <1>1, <1>2

(* One more request, which may yet insert.                                 *)
LEMMA WithinAsked ==
  ASSUME NEW C, NEW n \in Nat, NEW b \in Nat, NEW S \in SUBSET Nat, Within(C, n, b, S),
         NEW w, NEW D \in SUBSET (C \cup {w})
  PROVE  Within(D, n + 1, b, S)
<1>1. IsFiniteSet(C \cup {w}) /\ Cardinality(C \cup {w}) <= Cardinality(C) + 1
      /\ Cardinality(C) \in Nat
  <2>1. IsFiniteSet(C)
    BY DEF Within
  <2>2. Cardinality(C \cup {w}) = IF w \in C THEN Cardinality(C) ELSE Cardinality(C) + 1
    BY <2>1, FS_AddElement
  <2>3. IsFiniteSet(C \cup {w})
    BY <2>1, FS_AddElement
  <2>4. Cardinality(C) \in Nat
    BY <2>1, FS_CardinalityType
  <2>. QED  BY <2>2, <2>3, <2>4
<1>2. IsFiniteSet(D) /\ Cardinality(D) <= Cardinality(C \cup {w}) /\ Cardinality(D) \in Nat
  <2>1. IsFiniteSet(D) /\ Cardinality(D) <= Cardinality(C \cup {w})
    BY <1>1, FS_Subset
  <2>. QED  BY <2>1, FS_CardinalityType
<1>3. Cardinality(C \cup {w}) \in Nat
  BY <1>1, FS_CardinalityType
<1>4. Cardinality(D) <= Cardinality(C) + 1
  BY <1>1, <1>2, <1>3
<1>5. Cardinality(C) <= n /\ \A m \in S : m + Cardinality(C) <= n + b
  BY DEF Within
<1>6. Cardinality(D) <= n + 1
  BY <1>1, <1>2, <1>4, <1>5
<1>7. \A m \in S : m + Cardinality(D) <= n + 1 + b
  BY <1>1, <1>2, <1>4, <1>5
<1>. QED  BY <1>2, <1>6, <1>7 DEF Within

(* No row more, and no request that may insert more.                       *)
LEMMA WithinKept ==
  ASSUME NEW C, NEW n \in Nat, NEW b \in Nat, NEW S \in SUBSET Nat, Within(C, n, b, S),
         NEW D \in SUBSET C, NEW T \in SUBSET S
  PROVE  Within(D, n, b, T)
<1>1. IsFiniteSet(C) /\ IsFiniteSet(D) /\ Cardinality(D) <= Cardinality(C)
  BY FS_Subset DEF Within
<1>2. Cardinality(C) \in Nat /\ Cardinality(D) \in Nat
  BY <1>1, FS_CardinalityType
<1>. QED  BY <1>1, <1>2 DEF Within

(* One insert, by a request that will not insert again.                    *)
LEMMA WithinSpent ==
  ASSUME NEW C, NEW n \in Nat, NEW b \in Nat \ {0}, NEW S \in SUBSET Nat, Within(C, n, b, S),
         NEW w \in C, NEW D \in SUBSET (C \ {w}), NEW T \in SUBSET Nat,
         \A t \in T : t \in S \/ t <= 1 \/ \E s \in S : t <= s + 1
  PROVE  Within(D, n, b, T)
<1>1. IsFiniteSet(C)
  BY DEF Within
<1>2. IsFiniteSet(C \ {w}) /\ Cardinality(C \ {w}) = Cardinality(C) - 1
  <2>1. Cardinality(C \ {w}) = IF w \in C THEN Cardinality(C) - 1 ELSE Cardinality(C)
    BY <1>1, FS_RemoveElement
  <2>2. IsFiniteSet(C \ {w})
    BY <1>1, FS_RemoveElement
  <2>. QED  BY <2>1, <2>2
<1>3. IsFiniteSet(D) /\ Cardinality(D) <= Cardinality(C \ {w})
  BY <1>2, FS_Subset
<1>4. Cardinality(C) \in Nat /\ Cardinality(D) \in Nat
  BY <1>1, <1>3, FS_CardinalityType
<1>5. Cardinality(D) + 1 <= Cardinality(C)
  BY <1>2, <1>3, <1>4
<1>6. Cardinality(C) <= n /\ \A m \in S : m + Cardinality(C) <= n + b
  BY DEF Within
<1>7. Cardinality(D) <= n
  BY <1>4, <1>5, <1>6
<1>8. ASSUME NEW t \in T PROVE t + Cardinality(D) <= n + b
  <2>1. CASE t \in S
    BY <1>4, <1>5, <1>6, <2>1
  <2>2. CASE t <= 1
    BY <1>4, <1>5, <1>6, <2>2
  <2>3. ASSUME NEW s \in S, t <= s + 1 PROVE t + Cardinality(D) <= n + b
    BY <1>4, <1>5, <1>6, <2>3
  <2>. QED  BY <2>1, <2>2, <2>3
<1>. QED  BY <1>3, <1>7, <1>8 DEF Within
-----------------------------------------------------------------------------
(* Requests.                                                               *)

Requests == {Idle} \cup Uploading \cup Creating \cup Editing \cup Renaming

(* Where a request is tells of what kind it is.                            *)
LEMMA Kinds ==
  ASSUME NEW r \in Requests
  PROVE  /\ r.at \in {"delete", "write", "insert", "files", "attach"} <=> r \in Uploading
         /\ r.at = "create_upload" <=> r \in Creating
         /\ r.at = "infohash" <=> r \in Editing
         /\ r.at = "file_name" <=> r \in Renaming
         /\ r.at = "idle" <=> r = Idle
BY DEF Requests, Uploading, Creating, Editing, Renaming, Idle

(* Only the request of w is another one, r.                                *)
Becomes(w, r) ==
    /\ req' \in [Workers -> Requests]
    /\ req'[w] = r
    /\ \A v \in Workers \ {w} : req'[v] = req[v]

LEMMA BecomesBy ==
  ASSUME TypeOK, NEW w \in Workers, NEW r \in Requests, req' = [req EXCEPT ![w] = r]
  PROVE  Becomes(w, r)
BY DEF TypeOK, Becomes, Requests

LEMMA Finishes ==
  ASSUME TypeOK, NEW w \in Workers, Finish(w)
  PROVE  Becomes(w, Idle)
<1>1. Idle \in Requests
  BY DEF Requests
<1>. QED  BY <1>1, BecomesBy DEF Finish

(* An upload goes on to at, perhaps with another torrent in hand.          *)
LEMMA GoesOn ==
  ASSUME TypeOK, NEW w \in Workers, req[w] \in Uploading,
         NEW at \in {"delete", "write", "insert", "files", "attach"}, Goto(w, at)
  PROVE  /\ Becomes(w, [req[w] EXCEPT !.at = at])
         /\ [req[w] EXCEPT !.at = at] \in Uploading
<1>1. [req[w] EXCEPT !.at = at] \in Uploading
  BY DEF Uploading
<1>2. req' = [req EXCEPT ![w] = [req[w] EXCEPT !.at = at]]
  BY DEF Goto
<1>3. [req[w] EXCEPT !.at = at] \in Requests
  BY <1>1 DEF Requests
<1>. QED  BY <1>1, <1>2, <1>3, BecomesBy
-----------------------------------------------------------------------------
(* Types, counts and references.                                           *)

Data == TypeOK /\ Accounted /\ Unique /\ Referring

LEMMA ComingStep ==
  ASSUME NEW w \in Workers, NEW r, Becomes(w, r), NEW states
  PROVE  /\ Coming(states)' \subseteq Coming(states) \cup {w}
         /\ (r.at \in states => req[w].at \in states) =>
               Coming(states)' \subseteq Coming(states)
         /\ r.at \notin states => Coming(states)' \subseteq Coming(states) \ {w}
BY DEF Becomes, Coming

LEMMA Numbers ==
  ASSUME TypeOK
  PROVE  /\ requests \in Nat
         /\ DOMAIN torrents \in SUBSET Nat
         /\ uploads \in SUBSET Nat
         /\ FileCounts \in SUBSET Nat
<1>1. \A t \in DOMAIN torrents : torrents[t].files \in Nat
  BY TorrentsAssumption DEF TypeOK, Row
<1>. QED  BY <1>1, TorrentsAssumption DEF TypeOK, Ids, FileCounts

(* What a step changes that inserts nothing.                               *)
LEMMA KeepsData ==
  ASSUME Data, NEW w \in Workers, NEW r, Becomes(w, r),
         \/ requests' = requests + 1 /\ requests < MaxRequests
         \/ /\ requests' = requests
            /\ r.at \in NewTorrent => req[w].at \in NewTorrent
            /\ r.at \in NewFiles => req[w].at \in NewFiles
            /\ r.at \in NewUpload => req[w].at \in NewUpload,
         r \in Uploading \cup Editing => r.upload \in uploads \cup {None},
         DOMAIN torrents' \subseteq DOMAIN torrents,
         \A t \in DOMAIN torrents' :
            /\ torrents'[t] \in Row
            /\ torrents'[t].hash = torrents[t].hash
            /\ torrents'[t].files = torrents[t].files
            /\ torrents'[t].upload \in uploads \cup {None},
         uploads' = uploads,
         disk' \in [Paths -> Contents \cup {NoFile}],
         failures' \in 0 .. MaxFailures, overlap' \in BOOLEAN,
         stripped' \subseteq Ids, refused' \subseteq Ids
  PROVE  Data'
<1>1. TypeOK'
  <2>1. requests' \in 0 .. MaxRequests
    BY TorrentsAssumption DEF Data, TypeOK
  <2>2. req' \in [Workers -> {Idle} \cup Uploading \cup Creating \cup Editing \cup Renaming]
    BY DEF Becomes, Requests
  <2>. QED  BY <2>1, <2>2 DEF Data, TypeOK
<1>2. Accounted'
  <2>0. FileCounts' \subseteq FileCounts
    BY DEF FileCounts
  <2>1. ASSUME NEW states, NEW b \in Nat, NEW S \in SUBSET Nat, NEW T \in SUBSET S,
               r.at \in states => req[w].at \in states \/ requests' = requests + 1,
               Within(Coming(states), requests, b, S)
        PROVE  Within(Coming(states)', requests', b, T)
    <3>1. requests \in Nat
      BY Numbers DEF Data
    <3>2. CASE requests' = requests + 1
      <4>1. Coming(states)' \subseteq Coming(states) \cup {w}
        BY ComingStep
      <4>2. Within(Coming(states)', requests + 1, b, S)
        BY <2>1, <3>1, <4>1, WithinAsked
      <4>3. requests + 1 \in Nat /\ S \in SUBSET Nat
        BY <3>1
      <4>4. Within(Coming(states)', requests + 1, b, T)
        BY <2>1, <4>2, <4>3, WithinKept
      <4>. QED  BY <3>2, <4>4
    <3>3. CASE requests' = requests
      <4>0. requests' # requests + 1
        BY <3>1, <3>3
      <4>1. Coming(states)' \subseteq Coming(states)
        BY <2>1, <4>0, ComingStep
      <4>2. Within(Coming(states)', requests, b, T)
        BY <2>1, <3>1, <4>1, WithinKept
      <4>. QED  BY <3>3, <4>2
    <3>. QED  BY <3>2, <3>3
  <2>2. DOMAIN torrents \in SUBSET Nat /\ uploads \in SUBSET Nat /\ FileCounts \in SUBSET Nat
    BY Numbers DEF Data
  <2>3. Within(Coming(NewTorrent)', requests', 2, DOMAIN torrents')
    BY <2>1, <2>2 DEF Data, Accounted
  <2>4. Within(Coming(NewUpload)', requests', 2, uploads')
    BY <2>1, <2>2 DEF Data, Accounted
  <2>5. Within(Coming(NewFiles)', requests', 1, FileCounts')
    BY <2>0, <2>1, <2>2 DEF Data, Accounted
  <2>. QED  BY <2>3, <2>4, <2>5 DEF Accounted
<1>3. Unique'
  BY DEF Data, Unique
<1>4. Referring'
  BY DEF Data, Referring, Becomes
<1>. QED  BY <1>1, <1>2, <1>3, <1>4 DEF Data

LEMMA Begins ==
  ASSUME TypeOK, NEW w \in Workers, NEW r \in Requests, Begin(w, r)
  PROVE  /\ Becomes(w, r)
         /\ requests' = requests + 1 /\ requests < MaxRequests
         /\ failures' \in 0 .. MaxFailures /\ overlap' \in BOOLEAN
         /\ stripped' \subseteq Ids /\ refused' \subseteq Ids
<1>1. Becomes(w, r)
  BY BecomesBy DEF Begin
<1>2. overlap' \in BOOLEAN
  BY DEF TypeOK, Begin
<1>. QED  BY <1>1, <1>2 DEF TypeOK, Begin

LEMMA SetTorrent ==
  ASSUME TypeOK, NEW u \in Ids \cup {None}, NEW t, NEW had, set_torrent(u, t, had)
  PROVE  /\ DOMAIN torrents' = DOMAIN torrents
         /\ \A s \in DOMAIN torrents :
               /\ torrents'[s] \in Row
               /\ torrents'[s].hash = torrents[s].hash
               /\ torrents'[s].name = torrents[s].name
               /\ torrents'[s].content = torrents[s].content
               /\ torrents'[s].files = torrents[s].files
               /\ torrents'[s].upload = IF s = t THEN u
                                        ELSE IF s \in had THEN None ELSE torrents[s].upload
<1>1. DOMAIN torrents' = DOMAIN torrents
  BY DEF set_torrent
<1>2. ASSUME NEW s \in DOMAIN torrents
      PROVE  \E v \in Ids \cup {None} :
                /\ v = IF s = t THEN u ELSE IF s \in had THEN None ELSE torrents[s].upload
                /\ torrents'[s] = [torrents[s] EXCEPT !.upload = v]
  <2>1. torrents[s].upload \in Ids \cup {None}
    BY DEF TypeOK, Row
  <2>. QED  BY <2>1 DEF set_torrent
<1>3. \A s \in DOMAIN torrents, v \in Ids \cup {None} :
         /\ [torrents[s] EXCEPT !.upload = v] \in Row
         /\ [torrents[s] EXCEPT !.upload = v].hash = torrents[s].hash
         /\ [torrents[s] EXCEPT !.upload = v].name = torrents[s].name
         /\ [torrents[s] EXCEPT !.upload = v].content = torrents[s].content
         /\ [torrents[s] EXCEPT !.upload = v].files = torrents[s].files
         /\ [torrents[s] EXCEPT !.upload = v].upload = v
  BY DEF TypeOK, Row
<1>4. ASSUME NEW s \in DOMAIN torrents
      PROVE  /\ torrents'[s] \in Row
             /\ torrents'[s].hash = torrents[s].hash
             /\ torrents'[s].name = torrents[s].name
             /\ torrents'[s].content = torrents[s].content
             /\ torrents'[s].files = torrents[s].files
             /\ torrents'[s].upload = IF s = t THEN u
                                      ELSE IF s \in had THEN None ELSE torrents[s].upload
  <2>1. PICK v \in Ids \cup {None} :
           /\ v = IF s = t THEN u ELSE IF s \in had THEN None ELSE torrents[s].upload
           /\ torrents'[s] = [torrents[s] EXCEPT !.upload = v]
    BY <1>2
  <2>2. torrents'[s] = [torrents[s] EXCEPT !.upload = v]
    BY <2>1
  <2>3. /\ torrents'[s] \in Row
        /\ torrents'[s].hash = torrents[s].hash
        /\ torrents'[s].name = torrents[s].name
        /\ torrents'[s].content = torrents[s].content
        /\ torrents'[s].files = torrents[s].files
        /\ torrents'[s].upload = v
    BY <1>3, <2>2
  <2>. QED  BY <2>1, <2>3
<1>. QED  BY <1>1, <1>4

LEMMA Loses ==
  ASSUME TypeOK, NEW u \in Ids, NEW t \in DOMAIN torrents \cup {None}
  PROVE  loses(u, t) \subseteq Ids
<1>1. \A s \in DOMAIN torrents : torrents[s].upload \in Ids \cup {None}
  BY DEF TypeOK, Row
<1>. QED  BY <1>1 DEF loses

(* The first match has the infohash; without one there is none.            *)
LEMMA Found ==
  ASSUME TypeOK, NEW h
  PROVE  /\ get_torrent_from_infohash(h) = None <=> with_hash(h) = {}
         /\ get_torrent_from_infohash(h) # None => Has(get_torrent_from_infohash(h), h)
         /\ get_torrent_from_infohash(h) \in Ids \cup {None}
         /\ get_torrent_from_infohash(h) \in DOMAIN torrents \cup {None}
<1>1. DOMAIN torrents \subseteq Ids /\ None \notin Ids
  BY DEF TypeOK, Ids, None
<1>2. with_hash(h) \subseteq DOMAIN torrents
  BY DEF with_hash
<1>3. CASE with_hash(h) = {}
  BY <1>3 DEF get_torrent_from_infohash
<1>4. CASE with_hash(h) # {}
  <2>1. get_torrent_from_infohash(h) \in with_hash(h)
    BY <1>4 DEF get_torrent_from_infohash
  <2>. QED  BY <1>1, <1>2, <1>4, <2>1 DEF Has
<1>. QED  BY <1>3, <1>4
-----------------------------------------------------------------------------
LEMMA DataUploadTorrent ==
  ASSUME Data, NEW w \in Workers, upload_torrent(w)
  PROVE  Data'
<1>1. PICK h \in Hashes, n \in Names, c \in Contents :
        LET t == get_torrent_from_infohash(h) IN
        /\ Begin(w, [at |-> IF t = None THEN "write" ELSE "delete",
                     hash |-> h, name |-> n, content |-> c, torrent |-> t,
                     old |-> IF t = None THEN n ELSE torrents[t].name,
                     upload |-> IF t = None THEN None ELSE torrents[t].upload])
        /\ UNCHANGED <<torrents, uploads, disk>>
  BY DEF upload_torrent
<1>. DEFINE t == get_torrent_from_infohash(h)
            r == [at |-> IF t = None THEN "write" ELSE "delete",
                  hash |-> h, name |-> n, content |-> c, torrent |-> t,
                  old |-> IF t = None THEN n ELSE torrents[t].name,
                  upload |-> IF t = None THEN None ELSE torrents[t].upload]
<1>2. t \in Ids \cup {None} /\ t \in DOMAIN torrents \cup {None}
  BY Found DEF Data
<1>3. t # None => /\ torrents[t].name \in Names
                  /\ torrents[t].upload \in Ids \cup {None}
                  /\ torrents[t].upload \in uploads \cup {None}
  BY <1>2 DEF Data, TypeOK, Row, Referring
<1>4. r \in Uploading
  BY <1>2, <1>3 DEF Uploading
<1>5. r \in Requests /\ r.upload \in uploads \cup {None}
  BY <1>3, <1>4 DEF Requests
<1>. HIDE DEF t, r
<1>6. Begin(w, r) /\ UNCHANGED <<torrents, uploads, disk>>
  BY <1>1 DEF t, r
<1>7. /\ Becomes(w, r)
      /\ requests' = requests + 1 /\ requests < MaxRequests
      /\ failures' \in 0 .. MaxFailures /\ overlap' \in BOOLEAN
      /\ stripped' \subseteq Ids /\ refused' \subseteq Ids
  BY <1>5, <1>6, Begins DEF Data
<1>8. \A s \in DOMAIN torrents :
         torrents[s] \in Row /\ torrents[s].upload \in uploads \cup {None}
  BY DEF Data, TypeOK, Referring
<1>9. disk \in [Paths -> Contents \cup {NoFile}]
  BY DEF Data, TypeOK
<1>. QED  BY <1>5, <1>6, <1>7, <1>8, <1>9, KeepsData

LEMMA DataCreateUpload ==
  ASSUME Data, NEW w \in Workers, create_upload(w)
  PROVE  Data'
<1>1. PICK t \in DOMAIN torrents :
        /\ Begin(w, [at |-> "create_upload", hash |-> torrents[t].hash, torrent |-> t])
        /\ UNCHANGED <<torrents, uploads, disk>>
  BY DEF create_upload
<1>. DEFINE r == [at |-> "create_upload", hash |-> torrents[t].hash, torrent |-> t]
<1>2. torrents[t].hash \in Hashes /\ t \in Ids
  BY DEF Data, TypeOK, Row
<1>3. r \in Creating /\ r.at = "create_upload"
  BY <1>2 DEF Creating
<1>. HIDE DEF r
<1>4. r \in Requests /\ r \notin Uploading \cup Editing
  BY <1>3 DEF Requests, Uploading, Editing
<1>6. Begin(w, r) /\ UNCHANGED <<torrents, uploads, disk>>
  BY <1>1 DEF r
<1>7. /\ Becomes(w, r)
      /\ requests' = requests + 1 /\ requests < MaxRequests
      /\ failures' \in 0 .. MaxFailures /\ overlap' \in BOOLEAN
      /\ stripped' \subseteq Ids /\ refused' \subseteq Ids
  BY <1>4, <1>6, Begins DEF Data
<1>8. \A s \in DOMAIN torrents :
         torrents[s] \in Row /\ torrents[s].upload \in uploads \cup {None}
  BY DEF Data, TypeOK, Referring
<1>9. disk \in [Paths -> Contents \cup {NoFile}]
  BY DEF Data, TypeOK
<1>. QED  BY <1>4, <1>6, <1>7, <1>8, <1>9, KeepsData

LEMMA DataEditInfohash ==
  ASSUME Data, NEW w \in Workers, edit_infohash(w)
  PROVE  Data'
<1>1. PICK t \in DOMAIN torrents, h \in Hashes :
        /\ torrents[t].upload # None
        /\ Begin(w, [at |-> "infohash", hash |-> torrents[t].hash, other |-> h,
                     upload |-> torrents[t].upload, old |-> t,
                     torrent |-> get_torrent_from_infohash(h)])
        /\ UNCHANGED <<torrents, uploads, disk>>
  BY DEF edit_infohash
<1>. DEFINE r == [at |-> "infohash", hash |-> torrents[t].hash, other |-> h,
                  upload |-> torrents[t].upload, old |-> t,
                  torrent |-> get_torrent_from_infohash(h)]
<1>2. /\ torrents[t].hash \in Hashes /\ t \in Ids /\ torrents[t].upload \in Ids
      /\ torrents[t].upload \in uploads
  BY <1>1 DEF Data, TypeOK, Row, Referring
<1>3. r \in Editing /\ r.upload \in uploads
  <2>1. get_torrent_from_infohash(h) \in Ids \cup {None}
    BY Found DEF Data
  <2>. QED  BY <1>2, <2>1 DEF Editing
<1>. HIDE DEF r
<1>4. r \in Requests
  BY <1>3 DEF Requests
<1>6. Begin(w, r) /\ UNCHANGED <<torrents, uploads, disk>>
  BY <1>1 DEF r
<1>7. /\ Becomes(w, r)
      /\ requests' = requests + 1 /\ requests < MaxRequests
      /\ failures' \in 0 .. MaxFailures /\ overlap' \in BOOLEAN
      /\ stripped' \subseteq Ids /\ refused' \subseteq Ids
  BY <1>4, <1>6, Begins DEF Data
<1>8. \A s \in DOMAIN torrents :
         torrents[s] \in Row /\ torrents[s].upload \in uploads \cup {None}
  BY DEF Data, TypeOK, Referring
<1>9. disk \in [Paths -> Contents \cup {NoFile}]
  BY DEF Data, TypeOK
<1>. QED  BY <1>3, <1>6, <1>7, <1>8, <1>9, KeepsData

(* Moving a file.                                                          *)
LEMMA Moved ==
  ASSUME TypeOK, NEW h \in Hashes, NEW old \in Names, NEW new \in Names
  PROVE  /\ renamed(h, old, new) \in [Paths -> Contents \cup {NoFile}]
         /\ \A p \in Paths : p[1] # h => renamed(h, old, new)[p] = disk[p]
         /\ disk[<<h, old>>] # NoFile => renamed(h, old, new)[<<h, new>>] = disk[<<h, old>>]
<1>1. disk \in [Paths -> Contents \cup {NoFile}]
  BY DEF TypeOK
<1>2. <<h, old>> \in Paths /\ <<h, new>> \in Paths
  BY DEF Paths
<1>3. CASE disk[<<h, old>>] = NoFile
  BY <1>1, <1>3 DEF renamed
<1>4. CASE disk[<<h, old>>] # NoFile
  <2>. DEFINE c == disk[<<h, old>>]
              once == [disk EXCEPT ![<<h, old>>] = NoFile]
  <2>1. renamed(h, old, new) = [once EXCEPT ![<<h, new>>] = c]
    BY <1>4 DEF renamed
  <2>2. once \in [Paths -> Contents \cup {NoFile}]
    BY <1>1
  <2>3. c \in Contents \cup {NoFile}
    BY <1>1, <1>2
  <2>4. \A p \in Paths : p[1] # h => p # <<h, old>> /\ p # <<h, new>>
    OBVIOUS
  <2>5. \A p \in Paths : p[1] # h => once[p] = disk[p]
    BY <1>1, <2>4
  <2>6. renamed(h, old, new)[<<h, new>>] = c
    <3>. HIDE DEF c, once
    <3>. QED  BY <1>2, <2>1, <2>2
  <2>7. \A p \in Paths : p[1] # h => renamed(h, old, new)[p] = once[p]
    <3>. HIDE DEF c, once
    <3>. QED  BY <2>1, <2>2, <2>4
  <2>8. renamed(h, old, new) \in [Paths -> Contents \cup {NoFile}]
    <3>. HIDE DEF c, once
    <3>. QED  BY <1>2, <2>1, <2>2, <2>3
  <2>. QED  BY <2>5, <2>6, <2>7, <2>8
<1>. QED  BY <1>3, <1>4

LEMMA DataEditFileName ==
  ASSUME Data, NEW w \in Workers, edit_file_name(w)
  PROVE  Data'
<1>1. PICK t \in DOMAIN torrents, n \in Names :
        /\ Begin(w, [at |-> "file_name", hash |-> torrents[t].hash, torrent |-> t,
                     name |-> n])
        /\ disk' = renamed(torrents[t].hash, torrents[t].name, n)
        /\ UNCHANGED <<torrents, uploads>>
  BY DEF edit_file_name
<1>. DEFINE r == [at |-> "file_name", hash |-> torrents[t].hash, torrent |-> t,
                  name |-> n]
<1>2. torrents[t].hash \in Hashes /\ t \in Ids /\ torrents[t].name \in Names
  BY DEF Data, TypeOK, Row
<1>3. r \in Renaming /\ r.at = "file_name"
  BY <1>2 DEF Renaming
<1>. HIDE DEF r
<1>4. r \in Requests /\ r \notin Uploading \cup Editing
  BY <1>3 DEF Requests, Uploading, Editing
<1>6. Begin(w, r) /\ UNCHANGED <<torrents, uploads>>
  BY <1>1 DEF r
<1>7. /\ Becomes(w, r)
      /\ requests' = requests + 1 /\ requests < MaxRequests
      /\ failures' \in 0 .. MaxFailures /\ overlap' \in BOOLEAN
      /\ stripped' \subseteq Ids /\ refused' \subseteq Ids
  BY <1>4, <1>6, Begins DEF Data
<1>8. \A s \in DOMAIN torrents :
         torrents[s] \in Row /\ torrents[s].upload \in uploads \cup {None}
  BY DEF Data, TypeOK, Referring
<1>9. disk' \in [Paths -> Contents \cup {NoFile}]
  BY <1>1, <1>2, Moved DEF Data
<1>. QED  BY <1>4, <1>6, <1>7, <1>8, <1>9, KeepsData

(* What a step leaves alone that is neither a request's first nor an end   *)
(* forced upon it.                                                         *)
LEMMA CountsKept ==
  ASSUME TypeOK, UNCHANGED counts
  PROVE  /\ requests' = requests
         /\ failures' \in 0 .. MaxFailures /\ overlap' \in BOOLEAN
BY DEF TypeOK, counts

LEMMA RowsKept ==
  ASSUME Data
  PROVE  /\ \A s \in DOMAIN torrents :
               torrents[s] \in Row /\ torrents[s].upload \in uploads \cup {None}
         /\ disk \in [Paths -> Contents \cup {NoFile}]
         /\ stripped \subseteq Ids /\ refused \subseteq Ids
         /\ Idle \notin Uploading \cup Editing
         /\ Idle.at = "idle"
BY DEF Data, TypeOK, Referring, Uploading, Editing, Idle

(* An upload that moves on keeps what it has.                              *)
LEMMA InUploading ==
  ASSUME Data, NEW w \in Workers,
         req[w].at \in {"delete", "write", "insert", "files", "attach"}
  PROVE  /\ req[w] \in Uploading /\ req[w] \in Requests
         /\ req[w].hash \in Hashes /\ req[w].name \in Names /\ req[w].content \in Contents
         /\ req[w].old \in Names
         /\ req[w].torrent \in Ids \cup {None}
         /\ req[w].upload \in uploads \cup {None} /\ req[w].upload \in Ids \cup {None}
<1>1. req[w] \in Requests
  BY DEF Data, TypeOK, Requests
<1>2. req[w] \in Uploading
  BY <1>1, Kinds
<1>. QED  BY <1>1, <1>2 DEF Data, Referring, Uploading

LEMMA DataDeleteExisting ==
  ASSUME Data, NEW w \in Workers, delete_existing(w)
  PROVE  Data'
<1>1. req[w].at = "delete"
  BY DEF delete_existing
<1>2. /\ req[w] \in Uploading
      /\ req[w].hash \in Hashes /\ req[w].old \in Names
      /\ req[w].upload \in uploads \cup {None} /\ req[w].upload \in Ids \cup {None}
  BY <1>1, InUploading
<1>3. /\ DOMAIN torrents' \subseteq DOMAIN torrents
      /\ \A s \in DOMAIN torrents' : torrents'[s] = torrents[s]
  BY DEF delete_existing, Restrict
<1>4. /\ requests' = requests /\ failures' \in 0 .. MaxFailures /\ overlap' \in BOOLEAN
      /\ uploads' = uploads /\ stripped' = stripped
  BY CountsKept DEF delete_existing, Data
<1>5. disk' \in [Paths -> Contents \cup {NoFile}]
  BY <1>2, RowsKept DEF delete_existing, unlink
<1>6. refused' \subseteq Ids
  BY <1>2, RowsKept DEF delete_existing
<1>7. CASE has_tracker(req[w].content)
  <2>. DEFINE r == [req[w] EXCEPT !.at = "write"]
  <2>1. Becomes(w, r) /\ r \in Uploading
    BY <1>2, <1>7, GoesOn DEF delete_existing, Data
  <2>2. r.at = "write" /\ r.upload = req[w].upload
    BY <1>2 DEF Uploading
  <2>. HIDE DEF r
  <2>3. r.at \in NewTorrent \cap NewFiles /\ r.at \notin NewUpload
        /\ req[w].at \in NewTorrent \cap NewFiles
    BY <1>1, <2>2 DEF NewTorrent, NewFiles, NewUpload
  <2>. QED  BY <1>2, <1>3, <1>4, <1>5, <1>6, <2>1, <2>2, <2>3, RowsKept, KeepsData
<1>8. CASE ~ has_tracker(req[w].content)
  <2>1. Becomes(w, Idle)
    BY <1>8, Finishes DEF delete_existing, Data
  <2>2. Idle.at \notin NewTorrent /\ Idle.at \notin NewFiles /\ Idle.at \notin NewUpload
    BY RowsKept DEF NewTorrent, NewFiles, NewUpload
  <2>. QED  BY <1>3, <1>4, <1>5, <1>6, <2>1, <2>2, RowsKept, KeepsData
<1>. QED  BY <1>7, <1>8

(* A request that ends without a row more.                                 *)
LEMMA Ends ==
  ASSUME Data, NEW w \in Workers, Finish(w),
         requests' = requests,
         DOMAIN torrents' \subseteq DOMAIN torrents,
         \A t \in DOMAIN torrents' :
            /\ torrents'[t] \in Row
            /\ torrents'[t].hash = torrents[t].hash
            /\ torrents'[t].files = torrents[t].files
            /\ torrents'[t].upload \in uploads \cup {None},
         uploads' = uploads,
         disk' \in [Paths -> Contents \cup {NoFile}],
         failures' \in 0 .. MaxFailures, overlap' \in BOOLEAN,
         stripped' \subseteq Ids, refused' \subseteq Ids
  PROVE  Data'
<1>1. Becomes(w, Idle)
  BY Finishes DEF Data
<1>2. Idle.at \notin NewTorrent /\ Idle.at \notin NewFiles /\ Idle.at \notin NewUpload
  BY RowsKept DEF NewTorrent, NewFiles, NewUpload
<1>. QED  BY <1>1, <1>2, RowsKept, KeepsData

LEMMA OneFailure ==
  ASSUME TypeOK, failures < MaxFailures, failures' = failures + 1
  PROVE  failures' \in 0 .. MaxFailures /\ failures' # 0
BY TorrentsAssumption DEF TypeOK

LEMMA DataDeleteFails ==
  ASSUME Data, NEW w \in Workers, delete_fails(w)
  PROVE  Data'
<1>1. req[w].hash \in Hashes /\ req[w].old \in Names
  BY InUploading DEF delete_fails
<1>2. disk' \in [Paths -> Contents \cup {NoFile}]
  BY <1>1, RowsKept DEF delete_fails, unlink
<1>3. failures' \in 0 .. MaxFailures
  BY OneFailure DEF delete_fails, Data
<1>4. overlap' \in BOOLEAN
  BY DEF delete_fails, Data, TypeOK
<1>. QED  BY <1>2, <1>3, <1>4, RowsKept, Ends DEF delete_fails

LEMMA DataAbort ==
  ASSUME Data, NEW w \in Workers, Abort(w)
  PROVE  Data'
<1>1. failures' \in 0 .. MaxFailures
  BY OneFailure DEF Abort, Data
<1>2. overlap' \in BOOLEAN
  BY DEF Abort, Data, TypeOK
<1>. QED  BY <1>1, <1>2, RowsKept, Ends DEF Abort

LEMMA DataWriteFile ==
  ASSUME Data, NEW w \in Workers, write_file(w)
  PROVE  Data'
<1>1. req[w].at = "write"
  BY DEF write_file
<1>2. /\ req[w] \in Uploading
      /\ req[w].hash \in Hashes /\ req[w].name \in Names /\ req[w].content \in Contents
      /\ req[w].upload \in uploads \cup {None}
  BY <1>1, InUploading
<1>. DEFINE r == [req[w] EXCEPT !.at = "insert"]
<1>3. Becomes(w, r) /\ r \in Uploading
  BY <1>2, GoesOn DEF write_file, Data
<1>4. r.at = "insert" /\ r.upload = req[w].upload
  BY <1>2 DEF Uploading
<1>. HIDE DEF r
<1>5. r.at \in NewTorrent \cap NewFiles /\ r.at \notin NewUpload
      /\ req[w].at \in NewTorrent \cap NewFiles
  BY <1>1, <1>4 DEF NewTorrent, NewFiles, NewUpload
<1>6. disk' \in [Paths -> Contents \cup {NoFile}]
  BY <1>2, RowsKept DEF write_file
<1>7. /\ requests' = requests /\ failures' \in 0 .. MaxFailures /\ overlap' \in BOOLEAN
      /\ uploads' = uploads /\ stripped' = stripped /\ refused' = refused
      /\ torrents' = torrents
  BY CountsKept DEF write_file, Data
<1>. QED  BY <1>2, <1>3, <1>4, <1>5, <1>6, <1>7, RowsKept, KeepsData

LEMMA DataAttach ==
  ASSUME Data, NEW w \in Workers, attach(w)
  PROVE  Data'
<1>. DEFINE u == req[w].upload
            t == req[w].torrent
<1>1. u \in uploads \cup {None} /\ u \in Ids \cup {None}
  BY InUploading DEF attach
<1>2. /\ requests' = requests /\ failures' \in 0 .. MaxFailures /\ overlap' \in BOOLEAN
      /\ uploads' = uploads /\ stripped' = stripped /\ refused' = refused /\ disk' = disk
      /\ Finish(w)
  BY CountsKept DEF attach, Data
<1>3. CASE t \in DOMAIN torrents
  <2>1. set_torrent(u, t, torrents_of(u))
    BY <1>3 DEF attach
  <2>. HIDE DEF u, t
  <2>2. /\ DOMAIN torrents' = DOMAIN torrents
        /\ \A s \in DOMAIN torrents :
              /\ torrents'[s] \in Row
              /\ torrents'[s].hash = torrents[s].hash
              /\ torrents'[s].files = torrents[s].files
              /\ torrents'[s].upload = IF s = t THEN u
                     ELSE IF s \in torrents_of(u) THEN None ELSE torrents[s].upload
    BY <1>1, <2>1, SetTorrent DEF Data
  <2>3. \A s \in DOMAIN torrents : torrents'[s].upload \in uploads \cup {None}
    BY <1>1, <2>2, RowsKept
  <2>. QED  BY <1>2, <2>2, <2>3, RowsKept, Ends
<1>4. CASE t \notin DOMAIN torrents
  <2>1. torrents' = torrents
    BY <1>4 DEF attach
  <2>. QED  BY <1>2, <2>1, RowsKept, Ends
<1>. QED  BY <1>3, <1>4

LEMMA DataCommitInfohash ==
  ASSUME Data, NEW w \in Workers, commit_infohash(w)
  PROVE  Data'
<1>. DEFINE u == req[w].upload
            t == req[w].torrent
<1>0. req[w] \in Editing
  <2>1. req[w] \in Requests /\ req[w].at = "infohash"
    BY DEF Data, TypeOK, Requests, commit_infohash
  <2>. QED  BY <2>1, Kinds
<1>1. u \in uploads /\ u \in Ids
  <2>1. u \in Ids
    BY <1>0 DEF Editing
  <2>2. None \notin Ids
    BY DEF None, Ids
  <2>. QED  BY <1>0, <2>1, <2>2 DEF Data, Referring
<1>2. /\ requests' = requests /\ failures' \in 0 .. MaxFailures /\ overlap' \in BOOLEAN
      /\ uploads' = uploads /\ refused' = refused /\ disk' = disk
      /\ Finish(w)
  BY CountsKept DEF commit_infohash, Data
<1>3. CASE t \in DOMAIN torrents \cup {None}
  <2>1. set_torrent(u, t, {req[w].old}) /\ stripped' = stripped \cup loses(u, t)
    BY <1>3 DEF commit_infohash
  <2>. HIDE DEF u, t
  <2>2. /\ DOMAIN torrents' = DOMAIN torrents
        /\ \A s \in DOMAIN torrents :
              /\ torrents'[s] \in Row
              /\ torrents'[s].hash = torrents[s].hash
              /\ torrents'[s].files = torrents[s].files
              /\ torrents'[s].upload = IF s = t THEN u
                     ELSE IF s \in {req[w].old} THEN None ELSE torrents[s].upload
    BY <1>1, <2>1, SetTorrent DEF Data
  <2>3. \A s \in DOMAIN torrents : torrents'[s].upload \in uploads \cup {None}
    BY <1>1, <2>2, RowsKept
  <2>4. stripped' \subseteq Ids
    BY <1>1, <1>3, <2>1, Loses, RowsKept DEF Data
  <2>. QED  BY <1>2, <2>2, <2>3, <2>4, RowsKept, Ends
<1>4. CASE t \notin DOMAIN torrents \cup {None}
  <2>1. torrents' = torrents /\ stripped' = stripped
    BY <1>4 DEF commit_infohash
  <2>. QED  BY <1>2, <2>1, RowsKept, Ends
<1>. QED  BY <1>3, <1>4

LEMMA DataCommitFileName ==
  ASSUME Data, NEW w \in Workers, commit_file_name(w)
  PROVE  Data'
<1>. DEFINE t == req[w].torrent
<1>1. req[w].name \in Names
  <2>1. req[w] \in Requests /\ req[w].at = "file_name"
    BY DEF Data, TypeOK, Requests, commit_file_name
  <2>2. req[w] \in Renaming
    BY <2>1, Kinds
  <2>. QED  BY <2>2 DEF Renaming
<1>2. /\ requests' = requests /\ failures' \in 0 .. MaxFailures /\ overlap' \in BOOLEAN
      /\ uploads' = uploads /\ stripped' = stripped /\ refused' = refused /\ disk' = disk
      /\ Finish(w)
  BY CountsKept DEF commit_file_name, Data
<1>3. CASE t \in DOMAIN torrents
  <2>1. torrents' = [torrents EXCEPT ![t].name = req[w].name]
    BY <1>3 DEF commit_file_name
  <2>2. ASSUME NEW s \in DOMAIN torrents
        PROVE  /\ torrents'[s] \in Row
               /\ torrents'[s].hash = torrents[s].hash
               /\ torrents'[s].files = torrents[s].files
               /\ torrents'[s].upload = torrents[s].upload
    <3>1. torrents[s] \in Row
      BY RowsKept
    <3>2. CASE s = t
      <4>1. torrents'[s] = [torrents[s] EXCEPT !.name = req[w].name]
        BY <2>1, <3>2
      <4>. QED  BY <1>1, <3>1, <4>1 DEF Row
    <3>3. CASE s # t
      <4>1. torrents'[s] = torrents[s]
        BY <2>1, <3>3
      <4>. QED  BY <3>1, <4>1
    <3>. QED  BY <3>2, <3>3
  <2>3. DOMAIN torrents' = DOMAIN torrents
    BY <2>1
  <2>. HIDE DEF t
  <2>. QED  BY <1>2, <2>2, <2>3, RowsKept, Ends
<1>4. CASE t \notin DOMAIN torrents
  <2>1. torrents' = torrents
    BY <1>4 DEF commit_file_name
  <2>. QED  BY <1>2, <2>1, RowsKept, Ends
<1>. QED  BY <1>3, <1>4

LEMMA WithinBounds ==
  ASSUME NEW C, NEW n \in Nat, NEW b \in Nat, NEW S \in SUBSET Nat, Within(C, n, b, S),
         NEW s \in S
  PROVE  s <= n + b
<1>1. Cardinality(C) \in Nat
  BY FS_CardinalityType DEF Within
<1>2. s + Cardinality(C) <= n + b
  BY DEF Within
<1>. QED  BY <1>1, <1>2

LEMMA NewRow ==
  ASSUME Data, NEW w \in Workers, create_torrent(w), with_hash(req[w].hash) = {},
         NEW t, t = next_id(DOMAIN torrents)
  PROVE  /\ t \notin DOMAIN torrents /\ t \in Ids
         /\ DOMAIN torrents' = DOMAIN torrents \cup {t}
         /\ torrents'[t] = new_row(w) /\ new_row(w) \in Row
         /\ \A s \in DOMAIN torrents : torrents'[s] = torrents[s]
         /\ Becomes(w, [req[w] EXCEPT !.at = "files", !.torrent = t])
         /\ [req[w] EXCEPT !.at = "files", !.torrent = t] \in Uploading
         /\ Accounted'
<1>. DEFINE r == [req[w] EXCEPT !.at = "files", !.torrent = t]
<1>1. /\ req[w].at = "insert"
      /\ torrents' = [s \in DOMAIN torrents \cup {t} |->
                         IF s = t THEN new_row(w) ELSE torrents[s]]
      /\ req' = [req EXCEPT ![w].at = "files", ![w].torrent = t]
      /\ UNCHANGED <<uploads, disk, stripped, refused, counts>>
  BY DEF create_torrent
<1>2. /\ t \notin DOMAIN torrents /\ t \in Nat /\ t >= 1
      /\ t = 1 \/ \E m \in DOMAIN torrents : t = m + 1
  BY NextId DEF Data, TypeOK
<1>3. DOMAIN torrents' = DOMAIN torrents \cup {t} /\ torrents'[t] = new_row(w)
  BY <1>1
<1>4. \A s \in DOMAIN torrents : torrents'[s] = torrents[s]
  BY <1>1, <1>2
<1>5. /\ req[w] \in Uploading
      /\ req[w].hash \in Hashes /\ req[w].name \in Names /\ req[w].content \in Contents
  BY <1>1, InUploading
<1>6. new_row(w) \in Row /\ new_row(w).files = 0
  BY <1>5, TorrentsAssumption DEF new_row, Row
<1>7. Becomes(w, r) \/ t \notin Ids
  <2>1. SUFFICES ASSUME t \in Ids PROVE Becomes(w, r)
    OBVIOUS
  <2>2. r \in Requests
    BY <1>5, <2>1 DEF Uploading, Requests
  <2>3. req' = [req EXCEPT ![w] = r]
    BY <1>1
  <2>. HIDE DEF r
  <2>. QED  BY <2>2, <2>3, BecomesBy DEF Data
<1>8. w \in Coming(NewTorrent) /\ w \in Coming(NewFiles) /\ w \notin Coming(NewUpload)
  BY <1>1 DEF Coming, NewTorrent, NewFiles, NewUpload
<1>9. req'[w].at = "files" /\ \A v \in Workers \ {w} : req'[v] = req[v]
  BY <1>1, <1>5 DEF Data, TypeOK, Uploading
<1>10. /\ Coming(NewTorrent)' \subseteq Coming(NewTorrent) \ {w}
       /\ Coming(NewFiles)' \subseteq Coming(NewFiles)
       /\ Coming(NewUpload)' \subseteq Coming(NewUpload)
  BY <1>1, <1>9 DEF Coming, NewTorrent, NewFiles, NewUpload
<1>11. requests' = requests /\ uploads' = uploads
  BY <1>1 DEF counts
<1>12. requests \in Nat /\ DOMAIN torrents \in SUBSET Nat /\ uploads \in SUBSET Nat
       /\ FileCounts \in SUBSET Nat
  BY Numbers DEF Data
<1>13. DOMAIN torrents' \in SUBSET Nat
  BY <1>2, <1>3, <1>12
<1>14. Within(Coming(NewTorrent)', requests, 2, DOMAIN torrents')
  BY <1>2, <1>3, <1>8, <1>10, <1>12, <1>13, WithinSpent DEF Data, Accounted
<1>15. Within(Coming(NewUpload)', requests, 2, uploads)
  BY <1>10, <1>12, WithinKept DEF Data, Accounted
<1>16. Within(Coming(NewFiles)', requests, 1, FileCounts')
  <2>1. Within(Coming(NewFiles)', requests, 1, FileCounts)
    BY <1>10, <1>12, WithinKept DEF Data, Accounted
  <2>2. \A n \in FileCounts' : n \in FileCounts \/ n = 0
    BY <1>3, <1>4, <1>6 DEF FileCounts
  <2>3. Cardinality(Coming(NewFiles)') <= requests /\ Cardinality(Coming(NewFiles)') \in Nat
    <3>1. IsFiniteSet(Coming(NewFiles)') /\ Cardinality(Coming(NewFiles)') <= requests
      BY <2>1 DEF Within
    <3>. QED  BY <3>1, FS_CardinalityType
  <2>4. 0 + Cardinality(Coming(NewFiles)') <= requests + 1
    BY <1>12, <2>3
  <2>. QED  BY <2>1, <2>2, <2>4 DEF Within
<1>17. Accounted'
  BY <1>11, <1>14, <1>15, <1>16 DEF Accounted
<1>18. t \in Ids
  <2>1. t \in DOMAIN torrents'
    BY <1>3
  <2>2. t <= requests + 2
    BY <1>12, <1>13, <1>14, <2>1, WithinBounds
  <2>3. requests <= MaxRequests
    BY DEF Data, TypeOK
  <2>. QED  BY <1>2, <1>12, <2>2, <2>3, TorrentsAssumption DEF Ids
<1>19. r \in Uploading
  BY <1>5, <1>18 DEF Uploading
<1>. QED  BY <1>2, <1>3, <1>4, <1>6, <1>7, <1>17, <1>18, <1>19

LEMMA DataCreateTorrent ==
  ASSUME Data, NEW w \in Workers, create_torrent(w)
  PROVE  Data'
<1>1. /\ req[w].at = "insert"
      /\ uploads' = uploads /\ disk' = disk /\ stripped' = stripped /\ refused' = refused
      /\ requests' = requests /\ failures' \in 0 .. MaxFailures /\ overlap' \in BOOLEAN
  BY CountsKept DEF create_torrent, Data
<1>2. req[w] \in Uploading /\ req[w].upload \in uploads \cup {None}
  BY <1>1, InUploading
<1>3. CASE with_hash(req[w].hash) # {}
  <2>1. Finish(w) /\ torrents' = torrents
    BY <1>3 DEF create_torrent
  <2>. QED  BY <1>1, <2>1, RowsKept, Ends
<1>4. CASE with_hash(req[w].hash) = {}
  <2>. DEFINE t == next_id(DOMAIN torrents)
              r == [req[w] EXCEPT !.at = "files", !.torrent = t]
  <2>1. /\ t \notin DOMAIN torrents /\ t \in Ids
        /\ DOMAIN torrents' = DOMAIN torrents \cup {t}
        /\ torrents'[t] = new_row(w) /\ new_row(w) \in Row
        /\ \A s \in DOMAIN torrents : torrents'[s] = torrents[s]
        /\ Becomes(w, r) /\ r \in Uploading
        /\ Accounted'
    BY <1>4, NewRow
  <2>2. r.upload = req[w].upload
    BY <1>2 DEF Uploading
  <2>. HIDE DEF t, r
  <2>3. new_row(w).hash = req[w].hash /\ new_row(w).upload = None
    BY DEF new_row
  <2>4. TypeOK'
    <3>1. req' \in [Workers -> {Idle} \cup Uploading \cup Creating \cup Editing \cup Renaming]
      BY <2>1 DEF Becomes, Requests
    <3>. QED  BY <1>1, <2>1, <3>1 DEF Data, TypeOK
  <2>5. Unique'
    BY <1>4, <2>1, <2>3 DEF Data, Unique, with_hash
  <2>6. Referring'
    BY <1>1, <1>2, <2>1, <2>2, <2>3 DEF Data, Referring, Becomes
  <2>. QED  BY <2>1, <2>4, <2>5, <2>6 DEF Data
<1>. QED  BY <1>3, <1>4

LEMMA DataBulkInsertFiles ==
  ASSUME Data, NEW w \in Workers, bulk_insert_files(w)
  PROVE  Data'
<1>. DEFINE t == req[w].torrent
<1>1. /\ req[w].at = "files"
      /\ uploads' = uploads /\ disk' = disk /\ stripped' = stripped /\ refused' = refused
      /\ requests' = requests /\ failures' \in 0 .. MaxFailures /\ overlap' \in BOOLEAN
  BY CountsKept DEF bulk_insert_files, Data
<1>2. req[w] \in Uploading /\ req[w].upload \in uploads \cup {None}
  BY <1>1, InUploading
<1>3. CASE t \notin DOMAIN torrents
  <2>1. Finish(w) /\ torrents' = torrents
    BY <1>3 DEF bulk_insert_files
  <2>. QED  BY <1>1, <2>1, RowsKept, Ends
<1>4. CASE t \in DOMAIN torrents
  <2>1. torrents' = [torrents EXCEPT ![t].files = @ + 1]
    BY <1>4 DEF bulk_insert_files
  <2>2. PICK r : /\ Becomes(w, r)
                 /\ r \in Uploading \cup Editing => r.upload \in uploads \cup {None}
                 /\ r.at \in {"attach", "idle"}
    <3>1. CASE req[w].upload # None
      <4>1. Goto(w, "attach")
        BY <1>4, <3>1 DEF bulk_insert_files
      <4>2. Becomes(w, [req[w] EXCEPT !.at = "attach"])
        BY <1>2, <4>1, GoesOn DEF Data
      <4>. QED  BY <1>2, <4>2 DEF Uploading
    <3>2. CASE req[w].upload = None
      <4>1. Finish(w)
        BY <1>4, <3>2 DEF bulk_insert_files
      <4>. QED  BY <4>1, Finishes, RowsKept DEF Data
    <3>. QED  BY <3>1, <3>2
  <2>3. torrents[t] \in Row /\ torrents[t].files \in Nat
    BY <1>4, TorrentsAssumption DEF Data, TypeOK, Row
  <2>4. /\ DOMAIN torrents' = DOMAIN torrents
        /\ torrents'[t] = [torrents[t] EXCEPT !.files = @ + 1]
        /\ \A s \in DOMAIN torrents : s # t => torrents'[s] = torrents[s]
    BY <1>4, <2>1
  <2>. HIDE DEF t
  <2>5. /\ torrents'[t].files = torrents[t].files + 1
        /\ torrents'[t].hash = torrents[t].hash
        /\ torrents'[t].upload = torrents[t].upload
    BY <2>3, <2>4 DEF Row
  <2>6. w \in Coming(NewFiles)
    BY <1>1 DEF Coming, NewFiles
  <2>7. /\ Coming(NewTorrent)' \subseteq Coming(NewTorrent)
        /\ Coming(NewFiles)' \subseteq Coming(NewFiles) \ {w}
        /\ Coming(NewUpload)' \subseteq Coming(NewUpload)
    BY <2>2 DEF Becomes, Coming, NewTorrent, NewFiles, NewUpload
  <2>8. requests \in Nat /\ DOMAIN torrents \in SUBSET Nat /\ uploads \in SUBSET Nat
        /\ FileCounts \in SUBSET Nat
    BY Numbers DEF Data
  <2>9. \A n \in FileCounts' : n \in FileCounts \/ \E m \in FileCounts : n = m + 1
    BY <1>4, <2>4, <2>5 DEF FileCounts
  <2>10. FileCounts' \in SUBSET Nat
    <3>1. ASSUME NEW n \in FileCounts' PROVE n \in Nat
      <4>1. n \in FileCounts \/ \E m \in FileCounts : n = m + 1
        BY <2>9
      <4>2. ASSUME NEW m \in FileCounts, n = m + 1 PROVE n \in Nat
        BY <2>8, <4>2
      <4>. QED  BY <2>8, <4>1, <4>2
    <3>. QED  BY <3>1
  <2>11. \A n \in FileCounts' : n \in FileCounts \/ n <= 1 \/ \E m \in FileCounts : n <= m + 1
    BY <2>8, <2>9, <2>10
  <2>12. Within(Coming(NewFiles)', requests, 1, FileCounts')
    BY <2>6, <2>7, <2>8, <2>10, <2>11, WithinSpent DEF Data, Accounted
  <2>13. Within(Coming(NewTorrent)', requests, 2, DOMAIN torrents)
    BY <2>7, <2>8, WithinKept DEF Data, Accounted
  <2>14. Within(Coming(NewUpload)', requests, 2, uploads)
    BY <2>7, <2>8, WithinKept DEF Data, Accounted
  <2>15. Accounted'
    BY <1>1, <2>4, <2>12, <2>13, <2>14 DEF Accounted
  <2>16. torrents'[t].files <= MaxRequests + 1
    <3>1. torrents'[t].files \in FileCounts'
      BY <1>4, <2>4 DEF FileCounts
    <3>2. torrents'[t].files <= requests + 1
      BY <2>8, <2>10, <2>12, <3>1, WithinBounds
    <3>3. requests <= MaxRequests
      BY DEF Data, TypeOK
    <3>. QED  BY <2>3, <2>5, <2>8, <3>2, <3>3, TorrentsAssumption
  <2>17. torrents'[t] \in Row
    BY <2>3, <2>4, <2>5, <2>16, TorrentsAssumption DEF Row
  <2>18. TypeOK'
    <3>1. req' \in [Workers -> {Idle} \cup Uploading \cup Creating \cup Editing \cup Renaming]
      BY <2>2 DEF Becomes, Requests
    <3>. QED  BY <1>1, <2>4, <2>17, <3>1 DEF Data, TypeOK
  <2>19. \A s \in DOMAIN torrents : /\ torrents'[s].hash = torrents[s].hash
                                    /\ torrents'[s].upload = torrents[s].upload
    BY <2>4, <2>5
  <2>20. Unique'
    BY <2>4, <2>19 DEF Data, Unique
  <2>21. Referring'
    BY <1>1, <2>2, <2>4, <2>19 DEF Data, Referring, Becomes
  <2>. QED  BY <2>15, <2>18, <2>20, <2>21 DEF Data
<1>. QED  BY <1>3, <1>4

LEMMA DataCommitUpload ==
  ASSUME Data, NEW w \in Workers, commit_upload(w)
  PROVE  Data'
<1>. DEFINE t == req[w].torrent
            u == next_id(uploads)
<1>1. /\ req[w].at = "create_upload" /\ Finish(w)
      /\ disk' = disk /\ refused' = refused
      /\ requests' = requests /\ failures' \in 0 .. MaxFailures /\ overlap' \in BOOLEAN
  BY CountsKept DEF commit_upload, Data
<1>2. CASE t \notin DOMAIN torrents
  <2>1. UNCHANGED <<torrents, uploads, stripped>>
    BY <1>2 DEF commit_upload
  <2>. QED  BY <1>1, <2>1, RowsKept, Ends
<1>3. CASE t \in DOMAIN torrents
  <2>1. /\ uploads' = uploads \cup {u}
        /\ set_torrent(u, t, {})
        /\ stripped' = stripped \cup loses(u, t)
    BY <1>3 DEF commit_upload
  <2>2. u \in Nat /\ u >= 1 /\ (u = 1 \/ \E m \in uploads : u = m + 1)
    BY NextId DEF Data, TypeOK
  <2>3. Becomes(w, Idle)
    BY <1>1, Finishes DEF Data
  <2>4. w \in Coming(NewUpload)
    BY <1>1 DEF Coming, NewUpload
  <2>5. /\ Coming(NewTorrent)' \subseteq Coming(NewTorrent)
        /\ Coming(NewFiles)' \subseteq Coming(NewFiles)
        /\ Coming(NewUpload)' \subseteq Coming(NewUpload) \ {w}
    BY <2>3, RowsKept DEF Becomes, Coming, NewTorrent, NewFiles, NewUpload
  <2>6. requests \in Nat /\ DOMAIN torrents \in SUBSET Nat /\ uploads \in SUBSET Nat
        /\ FileCounts \in SUBSET Nat
    BY Numbers DEF Data
  <2>. HIDE DEF t, u
  <2>7. uploads' \in SUBSET Nat
    BY <2>1, <2>2, <2>6
  <2>8. Within(Coming(NewUpload)', requests, 2, uploads')
    <3>1. \A n \in uploads' : n \in uploads \/ n <= 1 \/ \E m \in uploads : n <= m + 1
      BY <2>1, <2>2, <2>6
    <3>. QED  BY <2>4, <2>5, <2>6, <2>7, <3>1, WithinSpent DEF Data, Accounted
  <2>9. u \in Ids
    <3>1. u <= requests + 2
      BY <2>1, <2>6, <2>7, <2>8, WithinBounds
    <3>2. requests <= MaxRequests
      BY DEF Data, TypeOK
    <3>. QED  BY <2>2, <2>6, <3>1, <3>2, TorrentsAssumption DEF Ids
  <2>10. /\ DOMAIN torrents' = DOMAIN torrents
         /\ \A s \in DOMAIN torrents :
               /\ torrents'[s] \in Row
               /\ torrents'[s].hash = torrents[s].hash
               /\ torrents'[s].files = torrents[s].files
               /\ torrents'[s].upload = IF s = t THEN u
                      ELSE IF s \in {} THEN None ELSE torrents[s].upload
    BY <2>1, <2>9, SetTorrent DEF Data
  <2>11. FileCounts' = FileCounts
    BY <2>10 DEF FileCounts
  <2>12. Within(Coming(NewTorrent)', requests, 2, DOMAIN torrents)
    BY <2>5, <2>6, WithinKept DEF Data, Accounted
  <2>13. Within(Coming(NewFiles)', requests, 1, FileCounts)
    BY <2>5, <2>6, WithinKept DEF Data, Accounted
  <2>14. Accounted'
    BY <1>1, <2>8, <2>10, <2>11, <2>12, <2>13 DEF Accounted
  <2>15. TypeOK'
    <3>1. req' \in [Workers -> {Idle} \cup Uploading \cup Creating \cup Editing \cup Renaming]
      BY <2>3 DEF Becomes, Requests
    <3>2. stripped' \subseteq Ids
      BY <1>3, <2>1, <2>9, Loses, RowsKept DEF Data
    <3>. QED  BY <1>1, <2>1, <2>9, <2>10, <3>1, <3>2 DEF Data, TypeOK
  <2>16. Unique'
    BY <2>10 DEF Data, Unique
  <2>17. Referring'
    <3>1. \A s \in DOMAIN torrents' : torrents'[s].upload \in uploads' \cup {None}
      BY <2>1, <2>10 DEF Data, Referring
    <3>2. \A v \in Workers : req'[v] \in Uploading \cup Editing =>
             req'[v].upload \in uploads' \cup {None}
      BY <2>1, <2>3, RowsKept DEF Data, Referring, Becomes
    <3>. QED  BY <3>1, <3>2 DEF Referring
  <2>. QED  BY <2>14, <2>15, <2>16, <2>17 DEF Data
<1>. QED  BY <1>2, <1>3

LEMMA DataStep ==
  ASSUME Data, [Next]_vars
  PROVE  Data'
<1>1. CASE Next
  <2>1. PICK w \in Workers :
           \/ upload_torrent(w)    \/ delete_existing(w)   \/ delete_fails(w)
           \/ write_file(w)        \/ create_torrent(w)    \/ bulk_insert_files(w)
           \/ attach(w)            \/ create_upload(w)     \/ commit_upload(w)
           \/ edit_infohash(w)     \/ commit_infohash(w)   \/ edit_file_name(w)
           \/ commit_file_name(w)  \/ Abort(w)
    BY <1>1 DEF Next
  <2>. QED  BY <2>1, DataUploadTorrent, DataDeleteExisting, DataDeleteFails, DataWriteFile,
               DataCreateTorrent, DataBulkInsertFiles, DataAttach, DataCreateUpload,
               DataCommitUpload, DataEditInfohash, DataCommitInfohash, DataEditFileName,
               DataCommitFileName, DataAbort
<1>2. CASE UNCHANGED vars
  BY <1>2 DEF vars, Data, TypeOK, Accounted, Unique, Referring, Coming, FileCounts
<1>. QED  BY <1>1, <1>2
-----------------------------------------------------------------------------
(* Where requests about the same torrent have not overlapped.              *)

LEMMA InitInv == Init => Inv
<1>. SUFFICES ASSUME Init PROVE Inv
  OBVIOUS
<1>1. PICK n \in 1 .. 2 :
        torrents \in [1 .. n -> [hash : Hashes, name : Names, content : Contents \ Bare,
                                 upload : {None, 1, 2}, files : {1}]]
  BY DEF Init
<1>2. DOMAIN torrents = 1 .. n /\ n \in Nat /\ n <= 2
  BY <1>1
<1>3. \A t \in DOMAIN torrents :
        /\ t \in {1, 2} /\ torrents[t].upload \in {None, t}
        /\ torrents[t].hash \in Hashes /\ torrents[t].name \in Names
        /\ torrents[t].content \in Contents /\ torrents[t].files = 1
        /\ torrents[t] \in [hash : Hashes, name : Names, content : Contents,
                            upload : {None, 1, 2}, files : {1}]
  BY <1>1, <1>2 DEF Init
<1>4. {1, 2} \subseteq Ids /\ None \notin {1, 2} /\ None = 0
  BY TorrentsAssumption DEF Ids, None
<1>5. uploads \subseteq {1, 2} /\ \A t \in DOMAIN torrents : torrents[t].upload \in uploads \cup {None}
  BY <1>3 DEF Init
<1>6. Idle.at = "idle" /\ Idle \notin Uploading \cup Editing
  BY DEF Idle, Uploading, Editing
<1>7. \A w \in Workers : req[w] = Idle
  BY DEF Init
<1>8. Unique
  BY DEF Init, Unique
<1>9. \A t \in DOMAIN torrents : path(t) \in Paths /\ disk[path(t)] = torrents[t].content
  <2>. TAKE t \in DOMAIN torrents
  <2>. DEFINE there(p) == {s \in DOMAIN torrents : path(s) = p}
  <2>1. path(t) \in Paths
    BY <1>3 DEF path, Paths
  <2>2. there(path(t)) = {t}
    BY <1>8 DEF Unique, path
  <2>3. \A p \in Paths :
           disk[p] = IF there(p) = {} THEN NoFile
                     ELSE torrents[CHOOSE s \in there(p) : TRUE].content
    BY DEF Init
  <2>4. disk[path(t)] = torrents[CHOOSE s \in {t} : TRUE].content
    BY <2>1, <2>2, <2>3
  <2>5. (CHOOSE s \in {t} : TRUE) = t
    OBVIOUS
  <2>. QED  BY <2>1, <2>4, <2>5
<1>10. TypeOK
  <2>1. \A t \in DOMAIN torrents : torrents[t] \in Row
    <3>. TAKE t \in DOMAIN torrents
    <3>1. {None, 1, 2} \subseteq Ids \cup {None} /\ {1} \subseteq 0 .. MaxRequests + 1
      BY <1>4, TorrentsAssumption
    <3>. QED  BY <1>3, <3>1 DEF Row
  <2>2. disk \in [Paths -> Contents \cup {NoFile}]
    <3>1. \A p \in Paths :
            LET there == {t \in DOMAIN torrents : path(t) = p} IN
            (IF there = {} THEN NoFile ELSE torrents[CHOOSE t \in there : TRUE].content)
               \in Contents \cup {NoFile}
      BY <1>3
    <3>. QED  BY <3>1 DEF Init
  <2>3. req \in [Workers -> {Idle} \cup Uploading \cup Creating \cup Editing \cup Renaming]
    BY DEF Init
  <2>4. requests \in 0 .. MaxRequests /\ failures \in 0 .. MaxFailures
        /\ stripped \subseteq Ids /\ refused \subseteq Ids /\ overlap \in BOOLEAN
    <3>1. requests = 0 /\ failures = 0 /\ stripped = {} /\ refused = {}
      BY DEF Init
    <3>2. overlap \in BOOLEAN
      BY DEF Init
    <3>. QED  BY <3>1, <3>2, TorrentsAssumption
  <2>. QED  BY <1>3, <1>4, <1>5, <2>1, <2>2, <2>3, <2>4 DEF TypeOK
<1>11. Accounted
  <2>1. Coming(NewTorrent) = {} /\ Coming(NewUpload) = {} /\ Coming(NewFiles) = {}
    BY <1>6, <1>7 DEF Coming, NewTorrent, NewUpload, NewFiles
  <2>2. IsFiniteSet({}) /\ Cardinality({}) = 0
    BY FS_EmptySet
  <2>3. requests = 0
    BY DEF Init
  <2>4. FileCounts \subseteq {1}
    BY <1>3 DEF FileCounts
  <2>. QED  BY <1>3, <1>5, <2>1, <2>2, <2>3, <2>4 DEF Accounted, Within
<1>12. Referring
  BY <1>5, <1>6, <1>7 DEF Referring
<1>13. Orderly
  <2>1. Apart
    BY <1>7 DEF Apart, about
  <2>2. \A w \in Workers : InHand(req[w])
    BY <1>6, <1>7 DEF InHand
  <2>3. RowsHold
    BY <1>3, <1>9 DEF RowsHold, Matches, OnDisk
  <2>4. ASSUME NEW u \in uploads PROVE Provided(u)
    <3>1. torrents_of(u) # {}
      BY DEF Init, torrents_of
    <3>2. \A t \in torrents_of(u) : t = u
      BY <1>3, <1>4, <1>5 DEF torrents_of
    <3>3. \A w \in Workers : ~ Replacing(req[w], u)
      BY <1>6, <1>7 DEF Replacing
    <3>. QED  BY <3>1, <3>2, <3>3 DEF Provided
  <2>. QED  BY <2>1, <2>2, <2>3, <2>4 DEF Orderly
<1>. QED  BY <1>8, <1>10, <1>11, <1>12, <1>13 DEF Inv
-----------------------------------------------------------------------------
(* What a step of one request leaves alone: everything about infohashes    *)
(* other than those of H.                                                  *)
Untouched(H) ==
    /\ \A t \in DOMAIN torrents : torrents[t].hash \notin H =>
          t \in DOMAIN torrents' /\ torrents'[t] = torrents[t]
    /\ \A t \in DOMAIN torrents' : torrents'[t].hash \notin H =>
          t \in DOMAIN torrents /\ torrents'[t] = torrents[t]
    /\ \A h \in Hashes \ H, n \in Names : disk'[<<h, n>>] = disk[<<h, n>>]

LEMMA Subject ==
  /\ about(Idle) = {}
  /\ \A r : r.at # "idle" =>
        /\ r.at = "infohash" => about(r) = {r.hash, r.other}
        /\ r.at # "infohash" => about(r) = {r.hash}
<1>1. about(Idle) = {}
  BY DEF about
<1>2. ASSUME NEW r, r.at # "idle" PROVE r # Idle
  BY <1>2 DEF Idle
<1>. QED  BY <1>1, <1>2 DEF about

(* A row of an infohash no other request is about is finished.             *)
LEMMA Finished ==
  ASSUME Orderly, Undisturbed, TypeOK, NEW w \in Workers, NEW t \in DOMAIN torrents,
         \A v \in Workers \ {w} : torrents[t].hash \notin about(req[v]),
         ~ Finishing(req[w], t)
  PROVE  Matches(t)
<1>1. Matches(t) \/ \E v \in Workers : Finishing(req[v], t)
  BY DEF Orderly, RowsHold
<1>2. ASSUME NEW v \in Workers, Finishing(req[v], t) PROVE FALSE
  <2>1. v # w
    BY <1>2
  <2>2. req[v].at \in {"files", "file_name"} /\ req[v].torrent = t
    BY <1>2 DEF Finishing
  <2>3. Has(t, req[v].hash)
    BY <2>2 DEF Orderly, InHand
  <2>4. torrents[t].hash = req[v].hash
    BY <2>3 DEF Has, with_hash
  <2>5. about(req[v]) = {req[v].hash}
    BY <2>2, Subject
  <2>. QED  BY <2>1, <2>4, <2>5
<1>. QED  BY <1>1, <1>2

(* What another request has in hand stays there.                           *)
LEMMA Elsewhere ==
  ASSUME TypeOK, TypeOK', NEW H, Untouched(H), NEW v \in Workers, req'[v] = req[v],
         about(req[v]) \cap H = {}, InHand(req[v])
  PROVE  InHand(req[v])'
<1>1. PICK r \in Requests : r = req[v]
  BY DEF TypeOK, Requests
<1>2. r = req'[v] /\ InHand(r) /\ about(r) \cap H = {}
  BY <1>1
<1>3. ASSUME NEW h, h \notin H
      PROVE  /\ \A t : Has(t, h) => /\ t \in DOMAIN torrents' /\ torrents'[t].hash = h
                                    /\ torrents'[t] = torrents[t]
             /\ \A t \in DOMAIN torrents' : torrents'[t].hash = h => Has(t, h)
  BY <1>3 DEF Untouched, Has, with_hash
<1>4. r.at # "idle" => r.hash \in Hashes /\ r.hash \notin H
  <2>1. r.at # "idle" => r.hash \in about(r)
    BY Subject
  <2>2. r.at # "idle" => r.hash \in Hashes
    BY Kinds DEF Requests, Uploading, Creating, Editing, Renaming
  <2>. QED  BY <1>2, <2>1, <2>2
<1>5. r.at \in {"insert", "file_name"} => disk'[<<r.hash, r.name>>] = disk[<<r.hash, r.name>>]
  <2>1. r.at \in {"insert", "file_name"} => r.name \in Names
    BY Kinds DEF Uploading, Renaming
  <2>. QED  BY <1>4, <2>1 DEF Untouched
<1>6. ASSUME NEW t, Has(t, r.hash), r.at # "idle"
      PROVE  /\ t \in DOMAIN torrents' /\ torrents'[t].hash = r.hash
             /\ torrents'[t] = torrents[t]
             /\ OnDisk(t) => disk'[<<torrents'[t].hash, torrents'[t].name>>]
                                = torrents'[t].content
  <2>1. t \in DOMAIN torrents' /\ torrents'[t].hash = r.hash /\ torrents'[t] = torrents[t]
    BY <1>3, <1>4, <1>6
  <2>2. torrents[t].name \in Names
    BY <2>1, <1>6 DEF TypeOK, Row, Has, with_hash
  <2>. QED  BY <1>4, <1>6, <2>1, <2>2 DEF Untouched, OnDisk, path
<1>7. ASSUME NEW t, Has(t, r.other), r.at = "infohash"
      PROVE  t \in DOMAIN torrents' /\ torrents'[t].hash = r.other
  <2>1. r.other \in about(r)
    BY <1>7, Subject
  <2>. QED  BY <1>2, <1>3, <1>7, <2>1
<1>8. CASE r.at = "delete"
  BY <1>2, <1>6, <1>8 DEF InHand, Has, with_hash
<1>9. CASE r.at \in {"write", "insert"}
  <2>1. \A t \in DOMAIN torrents' : torrents'[t].hash # r.hash
    BY <1>2, <1>3, <1>4, <1>9 DEF InHand, Has
  <2>2. r.at = "insert" => disk'[<<r.hash, r.name>>] = r.content
    BY <1>2, <1>5 DEF InHand
  <2>. QED  BY <1>2, <1>9, <2>1, <2>2 DEF InHand, with_hash
<1>10. CASE r.at \in {"files", "attach"}
  BY <1>2, <1>6, <1>10 DEF InHand, Has, with_hash, OnDisk, path
<1>11. CASE r.at = "create_upload"
  BY <1>2, <1>6, <1>11 DEF InHand, Has, with_hash
<1>12. CASE r.at = "infohash"
  BY <1>2, <1>6, <1>7, <1>12 DEF InHand, Has, with_hash
<1>13. CASE r.at = "file_name"
  BY <1>2, <1>5, <1>6, <1>13 DEF InHand, Has, with_hash
<1>14. CASE r.at \notin {"delete", "write", "insert", "files", "attach", "create_upload",
                         "infohash", "file_name"}
  BY <1>2, <1>14 DEF InHand
<1>. QED  BY <1>8, <1>9, <1>10, <1>11, <1>12, <1>13, <1>14

(* What a step has to show: only what it is about.                         *)
LEMMA StepOrderly ==
  ASSUME TypeOK, TypeOK', Orderly, Undisturbed, NEW w \in Workers, NEW H,
         \A v \in Workers \ {w} : req'[v] = req[v] /\ about(req[v]) \cap H = {},
         about(req[w]) \subseteq H, about(req[w])' \subseteq H,
         Untouched(H),
         InHand(req[w])',
         \A t \in DOMAIN torrents' :
            torrents'[t].hash \in H => Matches(t)' \/ Finishing(req[w], t)',
         \A u \in uploads' : Provided(u)'
  PROVE  Orderly'
<1>1. Apart'
  <2>1. \A x, y \in Workers : about(req[x]) \cap about(req[y]) # {} => x = y
    BY DEF Orderly, Apart
  <2>2. \A v \in Workers \ {w} : about(req[v])' = about(req[v])
    BY DEF about
  <2>3. SUFFICES ASSUME NEW x \in Workers, NEW y \in Workers, x # y
                 PROVE  about(req[x])' \cap about(req[y])' = {}
    BY DEF Apart
  <2>4. CASE x = w
    BY <2>2, <2>3, <2>4
  <2>5. CASE y = w
    BY <2>2, <2>3, <2>5
  <2>6. CASE x # w /\ y # w
    BY <2>1, <2>2, <2>3, <2>6
  <2>. QED  BY <2>4, <2>5, <2>6
<1>2. ASSUME NEW v \in Workers PROVE InHand(req[v])'
  <2>1. CASE v = w
    BY <2>1
  <2>2. CASE v # w
    <3>1. req'[v] = req[v] /\ about(req[v]) \cap H = {} /\ InHand(req[v])
      BY <2>2 DEF Orderly
    <3>. QED  BY <3>1, Elsewhere
  <2>. QED  BY <2>1, <2>2
<1>3. ASSUME NEW t \in DOMAIN torrents'
      PROVE  Matches(t)' \/ \E v \in Workers : Finishing(req[v], t)'
  <2>1. CASE torrents'[t].hash \in H
    BY <2>1
  <2>2. CASE torrents'[t].hash \notin H
    <3>1. t \in DOMAIN torrents /\ torrents'[t] = torrents[t]
      BY <2>2 DEF Untouched
    <3>2. torrents[t].hash \in Hashes \ H /\ torrents[t].name \in Names
      BY <2>2, <3>1 DEF TypeOK, Row
    <3>3. Matches(t) => Matches(t)'
      BY <3>1, <3>2 DEF Untouched, Matches, OnDisk, path
    <3>4. ASSUME NEW v \in Workers, Finishing(req[v], t) PROVE Finishing(req[v], t)'
      <4>1. req[v].at \in {"files", "file_name"} /\ req[v].torrent = t
        BY <3>4 DEF Finishing
      <4>2. Has(t, req[v].hash)
        BY <4>1 DEF Orderly, InHand
      <4>3. torrents[t].hash \in about(req[v])
        BY <4>1, <4>2, Subject DEF Has, with_hash
      <4>4. v # w
        BY <3>2, <4>3
      <4>5. req'[v] = req[v]
        BY <4>4
      <4>. QED  BY <3>4, <4>5 DEF Finishing
    <3>5. Matches(t) \/ \E v \in Workers : Finishing(req[v], t)
      BY <3>1 DEF Orderly, RowsHold
    <3>. QED  BY <3>3, <3>4, <3>5
  <2>. QED  BY <2>1, <2>2
<1>4. RowsHold'
  BY <1>3 DEF RowsHold
<1>. QED  BY <1>1, <1>2, <1>4 DEF Orderly

LEMMA ProvidedKept ==
  ASSUME NEW u, Provided(u), torrents_of(u)' = torrents_of(u),
         \A v \in Workers : Replacing(req[v], u)' <=> Replacing(req[v], u),
         stripped \subseteq stripped', refused \subseteq refused'
  PROVE  Provided(u)'
BY DEF Provided

(* The first step of a request.                                            *)
LEMMA Starts ==
  ASSUME Inv, NEW w \in Workers, NEW r \in Requests, Begin(w, r), Undisturbed'
  PROVE  /\ Undisturbed /\ req[w] = Idle /\ req'[w] = r
         /\ \A v \in Workers \ {w} : req'[v] = req[v] /\ about(req[v]) \cap about(r) = {}
         /\ about(req[w]) \subseteq about(r) /\ about(req[w])' \subseteq about(r)
         /\ stripped' = stripped /\ refused' = refused
         /\ \A t \in DOMAIN torrents : torrents[t].hash \in about(r) => Matches(t)
<1>1. req[w] = Idle
  BY DEF Begin
<1>2. req'[w] = r /\ \A v \in Workers \ {w} : req'[v] = req[v]
  BY BecomesBy DEF Begin, Becomes, Inv
<1>3. Undisturbed
  BY DEF Begin, Undisturbed
<1>4. \A v \in Workers : about(req[v]) \cap about(r) = {}
  BY DEF Begin, Undisturbed
<1>5. about(req[w]) = {} /\ about(req[w])' = about(r)
  <2>1. about(req[w])' = about(r)
    BY <1>2 DEF about
  <2>. QED  BY <1>1, <2>1, Subject
<1>6. ASSUME NEW t \in DOMAIN torrents, torrents[t].hash \in about(r) PROVE Matches(t)
  <2>1. ~ Finishing(req[w], t)
    BY <1>1 DEF Finishing, Idle
  <2>2. \A v \in Workers \ {w} : torrents[t].hash \notin about(req[v])
    BY <1>4, <1>6
  <2>. QED  BY <1>3, <2>1, <2>2, Finished DEF Inv
<1>. QED  BY <1>1, <1>2, <1>3, <1>4, <1>5, <1>6 DEF Begin

(* A later one.                                                            *)
LEMMA Continues ==
  ASSUME Inv, NEW w \in Workers, NEW r, Becomes(w, r), UNCHANGED counts, Undisturbed',
         req[w].at # "idle", about(r) \subseteq about(req[w])
  PROVE  /\ Undisturbed /\ InHand(req[w]) /\ req'[w] = r
         /\ \A v \in Workers \ {w} :
               req'[v] = req[v] /\ about(req[v]) \cap about(req[w]) = {}
         /\ about(req[w])' \subseteq about(req[w])
         /\ \A t \in DOMAIN torrents :
               torrents[t].hash \in about(req[w]) /\ ~ Finishing(req[w], t) => Matches(t)
<1>1. Undisturbed
  BY DEF counts, Undisturbed
<1>2. req'[w] = r /\ \A v \in Workers \ {w} : req'[v] = req[v]
  BY DEF Becomes
<1>3. \A v \in Workers \ {w} : about(req[v]) \cap about(req[w]) = {}
  BY <1>1 DEF Inv, Orderly, Apart
<1>4. about(req[w])' = about(r)
  BY <1>2 DEF about
<1>5. \A t \in DOMAIN torrents :
         torrents[t].hash \in about(req[w]) /\ ~ Finishing(req[w], t) => Matches(t)
  BY <1>1, <1>3, Finished DEF Inv
<1>6. InHand(req[w])
  BY <1>1 DEF Inv, Orderly
<1>. QED  BY <1>1, <1>2, <1>3, <1>4, <1>5, <1>6
-----------------------------------------------------------------------------
LEMMA InvData == Inv => Data
BY DEF Inv, Data

(* A first step that changes no row: uploads are what they were.           *)
LEMMA ProvidedAtStart ==
  ASSUME Inv, NEW w \in Workers, Undisturbed, req[w] = Idle,
         UNCHANGED <<torrents, uploads, stripped, refused>>,
         \A v \in Workers \ {w} : req'[v] = req[v],
         \A u \in uploads : ~ Replacing(req[w], u)'
  PROVE  \A u \in uploads' : Provided(u)'
<1>. TAKE u \in uploads'
<1>1. u \in uploads
  OBVIOUS
<1>2. torrents_of(u)' = torrents_of(u)
  BY DEF torrents_of
<1>3. ~ Replacing(req[w], u)
  BY DEF Replacing, Idle
<1>4. \A v \in Workers : Replacing(req[v], u)' <=> Replacing(req[v], u)
  <2>. TAKE v \in Workers
  <2>1. CASE v = w
    BY <1>1, <1>3, <2>1
  <2>2. CASE v # w
    BY <2>2 DEF Replacing
  <2>. QED  BY <2>1, <2>2
<1>5. Provided(u)
  BY <1>1 DEF Inv, Orderly
<1>. QED  BY <1>2, <1>4, <1>5, ProvidedKept

LEMMA OrderlyUploadTorrent ==
  ASSUME Inv, Data', NEW w \in Workers, upload_torrent(w), Undisturbed'
  PROVE  Orderly'
<1>1. PICK h \in Hashes, n \in Names, c \in Contents :
        LET t == get_torrent_from_infohash(h) IN
        /\ Begin(w, [at |-> IF t = None THEN "write" ELSE "delete",
                     hash |-> h, name |-> n, content |-> c, torrent |-> t,
                     old |-> IF t = None THEN n ELSE torrents[t].name,
                     upload |-> IF t = None THEN None ELSE torrents[t].upload])
        /\ UNCHANGED <<torrents, uploads, disk>>
  BY DEF upload_torrent
<1>. DEFINE t == get_torrent_from_infohash(h)
            r == [at |-> IF t = None THEN "write" ELSE "delete",
                  hash |-> h, name |-> n, content |-> c, torrent |-> t,
                  old |-> IF t = None THEN n ELSE torrents[t].name,
                  upload |-> IF t = None THEN None ELSE torrents[t].upload]
<1>2. t \in Ids \cup {None} /\ (t = None <=> with_hash(h) = {}) /\ (t # None => Has(t, h))
      /\ t \in DOMAIN torrents \cup {None}
  BY Found DEF Inv
<1>3. t # None => torrents[t].name \in Names /\ torrents[t].upload \in Ids \cup {None}
  BY <1>2 DEF Inv, TypeOK, Row
<1>4. r \in Requests
  BY <1>2, <1>3 DEF Uploading, Requests
<1>5. /\ r.at = IF t = None THEN "write" ELSE "delete"
      /\ r.hash = h /\ r.torrent = t
      /\ t # None => r.old = torrents[t].name /\ r.upload = torrents[t].upload
      /\ t = None => r.upload = None
  OBVIOUS
<1>. HIDE DEF t, r
<1>6. Begin(w, r) /\ UNCHANGED <<torrents, uploads, disk>>
  BY <1>1 DEF t, r
<1>7. about(r) = {h}
  BY <1>5, Subject
<1>8. /\ Undisturbed /\ req[w] = Idle /\ req'[w] = r
      /\ \A v \in Workers \ {w} : req'[v] = req[v] /\ about(req[v]) \cap about(r) = {}
      /\ about(req[w]) \subseteq about(r) /\ about(req[w])' \subseteq about(r)
      /\ stripped' = stripped /\ refused' = refused
      /\ \A s \in DOMAIN torrents : torrents[s].hash \in about(r) => Matches(s)
  BY <1>4, <1>6, Starts
<1>9. Untouched(about(r))
  BY <1>6 DEF Untouched
<1>10. InHand(req[w])'
  BY <1>2, <1>5, <1>6, <1>8 DEF InHand, Has, with_hash
<1>11. \A s \in DOMAIN torrents' : torrents'[s].hash \in about(r) => Matches(s)'
  BY <1>6, <1>8 DEF Matches, OnDisk, path
<1>12. \A u \in uploads : ~ Replacing(req[w], u)'
  BY <1>5, <1>8 DEF Replacing
<1>13. \A u \in uploads' : Provided(u)'
  BY <1>6, <1>8, <1>12, ProvidedAtStart
<1>14. Orderly /\ TypeOK /\ TypeOK'
  BY DEF Inv, Data
<1>. QED  BY <1>8, <1>9, <1>10, <1>11, <1>13, <1>14, StepOrderly

LEMMA OrderlyCreateUpload ==
  ASSUME Inv, Data', NEW w \in Workers, create_upload(w), Undisturbed'
  PROVE  Orderly'
<1>1. PICK t \in DOMAIN torrents :
        /\ Begin(w, [at |-> "create_upload", hash |-> torrents[t].hash, torrent |-> t])
        /\ UNCHANGED <<torrents, uploads, disk>>
  BY DEF create_upload
<1>. DEFINE r == [at |-> "create_upload", hash |-> torrents[t].hash, torrent |-> t]
<1>2. torrents[t].hash \in Hashes /\ t \in Ids
  BY DEF Inv, TypeOK, Row
<1>3. r \in Creating /\ r.at = "create_upload" /\ r.hash = torrents[t].hash /\ r.torrent = t
  BY <1>2 DEF Creating
<1>. HIDE DEF r
<1>4. r \in Requests
  BY <1>3 DEF Requests
<1>6. Begin(w, r) /\ UNCHANGED <<torrents, uploads, disk>>
  BY <1>1 DEF r
<1>8. /\ Undisturbed /\ req[w] = Idle /\ req'[w] = r
      /\ \A v \in Workers \ {w} : req'[v] = req[v] /\ about(req[v]) \cap about(r) = {}
      /\ about(req[w]) \subseteq about(r) /\ about(req[w])' \subseteq about(r)
      /\ stripped' = stripped /\ refused' = refused
      /\ \A s \in DOMAIN torrents : torrents[s].hash \in about(r) => Matches(s)
  BY <1>4, <1>6, Starts
<1>9. Untouched(about(r))
  BY <1>6 DEF Untouched
<1>10. InHand(req[w])'
  BY <1>3, <1>6, <1>8 DEF InHand, Has, with_hash
<1>11. \A s \in DOMAIN torrents' : torrents'[s].hash \in about(r) => Matches(s)'
  BY <1>6, <1>8 DEF Matches, OnDisk, path
<1>12. \A u \in uploads : ~ Replacing(req[w], u)'
  BY <1>3, <1>8 DEF Replacing
<1>13. \A u \in uploads' : Provided(u)'
  BY <1>6, <1>8, <1>12, ProvidedAtStart
<1>14. Orderly /\ TypeOK /\ TypeOK'
  BY DEF Inv, Data
<1>. QED  BY <1>8, <1>9, <1>10, <1>11, <1>13, <1>14, StepOrderly

LEMMA OrderlyEditInfohash ==
  ASSUME Inv, Data', NEW w \in Workers, edit_infohash(w), Undisturbed'
  PROVE  Orderly'
<1>1. PICK t \in DOMAIN torrents, h \in Hashes :
        /\ torrents[t].upload # None
        /\ h # torrents[t].hash
        /\ Begin(w, [at |-> "infohash", hash |-> torrents[t].hash, other |-> h,
                     upload |-> torrents[t].upload, old |-> t,
                     torrent |-> get_torrent_from_infohash(h)])
        /\ UNCHANGED <<torrents, uploads, disk>>
  BY DEF edit_infohash
<1>. DEFINE r == [at |-> "infohash", hash |-> torrents[t].hash, other |-> h,
                  upload |-> torrents[t].upload, old |-> t,
                  torrent |-> get_torrent_from_infohash(h)]
<1>2. torrents[t].hash \in Hashes /\ t \in Ids /\ torrents[t].upload \in Ids
  BY <1>1 DEF Inv, TypeOK, Row
<1>3. /\ r \in Editing /\ r.at = "infohash" /\ r.hash = torrents[t].hash /\ r.other = h
      /\ r.upload = torrents[t].upload /\ r.old = t
      /\ r.torrent # None => Has(r.torrent, h)
  <2>1. /\ get_torrent_from_infohash(h) \in Ids \cup {None}
        /\ get_torrent_from_infohash(h) # None => Has(get_torrent_from_infohash(h), h)
    BY Found DEF Inv
  <2>. QED  BY <1>2, <2>1 DEF Editing
<1>. HIDE DEF r
<1>4. r \in Requests
  BY <1>3 DEF Requests
<1>6. Begin(w, r) /\ UNCHANGED <<torrents, uploads, disk>>
  BY <1>1 DEF r
<1>8. /\ Undisturbed /\ req[w] = Idle /\ req'[w] = r
      /\ \A v \in Workers \ {w} : req'[v] = req[v] /\ about(req[v]) \cap about(r) = {}
      /\ about(req[w]) \subseteq about(r) /\ about(req[w])' \subseteq about(r)
      /\ stripped' = stripped /\ refused' = refused
      /\ \A s \in DOMAIN torrents : torrents[s].hash \in about(r) => Matches(s)
  BY <1>4, <1>6, Starts
<1>9. Untouched(about(r))
  BY <1>6 DEF Untouched
<1>10. InHand(req[w])'
  BY <1>1, <1>3, <1>6, <1>8 DEF InHand, Has, with_hash
<1>11. \A s \in DOMAIN torrents' : torrents'[s].hash \in about(r) => Matches(s)'
  BY <1>6, <1>8 DEF Matches, OnDisk, path
<1>12. \A u \in uploads : ~ Replacing(req[w], u)'
  BY <1>3, <1>8 DEF Replacing
<1>13. \A u \in uploads' : Provided(u)'
  BY <1>6, <1>8, <1>12, ProvidedAtStart
<1>14. Orderly /\ TypeOK /\ TypeOK'
  BY DEF Inv, Data
<1>. QED  BY <1>8, <1>9, <1>10, <1>11, <1>13, <1>14, StepOrderly

LEMMA OrderlyEditFileName ==
  ASSUME Inv, Data', NEW w \in Workers, edit_file_name(w), Undisturbed'
  PROVE  Orderly'
<1>1. PICK t \in DOMAIN torrents, n \in Names :
        /\ Begin(w, [at |-> "file_name", hash |-> torrents[t].hash, torrent |-> t,
                     name |-> n])
        /\ disk' = renamed(torrents[t].hash, torrents[t].name, n)
        /\ UNCHANGED <<torrents, uploads>>
  BY DEF edit_file_name
<1>. DEFINE r == [at |-> "file_name", hash |-> torrents[t].hash, torrent |-> t,
                  name |-> n]
<1>2. torrents[t].hash \in Hashes /\ t \in Ids /\ torrents[t].name \in Names
      /\ torrents[t].content \in Contents
  BY DEF Inv, TypeOK, Row
<1>3. /\ r \in Renaming /\ r.at = "file_name" /\ r.hash = torrents[t].hash
      /\ r.torrent = t /\ r.name = n
  BY <1>2 DEF Renaming
<1>. HIDE DEF r
<1>4. r \in Requests
  BY <1>3 DEF Requests
<1>5. about(r) = {torrents[t].hash}
  BY <1>3, Subject
<1>6. Begin(w, r) /\ UNCHANGED <<torrents, uploads>>
  BY <1>1 DEF r
<1>8. /\ Undisturbed /\ req[w] = Idle /\ req'[w] = r
      /\ \A v \in Workers \ {w} : req'[v] = req[v] /\ about(req[v]) \cap about(r) = {}
      /\ about(req[w]) \subseteq about(r) /\ about(req[w])' \subseteq about(r)
      /\ stripped' = stripped /\ refused' = refused
      /\ \A s \in DOMAIN torrents : torrents[s].hash \in about(r) => Matches(s)
  BY <1>4, <1>6, Starts
<1>9. /\ \A p \in Paths : p[1] # torrents[t].hash => disk'[p] = disk[p]
      /\ disk[<<torrents[t].hash, torrents[t].name>>] # NoFile =>
           disk'[<<torrents[t].hash, n>>] = disk[<<torrents[t].hash, torrents[t].name>>]
  BY <1>1, <1>2, Moved DEF Inv
<1>10. Untouched(about(r))
  <2>1. ASSUME NEW h \in Hashes \ about(r), NEW m \in Names
        PROVE  disk'[<<h, m>>] = disk[<<h, m>>]
    <3>1. <<h, m>> \in Paths /\ <<h, m>>[1] # torrents[t].hash
      BY <1>5 DEF Paths
    <3>. QED  BY <1>9, <3>1
  <2>. QED  BY <1>6, <2>1 DEF Untouched
<1>11. Matches(t)
  BY <1>5, <1>8
<1>12. InHand(req[w])'
  <2>1. torrents[t].content # NoFile
    BY <1>2, TorrentsAssumption
  <2>2. disk'[<<torrents[t].hash, n>>] = torrents[t].content
    BY <1>9, <1>11, <2>1 DEF Matches, OnDisk, path
  <2>. QED  BY <1>3, <1>6, <1>8, <1>11, <2>2 DEF InHand, Has, with_hash, Matches
<1>13. \A s \in DOMAIN torrents' : torrents'[s].hash \in about(r) => Finishing(req[w], s)'
  <2>1. \A s \in DOMAIN torrents : torrents[s].hash \in about(r) => s = t
    BY <1>5 DEF Inv, Unique
  <2>. QED  BY <1>3, <1>6, <1>8, <2>1 DEF Finishing
<1>14. \A u \in uploads : ~ Replacing(req[w], u)'
  BY <1>3, <1>8 DEF Replacing
<1>15. \A u \in uploads' : Provided(u)'
  BY <1>6, <1>8, <1>14, ProvidedAtStart
<1>16. Orderly /\ TypeOK /\ TypeOK'
  BY DEF Inv, Data
<1>. QED  BY <1>8, <1>10, <1>12, <1>13, <1>15, <1>16, StepOrderly
-----------------------------------------------------------------------------
(* The uploads a step does not concern: none of their torrents, and none   *)
(* of the requests that replace them, changes.                             *)
LEMMA ProvidedElsewhere ==
  ASSUME NEW u, Provided(u), NEW w \in Workers,
         \A v \in Workers \ {w} : req'[v] = req[v],
         Replacing(req[w], u)' <=> Replacing(req[w], u),
         \A t : (t \in DOMAIN torrents' /\ torrents'[t].upload = u)
                  <=> (t \in DOMAIN torrents /\ torrents[t].upload = u),
         stripped \subseteq stripped', refused \subseteq refused'
  PROVE  Provided(u)'
<1>1. torrents_of(u)' = torrents_of(u)
  BY DEF torrents_of
<1>2. \A v \in Workers : Replacing(req[v], u)' <=> Replacing(req[v], u)
  <2>. TAKE v \in Workers
  <2>1. CASE v = w
    BY <2>1
  <2>2. CASE v # w
    BY <2>2 DEF Replacing
  <2>. QED  BY <2>1, <2>2
<1>. QED  BY <1>1, <1>2, ProvidedKept

LEMMA AtWork ==
  ASSUME Inv, NEW w \in Workers,
         req[w].at \in {"delete", "write", "insert", "files", "attach"}
  PROVE  /\ about(req[w]) = {req[w].hash} /\ req[w].at # "idle"
         /\ req[w] \in Uploading
         /\ req[w].hash \in Hashes /\ req[w].name \in Names /\ req[w].content \in Contents
         /\ req[w].old \in Names
         /\ req[w].upload \in uploads \cup {None}
         /\ \A at \in {"delete", "write", "insert", "files", "attach"} :
               /\ about([req[w] EXCEPT !.at = at]) = {req[w].hash}
               /\ [req[w] EXCEPT !.at = at].at = at
               /\ [req[w] EXCEPT !.at = at].hash = req[w].hash
               /\ [req[w] EXCEPT !.at = at].name = req[w].name
               /\ [req[w] EXCEPT !.at = at].content = req[w].content
               /\ [req[w] EXCEPT !.at = at].upload = req[w].upload
               /\ [req[w] EXCEPT !.at = at].torrent = req[w].torrent
<1>1. /\ req[w] \in Uploading
      /\ req[w].hash \in Hashes /\ req[w].name \in Names /\ req[w].content \in Contents
      /\ req[w].old \in Names
      /\ req[w].upload \in uploads \cup {None}
  BY InvData, InUploading
<1>2. about(req[w]) = {req[w].hash} /\ req[w].at # "idle"
  BY Subject
<1>3. ASSUME NEW at \in {"delete", "write", "insert", "files", "attach"}
      PROVE  /\ about([req[w] EXCEPT !.at = at]) = {req[w].hash}
             /\ [req[w] EXCEPT !.at = at].at = at
             /\ [req[w] EXCEPT !.at = at].hash = req[w].hash
             /\ [req[w] EXCEPT !.at = at].name = req[w].name
             /\ [req[w] EXCEPT !.at = at].content = req[w].content
             /\ [req[w] EXCEPT !.at = at].upload = req[w].upload
             /\ [req[w] EXCEPT !.at = at].torrent = req[w].torrent
  <2>. DEFINE r == [req[w] EXCEPT !.at = at]
  <2>1. /\ r.at = at /\ r.hash = req[w].hash /\ r.name = req[w].name
        /\ r.content = req[w].content /\ r.upload = req[w].upload
        /\ r.torrent = req[w].torrent
    BY <1>1 DEF Uploading
  <2>. HIDE DEF r
  <2>2. about(r) = {r.hash}
    BY <2>1, Subject
  <2>. QED  BY <2>1, <2>2 DEF r
<1>. QED  BY <1>1, <1>2, <1>3

(* Uploads are rows, so none of them is None.                              *)
LEMMA NotNone ==
  ASSUME TypeOK
  PROVE  None \notin uploads /\ None \notin DOMAIN torrents
BY DEF TypeOK, Ids, None

LEMMA OrderlyDeleteExisting ==
  ASSUME Inv, Data', NEW w \in Workers, delete_existing(w), Undisturbed'
  PROVE  Orderly'
<1>. DEFINE t == req[w].torrent
            h == req[w].hash
<1>1. req[w].at = "delete" /\ UNCHANGED counts /\ uploads' = uploads /\ stripped' = stripped
  BY DEF delete_existing
<1>2. /\ about(req[w]) = {h} /\ req[w].at # "idle" /\ req[w] \in Uploading
      /\ h \in Hashes /\ req[w].old \in Names
  BY <1>1, AtWork
<1>3. PICK r : /\ Becomes(w, r) /\ about(r) \subseteq {h}
               /\ \/ r.at = "write" /\ r.hash = h /\ r.upload = req[w].upload
                     /\ refused' = refused
                  \/ r.at = "idle" /\ refused' = refused \cup ({req[w].upload} \ {None})
  <2>1. CASE has_tracker(req[w].content)
    <3>1. Becomes(w, [req[w] EXCEPT !.at = "write"])
      BY <1>2, <2>1, GoesOn DEF delete_existing, Inv
    <3>. QED  BY <1>1, <2>1, <3>1, AtWork DEF delete_existing
  <2>2. CASE ~ has_tracker(req[w].content)
    <3>1. Becomes(w, Idle)
      BY <2>2, Finishes DEF delete_existing, Inv
    <3>2. Idle.at = "idle"
      BY DEF Idle
    <3>. QED  BY <2>2, <3>1, <3>2, Subject DEF delete_existing
  <2>. QED  BY <2>1, <2>2
<1>4. /\ Undisturbed /\ InHand(req[w]) /\ req'[w] = r
      /\ \A v \in Workers \ {w} : req'[v] = req[v] /\ about(req[v]) \cap about(req[w]) = {}
      /\ about(req[w])' \subseteq about(req[w])
  BY <1>1, <1>2, <1>3, Continues
<1>5. t \in DOMAIN torrents /\ torrents[t].hash = h /\ torrents[t].upload = req[w].upload
  BY <1>1, <1>4 DEF InHand, Has, with_hash
<1>6. /\ DOMAIN torrents' = DOMAIN torrents \ {t}
      /\ \A s \in DOMAIN torrents' : torrents'[s] = torrents[s]
  BY DEF delete_existing, Restrict
<1>7. \A s \in DOMAIN torrents' : torrents'[s].hash # h
  BY <1>5, <1>6 DEF Inv, Unique
<1>8. Untouched({h})
  <2>1. disk' = [disk EXCEPT ![<<h, req[w].old>>] = NoFile] /\ disk \in [Paths -> Contents \cup {NoFile}]
    BY DEF delete_existing, unlink, Inv, TypeOK
  <2>2. ASSUME NEW k \in Hashes \ {h}, NEW n \in Names PROVE disk'[<<k, n>>] = disk[<<k, n>>]
    <3>1. <<k, n>> \in Paths /\ <<k, n>> # <<h, req[w].old>>
      BY DEF Paths
    <3>. QED  BY <2>1, <3>1
  <2>. QED  BY <1>5, <1>6, <2>2 DEF Untouched
<1>9. InHand(req[w])'
  BY <1>3, <1>4, <1>7 DEF InHand, with_hash
<1>10. ASSUME NEW u \in uploads' PROVE Provided(u)'
  <2>1. u \in uploads /\ u # None /\ Provided(u)
    BY <1>1, <1>4, NotNone DEF Inv, Orderly
  <2>2. CASE u = req[w].upload
    <3>1. t \in torrents_of(u) /\ \A s \in torrents_of(u) : s = t
      BY <1>5, <2>1, <2>2 DEF torrents_of, Provided
    <3>2. torrents_of(u)' = {}
      BY <1>6, <3>1 DEF torrents_of
    <3>3. \A v \in Workers : ~ Replacing(req[v], u)
      BY <2>1, <3>1 DEF Provided
    <3>4. \A v \in Workers \ {w} : ~ Replacing(req[v], u)'
      BY <1>4, <3>3 DEF Replacing
    <3>5. u \in refused' \/ Replacing(req[w], u)'
      BY <1>3, <1>4, <2>1, <2>2 DEF Replacing
    <3>. QED  BY <3>2, <3>4, <3>5 DEF Provided
  <2>3. CASE u # req[w].upload
    <3>1. Replacing(req[w], u)' <=> Replacing(req[w], u)
      BY <1>1, <1>3, <1>4, <2>3 DEF Replacing
    <3>2. \A s : (s \in DOMAIN torrents' /\ torrents'[s].upload = u)
                   <=> (s \in DOMAIN torrents /\ torrents[s].upload = u)
      BY <1>5, <1>6, <2>3
    <3>3. stripped \subseteq stripped' /\ refused \subseteq refused'
      BY <1>1, <1>3
    <3>. QED  BY <1>4, <2>1, <3>1, <3>2, <3>3, ProvidedElsewhere
  <2>. QED  BY <2>2, <2>3
<1>11. Orderly /\ TypeOK /\ TypeOK'
  BY DEF Inv, Data
<1>. HIDE DEF t, h
<1>. QED  BY <1>2, <1>4, <1>7, <1>8, <1>9, <1>10, <1>11, StepOrderly

LEMMA OrderlyWriteFile ==
  ASSUME Inv, Data', NEW w \in Workers, write_file(w), Undisturbed'
  PROVE  Orderly'
<1>. DEFINE h == req[w].hash
            r == [req[w] EXCEPT !.at = "insert"]
<1>1. /\ req[w].at = "write" /\ UNCHANGED counts /\ uploads' = uploads
      /\ stripped' = stripped /\ refused' = refused /\ torrents' = torrents
      /\ disk' = [disk EXCEPT ![<<h, req[w].name>>] = req[w].content]
  BY DEF write_file
<1>2. /\ about(req[w]) = {h} /\ req[w].at # "idle" /\ req[w] \in Uploading
      /\ h \in Hashes /\ req[w].name \in Names
      /\ r.at = "insert" /\ r.hash = h /\ r.name = req[w].name /\ r.content = req[w].content
      /\ r.upload = req[w].upload /\ about(r) = {h}
  BY <1>1, AtWork
<1>3. Becomes(w, r)
  BY <1>2, GoesOn DEF write_file, Inv
<1>. HIDE DEF r
<1>4. /\ Undisturbed /\ InHand(req[w]) /\ req'[w] = r
      /\ \A v \in Workers \ {w} : req'[v] = req[v] /\ about(req[v]) \cap about(req[w]) = {}
      /\ about(req[w])' \subseteq about(req[w])
  BY <1>1, <1>2, <1>3, Continues
<1>5. \A s \in DOMAIN torrents' : torrents'[s].hash # h
  BY <1>1, <1>4 DEF InHand, with_hash
<1>6. disk \in [Paths -> Contents \cup {NoFile}] /\ <<h, req[w].name>> \in Paths
  BY <1>2 DEF Inv, TypeOK, Paths
<1>7. Untouched({h})
  <2>1. ASSUME NEW k \in Hashes \ {h}, NEW n \in Names PROVE disk'[<<k, n>>] = disk[<<k, n>>]
    <3>1. <<k, n>> \in Paths /\ <<k, n>> # <<h, req[w].name>>
      BY DEF Paths
    <3>. QED  BY <1>1, <1>6, <3>1
  <2>. QED  BY <1>1, <2>1 DEF Untouched
<1>8. disk'[<<h, req[w].name>>] = req[w].content
  BY <1>1, <1>6
<1>9. InHand(req[w])'
  BY <1>2, <1>4, <1>5, <1>8 DEF InHand, with_hash
<1>10. ASSUME NEW u \in uploads' PROVE Provided(u)'
  <2>1. Provided(u)
    BY <1>1, <1>4 DEF Inv, Orderly
  <2>2. Replacing(req[w], u)' <=> Replacing(req[w], u)
    BY <1>1, <1>2, <1>4 DEF Replacing
  <2>. QED  BY <1>1, <1>4, <2>1, <2>2, ProvidedElsewhere
<1>11. Orderly /\ TypeOK /\ TypeOK'
  BY DEF Inv, Data
<1>. HIDE DEF h
<1>. QED  BY <1>2, <1>4, <1>5, <1>7, <1>9, <1>10, <1>11, StepOrderly

LEMMA OrderlyCreateTorrent ==
  ASSUME Inv, Data', NEW w \in Workers, create_torrent(w), Undisturbed'
  PROVE  Orderly'
<1>. DEFINE h == req[w].hash
            t == next_id(DOMAIN torrents)
            r == [req[w] EXCEPT !.at = "files", !.torrent = t]
<1>1. /\ req[w].at = "insert" /\ UNCHANGED counts /\ uploads' = uploads
      /\ stripped' = stripped /\ refused' = refused /\ disk' = disk
  BY DEF create_torrent
<1>2. /\ about(req[w]) = {h} /\ req[w].at # "idle" /\ req[w] \in Uploading
      /\ h \in Hashes /\ req[w].name \in Names
  BY <1>1, AtWork
<1>3. Undisturbed /\ InHand(req[w])
  BY <1>1 DEF counts, Undisturbed, Inv, Orderly
<1>4. with_hash(h) = {} /\ disk[<<h, req[w].name>>] = req[w].content
  BY <1>1, <1>3 DEF InHand
<1>5. /\ t \notin DOMAIN torrents /\ t \in Ids
      /\ DOMAIN torrents' = DOMAIN torrents \cup {t}
      /\ torrents'[t] = new_row(w)
      /\ \A s \in DOMAIN torrents : torrents'[s] = torrents[s]
      /\ Becomes(w, r)
  BY <1>4, NewRow, InvData
<1>6. /\ r.at = "files" /\ r.hash = h /\ r.torrent = t /\ r.upload = req[w].upload
  BY <1>2 DEF Uploading
<1>. HIDE DEF t, r
<1>7. about(r) = {h}
  BY <1>6, Subject
<1>8. /\ req'[w] = r
      /\ \A v \in Workers \ {w} : req'[v] = req[v] /\ about(req[v]) \cap about(req[w]) = {}
      /\ about(req[w])' \subseteq about(req[w])
  BY <1>1, <1>2, <1>5, <1>7, Continues
<1>9. /\ torrents'[t].hash = h /\ torrents'[t].name = req[w].name
      /\ torrents'[t].content = req[w].content
      /\ torrents'[t].upload = None /\ torrents'[t].files = 0
  BY <1>5 DEF new_row
<1>10. Untouched({h})
  BY <1>1, <1>5, <1>9 DEF Untouched
<1>11. InHand(req[w])'
  BY <1>1, <1>4, <1>5, <1>6, <1>8, <1>9 DEF InHand, Has, with_hash, OnDisk, path
<1>12. \A s \in DOMAIN torrents' : torrents'[s].hash = h => Finishing(req[w], s)'
  BY <1>4, <1>5, <1>6, <1>8 DEF Finishing, with_hash
<1>13. ASSUME NEW u \in uploads' PROVE Provided(u)'
  <2>1. Provided(u) /\ u # None
    BY <1>1, <1>3, NotNone DEF Inv, Orderly
  <2>2. Replacing(req[w], u)' <=> Replacing(req[w], u)
    BY <1>1, <1>6, <1>8 DEF Replacing
  <2>3. \A s : (s \in DOMAIN torrents' /\ torrents'[s].upload = u)
                 <=> (s \in DOMAIN torrents /\ torrents[s].upload = u)
    BY <1>5, <1>9, <2>1
  <2>. QED  BY <1>1, <1>8, <2>1, <2>2, <2>3, ProvidedElsewhere
<1>14. Orderly /\ TypeOK /\ TypeOK'
  BY DEF Inv, Data
<1>. HIDE DEF h
<1>. QED  BY <1>2, <1>3, <1>8, <1>10, <1>11, <1>12, <1>13, <1>14, StepOrderly

LEMMA OrderlyBulkInsertFiles ==
  ASSUME Inv, Data', NEW w \in Workers, bulk_insert_files(w), Undisturbed'
  PROVE  Orderly'
<1>0. PICK h, t : h = req[w].hash /\ t = req[w].torrent
  OBVIOUS
<1>1. /\ req[w].at = "files" /\ UNCHANGED counts /\ uploads' = uploads
      /\ stripped' = stripped /\ refused' = refused /\ disk' = disk
  BY DEF bulk_insert_files
<1>2. /\ about(req[w]) = {h} /\ req[w].at # "idle" /\ req[w] \in Uploading
  BY <1>0, <1>1, AtWork
<1>3. Undisturbed /\ InHand(req[w])
  BY <1>1 DEF counts, Undisturbed, Inv, Orderly
<1>4. /\ t \in DOMAIN torrents /\ torrents[t].hash = h /\ torrents[t].files = 0
      /\ torrents[t].upload = None /\ disk[path(t)] = torrents[t].content
  BY <1>0, <1>1, <1>3 DEF InHand, Has, with_hash, OnDisk
<1>5. PICK r : /\ Becomes(w, r) /\ about(r) \subseteq {h}
               /\ \/ /\ r.at = "attach" /\ r.hash = h /\ r.torrent = t
                     /\ r.upload = req[w].upload /\ r.upload # None
                  \/ r.at = "idle" /\ req[w].upload = None
  <2>1. CASE req[w].upload # None
    <3>1. Goto(w, "attach")
      BY <1>0, <1>4, <2>1 DEF bulk_insert_files
    <3>. DEFINE r == [req[w] EXCEPT !.at = "attach"]
    <3>2. Becomes(w, r)
      BY <1>2, <3>1, GoesOn DEF Inv
    <3>3. about(r) = {h} /\ r.at = "attach" /\ r.hash = h /\ r.torrent = t
          /\ r.upload = req[w].upload
      BY <1>0, <1>1, AtWork
    <3>. HIDE DEF r
    <3>. QED  BY <2>1, <3>2, <3>3
  <2>2. CASE req[w].upload = None
    <3>1. Becomes(w, Idle)
      BY <1>0, <1>4, <2>2, Finishes DEF bulk_insert_files, Inv
    <3>2. Idle.at = "idle"
      BY DEF Idle
    <3>. QED  BY <2>2, <3>1, <3>2, Subject
  <2>. QED  BY <2>1, <2>2
<1>6. /\ req'[w] = r
      /\ \A v \in Workers \ {w} : req'[v] = req[v] /\ about(req[v]) \cap about(req[w]) = {}
      /\ about(req[w])' \subseteq about(req[w])
  BY <1>1, <1>2, <1>5, Continues
<1>7. torrents' = [torrents EXCEPT ![t].files = @ + 1]
  BY <1>0, <1>4 DEF bulk_insert_files
<1>8. torrents[t] \in Row
  BY <1>4 DEF Inv, TypeOK
<1>9. /\ DOMAIN torrents' = DOMAIN torrents
      /\ torrents'[t] = [torrents[t] EXCEPT !.files = @ + 1]
      /\ \A s \in DOMAIN torrents : s # t => torrents'[s] = torrents[s]
  BY <1>4, <1>7
<1>10. /\ torrents'[t].hash = h /\ torrents'[t].name = torrents[t].name
       /\ torrents'[t].content = torrents[t].content
       /\ torrents'[t].upload = None /\ torrents'[t].files = 1
  BY <1>4, <1>8, <1>9 DEF Row
<1>11. Untouched({h})
  BY <1>1, <1>4, <1>9, <1>10 DEF Untouched
<1>12. Matches(t)'
  BY <1>1, <1>4, <1>10 DEF Matches, OnDisk, path
<1>13. InHand(req[w])'
  BY <1>4, <1>5, <1>6, <1>9, <1>10, <1>12 DEF InHand, Has, with_hash, Matches
<1>14. \A s \in DOMAIN torrents' : torrents'[s].hash = h => Matches(s)'
  <2>1. \A s \in DOMAIN torrents' : torrents'[s].hash = h => s = t
    BY <1>4, <1>9 DEF Inv, Unique
  <2>. QED  BY <1>12, <2>1
<1>15. ASSUME NEW u \in uploads' PROVE Provided(u)'
  <2>1. Provided(u) /\ u # None
    BY <1>1, <1>3, NotNone DEF Inv, Orderly
  <2>2. Replacing(req[w], u)' <=> Replacing(req[w], u)
    BY <1>1, <1>5, <1>6 DEF Replacing
  <2>3. \A s : (s \in DOMAIN torrents' /\ torrents'[s].upload = u)
                 <=> (s \in DOMAIN torrents /\ torrents[s].upload = u)
    BY <1>4, <1>9, <1>10
  <2>. QED  BY <1>1, <1>6, <2>1, <2>2, <2>3, ProvidedElsewhere
<1>16. Orderly /\ TypeOK /\ TypeOK'
  BY DEF Inv, Data
<1>. QED  BY <1>2, <1>3, <1>6, <1>11, <1>13, <1>14, <1>15, <1>16, StepOrderly

LEMMA OrderlyAttach ==
  ASSUME Inv, Data', NEW w \in Workers, attach(w), Undisturbed'
  PROVE  Orderly'
<1>0. PICK h, t, x : h = req[w].hash /\ t = req[w].torrent /\ x = req[w].upload
  OBVIOUS
<1>1. /\ req[w].at = "attach" /\ UNCHANGED counts /\ uploads' = uploads
      /\ stripped' = stripped /\ refused' = refused /\ disk' = disk
      /\ Finish(w)
  BY DEF attach
<1>2. about(req[w]) = {h} /\ req[w].at # "idle" /\ x \in uploads \cup {None}
  BY <1>0, <1>1, AtWork
<1>3. Becomes(w, Idle) /\ about(Idle) \subseteq about(req[w]) /\ Idle.at = "idle"
  BY <1>1, Finishes, Subject DEF Inv, Idle
<1>4. /\ Undisturbed /\ InHand(req[w]) /\ req'[w] = Idle
      /\ \A v \in Workers \ {w} : req'[v] = req[v] /\ about(req[v]) \cap about(req[w]) = {}
      /\ about(req[w])' \subseteq about(req[w])
  BY <1>1, <1>2, <1>3, Continues
<1>5. /\ t \in DOMAIN torrents /\ torrents[t].hash = h /\ Matches(t)
      /\ torrents[t].upload = None
      /\ x # None /\ x \in uploads
  BY <1>0, <1>1, <1>2, <1>4 DEF InHand, Has, with_hash, Matches
<1>6. Replacing(req[w], x)
  BY <1>0, <1>1, <1>5 DEF Replacing
<1>7. /\ torrents_of(x) = {}
      /\ \A v \in Workers : Replacing(req[v], x) => v = w
  BY <1>4, <1>5, <1>6 DEF Inv, Orderly, Provided
<1>8. set_torrent(x, t, {})
  BY <1>0, <1>5, <1>7 DEF attach
<1>9. x \in Ids \cup {None}
  BY <1>5 DEF Inv, TypeOK
<1>10. /\ DOMAIN torrents' = DOMAIN torrents
       /\ \A s \in DOMAIN torrents :
             /\ torrents'[s].hash = torrents[s].hash
             /\ torrents'[s].name = torrents[s].name
             /\ torrents'[s].content = torrents[s].content
             /\ torrents'[s].files = torrents[s].files
             /\ torrents'[s].upload = IF s = t THEN x
                    ELSE IF s \in {} THEN None ELSE torrents[s].upload
  BY <1>8, <1>9, SetTorrent DEF Inv
<1>11. \A s \in DOMAIN torrents : s # t => torrents'[s] = torrents[s]
  <2>1. ASSUME NEW s \in DOMAIN torrents, s # t PROVE torrents'[s] = torrents[s]
    <3>1. torrents'[s] = [torrents[s] EXCEPT !.upload = torrents[s].upload]
      BY <1>8, <2>1 DEF set_torrent
    <3>2. torrents[s] \in Row
      BY DEF Inv, TypeOK
    <3>. QED  BY <3>1, <3>2 DEF Row
  <2>. QED  BY <2>1
<1>12. Untouched({h})
  BY <1>1, <1>5, <1>10, <1>11 DEF Untouched
<1>13. InHand(req[w])'
  BY <1>3, <1>4 DEF InHand
<1>14. \A s \in DOMAIN torrents' : torrents'[s].hash = h => Matches(s)'
  <2>1. Matches(t)'
    BY <1>1, <1>5, <1>10 DEF Matches, OnDisk, path
  <2>2. \A s \in DOMAIN torrents' : torrents'[s].hash = h => s = t
    BY <1>5, <1>10 DEF Inv, Unique
  <2>. QED  BY <2>1, <2>2
<1>15. ASSUME NEW u \in uploads' PROVE Provided(u)'
  <2>1. u \in uploads /\ Provided(u) /\ u # None
    BY <1>1, <1>4, NotNone DEF Inv, Orderly
  <2>2. CASE u = x
    <3>1. torrents_of(u)' = {t}
      BY <1>5, <1>7, <1>10, <2>2 DEF torrents_of
    <3>2. \A v \in Workers : ~ Replacing(req[v], u)'
      <4>. TAKE v \in Workers
      <4>1. CASE v = w
        BY <1>3, <1>4, <4>1 DEF Replacing
      <4>2. CASE v # w
        BY <1>4, <1>7, <2>2, <4>2 DEF Replacing
      <4>. QED  BY <4>1, <4>2
    <3>. QED  BY <3>1, <3>2 DEF Provided
  <2>3. CASE u # x
    <3>1. Replacing(req[w], u)' <=> Replacing(req[w], u)
      BY <1>0, <1>3, <1>4, <2>3 DEF Replacing
    <3>2. \A s : (s \in DOMAIN torrents' /\ torrents'[s].upload = u)
                   <=> (s \in DOMAIN torrents /\ torrents[s].upload = u)
      BY <1>5, <1>10, <2>1, <2>3
    <3>. QED  BY <1>1, <1>4, <2>1, <3>1, <3>2, ProvidedElsewhere
  <2>. QED  BY <2>2, <2>3
<1>16. Orderly /\ TypeOK /\ TypeOK'
  BY DEF Inv, Data
<1>. QED  BY <1>2, <1>4, <1>12, <1>13, <1>14, <1>15, <1>16, StepOrderly

LEMMA OrderlyCommitUpload ==
  ASSUME Inv, Data', NEW w \in Workers, commit_upload(w), Undisturbed'
  PROVE  Orderly'
<1>0. PICK h, t, x : h = req[w].hash /\ t = req[w].torrent /\ x = next_id(uploads)
  OBVIOUS
<1>1. /\ req[w].at = "create_upload" /\ UNCHANGED counts
      /\ refused' = refused /\ disk' = disk
      /\ Finish(w)
  BY DEF commit_upload
<1>2. about(req[w]) = {h} /\ req[w].at # "idle"
  BY <1>0, <1>1, Subject
<1>3. Becomes(w, Idle) /\ about(Idle) \subseteq about(req[w]) /\ Idle.at = "idle"
  BY <1>1, Finishes, Subject DEF Inv, Idle
<1>4. /\ Undisturbed /\ InHand(req[w]) /\ req'[w] = Idle
      /\ \A v \in Workers \ {w} : req'[v] = req[v] /\ about(req[v]) \cap about(req[w]) = {}
      /\ about(req[w])' \subseteq about(req[w])
      /\ \A s \in DOMAIN torrents :
            torrents[s].hash \in about(req[w]) /\ ~ Finishing(req[w], s) => Matches(s)
  BY <1>1, <1>2, <1>3, Continues
<1>5. t \in DOMAIN torrents /\ torrents[t].hash = h
  BY <1>0, <1>1, <1>4 DEF InHand, Has, with_hash
<1>6. Matches(t)
  <2>1. ~ Finishing(req[w], t)
    BY <1>1 DEF Finishing
  <2>. QED  BY <1>2, <1>4, <1>5, <2>1
<1>7. /\ uploads' = uploads \cup {x}
      /\ set_torrent(x, t, {})
      /\ stripped' = stripped \cup loses(x, t)
  BY <1>0, <1>5 DEF commit_upload
<1>8. x \notin uploads /\ x \in Ids /\ x # None
  <2>1. x \notin uploads
    BY <1>0, NextId DEF Inv, TypeOK
  <2>2. x \in Ids
    BY <1>7 DEF Data, TypeOK
  <2>. QED  BY <2>1, <2>2 DEF Ids, None
<1>9. t # None
  BY <1>5, NotNone DEF Inv
<1>10. /\ DOMAIN torrents' = DOMAIN torrents
       /\ \A s \in DOMAIN torrents :
             /\ torrents'[s].hash = torrents[s].hash
             /\ torrents'[s].name = torrents[s].name
             /\ torrents'[s].content = torrents[s].content
             /\ torrents'[s].files = torrents[s].files
             /\ torrents'[s].upload = IF s = t THEN x
                    ELSE IF s \in {} THEN None ELSE torrents[s].upload
  BY <1>7, <1>8, SetTorrent DEF Inv
<1>11. \A s \in DOMAIN torrents : s # t => torrents'[s] = torrents[s]
  <2>1. ASSUME NEW s \in DOMAIN torrents, s # t PROVE torrents'[s] = torrents[s]
    <3>1. torrents'[s] = [torrents[s] EXCEPT !.upload = torrents[s].upload]
      BY <1>7, <2>1 DEF set_torrent
    <3>2. torrents[s] \in Row
      BY DEF Inv, TypeOK
    <3>. QED  BY <3>1, <3>2 DEF Row
  <2>. QED  BY <2>1
<1>12. Untouched({h})
  BY <1>1, <1>5, <1>10, <1>11 DEF Untouched
<1>13. InHand(req[w])'
  BY <1>3, <1>4 DEF InHand
<1>14. \A s \in DOMAIN torrents' : torrents'[s].hash = h => Matches(s)'
  <2>1. Matches(t)'
    BY <1>1, <1>5, <1>6, <1>10 DEF Matches, OnDisk, path
  <2>2. \A s \in DOMAIN torrents' : torrents'[s].hash = h => s = t
    BY <1>5, <1>10 DEF Inv, Unique
  <2>. QED  BY <2>1, <2>2
<1>15. ASSUME NEW u \in uploads' PROVE Provided(u)'
  <2>1. CASE u = x
    <3>1. \A s \in DOMAIN torrents : torrents[s].upload # x
      BY <1>8 DEF Inv, Referring
    <3>2. torrents_of(u)' = {t}
      BY <1>5, <1>10, <2>1, <3>1 DEF torrents_of
    <3>3. \A v \in Workers : ~ Replacing(req[v], u)'
      <4>. TAKE v \in Workers
      <4>1. CASE v = w
        BY <1>3, <1>4, <4>1 DEF Replacing
      <4>2. CASE v # w
        <5>1. ASSUME Replacing(req[v], u) PROVE FALSE
          <6>1. req[v] \in Uploading /\ req[v].upload = u
            BY <5>1, InUploading, InvData DEF Replacing
          <6>. QED  BY <1>8, <2>1, <6>1 DEF Inv, Referring
        <5>. QED  BY <1>4, <4>2, <5>1 DEF Replacing
      <4>. QED  BY <4>1, <4>2
    <3>. QED  BY <3>2, <3>3 DEF Provided
  <2>2. CASE u # x
    <3>1. u \in uploads /\ Provided(u) /\ u # None
      BY <1>4, <1>7, <2>2, NotNone DEF Inv, Orderly
    <3>2. CASE u = torrents[t].upload
      <4>1. t \in torrents_of(u) /\ \A s \in torrents_of(u) : s = t
        BY <1>5, <3>1, <3>2 DEF torrents_of, Provided
      <4>2. torrents_of(u)' = {}
        BY <1>10, <2>2, <4>1 DEF torrents_of
      <4>3. \A v \in Workers : ~ Replacing(req[v], u)
        BY <3>1, <4>1 DEF Provided
      <4>4. \A v \in Workers : ~ Replacing(req[v], u)'
        <5>. TAKE v \in Workers
        <5>1. CASE v = w
          BY <1>3, <1>4, <5>1 DEF Replacing
        <5>2. CASE v # w
          BY <1>4, <4>3, <5>2 DEF Replacing
        <5>. QED  BY <5>1, <5>2
      <4>5. u \in stripped'
        BY <1>7, <1>9, <2>2, <3>1, <3>2 DEF loses
      <4>. QED  BY <4>2, <4>4, <4>5 DEF Provided
    <3>3. CASE u # torrents[t].upload
      <4>1. Replacing(req[w], u)' <=> Replacing(req[w], u)
        BY <1>1, <1>3, <1>4 DEF Replacing
      <4>2. \A s : (s \in DOMAIN torrents' /\ torrents'[s].upload = u)
                     <=> (s \in DOMAIN torrents /\ torrents[s].upload = u)
        BY <1>5, <1>10, <2>2, <3>3
      <4>3. stripped \subseteq stripped' /\ refused \subseteq refused'
        BY <1>1, <1>7
      <4>. QED  BY <1>4, <3>1, <4>1, <4>2, <4>3, ProvidedElsewhere
    <3>. QED  BY <3>2, <3>3
  <2>. QED  BY <2>1, <2>2
<1>16. Orderly /\ TypeOK /\ TypeOK'
  BY DEF Inv, Data
<1>. QED  BY <1>2, <1>4, <1>12, <1>13, <1>14, <1>15, <1>16, StepOrderly

LEMMA OrderlyCommitInfohash ==
  ASSUME Inv, Data', NEW w \in Workers, commit_infohash(w), Undisturbed'
  PROVE  Orderly'
<1>0. PICK h, k, t, old, x :
        /\ h = req[w].hash /\ k = req[w].other /\ t = req[w].torrent
        /\ old = req[w].old /\ x = req[w].upload
  OBVIOUS
<1>1. /\ req[w].at = "infohash" /\ UNCHANGED counts
      /\ uploads' = uploads /\ refused' = refused /\ disk' = disk
      /\ Finish(w)
  BY DEF commit_infohash
<1>2. about(req[w]) = {h, k} /\ req[w].at # "idle"
  BY <1>0, <1>1, Subject
<1>3. Becomes(w, Idle) /\ about(Idle) \subseteq about(req[w]) /\ Idle.at = "idle"
  BY <1>1, Finishes, Subject DEF Inv, Idle
<1>4. /\ Undisturbed /\ InHand(req[w]) /\ req'[w] = Idle
      /\ \A v \in Workers \ {w} : req'[v] = req[v] /\ about(req[v]) \cap about(req[w]) = {}
      /\ about(req[w])' \subseteq about(req[w])
      /\ \A s \in DOMAIN torrents :
            torrents[s].hash \in about(req[w]) /\ ~ Finishing(req[w], s) => Matches(s)
  BY <1>1, <1>2, <1>3, Continues
<1>5. /\ old \in DOMAIN torrents /\ torrents[old].hash = h /\ torrents[old].upload = x
      /\ x # None /\ h # k
      /\ t # None => t \in DOMAIN torrents /\ torrents[t].hash = k
  BY <1>0, <1>1, <1>4 DEF InHand, Has, with_hash
<1>6. t # old
  BY <1>5, NotNone DEF Inv
<1>7. set_torrent(x, t, {old}) /\ stripped' = stripped \cup loses(x, t)
  BY <1>0, <1>5 DEF commit_infohash
<1>8. x \in uploads /\ x \in Ids
  BY <1>5 DEF Inv, Referring, TypeOK
<1>9. /\ DOMAIN torrents' = DOMAIN torrents
      /\ \A s \in DOMAIN torrents :
            /\ torrents'[s].hash = torrents[s].hash
            /\ torrents'[s].name = torrents[s].name
            /\ torrents'[s].content = torrents[s].content
            /\ torrents'[s].files = torrents[s].files
            /\ torrents'[s].upload = IF s = t THEN x
                   ELSE IF s \in {old} THEN None ELSE torrents[s].upload
  BY <1>7, <1>8, SetTorrent DEF Inv
<1>10. ASSUME NEW s \in DOMAIN torrents, s # t, s # old PROVE torrents'[s] = torrents[s]
  <2>1. torrents'[s] = [torrents[s] EXCEPT !.upload = torrents[s].upload]
    BY <1>7, <1>10 DEF set_torrent
  <2>2. torrents[s] \in Row
    BY DEF Inv, TypeOK
  <2>. QED  BY <2>1, <2>2 DEF Row
<1>11. Untouched({h, k})
  <2>1. \A s \in DOMAIN torrents : torrents[s].hash \notin {h, k} => s # t /\ s # old
    BY <1>5, NotNone DEF Inv
  <2>. QED  BY <1>1, <1>9, <1>10, <2>1 DEF Untouched
<1>12. InHand(req[w])'
  BY <1>3, <1>4 DEF InHand
<1>13. \A s \in DOMAIN torrents' : torrents'[s].hash \in {h, k} => Matches(s)'
  <2>. TAKE s \in DOMAIN torrents'
  <2>1. SUFFICES ASSUME torrents'[s].hash \in {h, k} PROVE Matches(s)'
    OBVIOUS
  <2>2. s \in DOMAIN torrents /\ torrents[s].hash \in {h, k}
    BY <1>9, <2>1
  <2>3. ~ Finishing(req[w], s)
    BY <1>1 DEF Finishing
  <2>4. Matches(s)
    BY <1>2, <1>4, <2>2, <2>3
  <2>. QED  BY <1>1, <1>9, <2>2, <2>4 DEF Matches, OnDisk, path
<1>14. ASSUME NEW u \in uploads, torrents_of(u) # {},
              \A s \in torrents_of(u) : s \notin DOMAIN torrents' \/ torrents'[s].upload # u
       PROVE  \A v \in Workers : ~ Replacing(req[v], u)'
  <2>1. Provided(u)
    BY <1>4 DEF Inv, Orderly
  <2>2. \A v \in Workers : ~ Replacing(req[v], u)
    BY <1>14, <2>1 DEF Provided
  <2>. TAKE v \in Workers
  <2>3. CASE v = w
    BY <1>3, <1>4, <2>3 DEF Replacing
  <2>4. CASE v # w
    BY <1>4, <2>2, <2>4 DEF Replacing
  <2>. QED  BY <2>3, <2>4
<1>15. ASSUME NEW u \in uploads' PROVE Provided(u)'
  <2>1. u \in uploads /\ Provided(u) /\ u # None
    BY <1>1, <1>4, NotNone DEF Inv, Orderly
  <2>2. CASE u = x
    <3>1. old \in torrents_of(u) /\ \A s \in torrents_of(u) : s = old
      BY <1>5, <2>1, <2>2 DEF torrents_of, Provided
    <3>2. torrents_of(u)' = {s \in DOMAIN torrents : s = t}
      BY <1>5, <1>6, <1>9, <2>2, <3>1 DEF torrents_of
    <3>3. \A v \in Workers : ~ Replacing(req[v], u)'
      <4>1. \A s \in torrents_of(u) : torrents'[s].upload # u
        BY <1>5, <1>6, <1>9, <2>2, <3>1
      <4>. QED  BY <1>14, <2>1, <3>1, <4>1
    <3>4. u \in stripped' \/ torrents_of(u)' # {}
      <4>1. CASE t = None
        BY <1>7, <2>2, <4>1 DEF loses
      <4>2. CASE t # None
        BY <1>5, <3>2, <4>2
      <4>. QED  BY <4>1, <4>2
    <3>. QED  BY <3>2, <3>3, <3>4 DEF Provided
  <2>3. CASE u # x /\ t # None /\ u = torrents[t].upload
    <3>1. t \in torrents_of(u) /\ \A s \in torrents_of(u) : s = t
      BY <1>5, <2>1, <2>3 DEF torrents_of, Provided
    <3>2. torrents_of(u)' = {}
      BY <1>5, <1>9, <2>1, <2>3, <3>1 DEF torrents_of
    <3>3. \A v \in Workers : ~ Replacing(req[v], u)'
      <4>1. \A s \in torrents_of(u) : torrents'[s].upload # u
        BY <1>5, <1>9, <2>3, <3>1
      <4>. QED  BY <1>14, <2>1, <3>1, <4>1
    <3>4. u \in stripped'
      BY <1>7, <2>1, <2>3 DEF loses
    <3>. QED  BY <3>2, <3>3, <3>4 DEF Provided
  <2>4. CASE u # x /\ (t = None \/ u # torrents[t].upload)
    <3>1. Replacing(req[w], u)' <=> Replacing(req[w], u)
      BY <1>1, <1>3, <1>4 DEF Replacing
    <3>2. \A s : (s \in DOMAIN torrents' /\ torrents'[s].upload = u)
                   <=> (s \in DOMAIN torrents /\ torrents[s].upload = u)
      <4>. TAKE s
      <4>1. t = None => t \notin DOMAIN torrents
        BY NotNone DEF Inv
      <4>2. CASE s = t
        BY <1>9, <2>4, <4>1, <4>2
      <4>3. CASE s # t /\ s = old
        BY <1>5, <1>9, <2>1, <2>4, <4>3
      <4>4. CASE s # t /\ s # old
        BY <1>9, <4>4
      <4>. QED  BY <4>2, <4>3, <4>4
    <3>3. stripped \subseteq stripped' /\ refused \subseteq refused'
      BY <1>1, <1>7
    <3>. QED  BY <1>4, <2>1, <3>1, <3>2, <3>3, ProvidedElsewhere
  <2>. QED  BY <2>2, <2>3, <2>4
<1>16. Orderly /\ TypeOK /\ TypeOK'
  BY DEF Inv, Data
<1>. QED  BY <1>2, <1>4, <1>11, <1>12, <1>13, <1>15, <1>16, StepOrderly

LEMMA OrderlyCommitFileName ==
  ASSUME Inv, Data', NEW w \in Workers, commit_file_name(w), Undisturbed'
  PROVE  Orderly'
<1>0. PICK h, t : h = req[w].hash /\ t = req[w].torrent
  OBVIOUS
<1>1. /\ req[w].at = "file_name" /\ UNCHANGED counts /\ uploads' = uploads
      /\ stripped' = stripped /\ refused' = refused /\ disk' = disk
      /\ Finish(w)
  BY DEF commit_file_name
<1>2. about(req[w]) = {h} /\ req[w].at # "idle"
  BY <1>0, <1>1, Subject
<1>3. Becomes(w, Idle) /\ about(Idle) \subseteq about(req[w]) /\ Idle.at = "idle"
  BY <1>1, Finishes, Subject DEF Inv, Idle
<1>4. /\ Undisturbed /\ InHand(req[w]) /\ req'[w] = Idle
      /\ \A v \in Workers \ {w} : req'[v] = req[v] /\ about(req[v]) \cap about(req[w]) = {}
      /\ about(req[w])' \subseteq about(req[w])
  BY <1>1, <1>2, <1>3, Continues
<1>5. /\ t \in DOMAIN torrents /\ torrents[t].hash = h
      /\ disk[<<h, req[w].name>>] = torrents[t].content
      /\ torrents[t].files = 1
  BY <1>0, <1>1, <1>4 DEF InHand, Has, with_hash
<1>6. torrents' = [torrents EXCEPT ![t].name = req[w].name]
  BY <1>0, <1>5 DEF commit_file_name
<1>7. torrents[t] \in Row
  BY <1>5 DEF Inv, TypeOK
<1>8. /\ DOMAIN torrents' = DOMAIN torrents
      /\ torrents'[t] = [torrents[t] EXCEPT !.name = req[w].name]
      /\ \A s \in DOMAIN torrents : s # t => torrents'[s] = torrents[s]
  BY <1>5, <1>6
<1>9. /\ torrents'[t].hash = h /\ torrents'[t].name = req[w].name
      /\ torrents'[t].content = torrents[t].content
      /\ torrents'[t].upload = torrents[t].upload /\ torrents'[t].files = 1
  BY <1>5, <1>7, <1>8 DEF Row
<1>10. Untouched({h})
  BY <1>1, <1>5, <1>8, <1>9 DEF Untouched
<1>11. InHand(req[w])'
  BY <1>3, <1>4 DEF InHand
<1>12. \A s \in DOMAIN torrents' : torrents'[s].hash = h => Matches(s)'
  <2>1. Matches(t)'
    BY <1>1, <1>5, <1>9 DEF Matches, OnDisk, path
  <2>2. \A s \in DOMAIN torrents' : torrents'[s].hash = h => s = t
    BY <1>5, <1>8 DEF Inv, Unique
  <2>. QED  BY <2>1, <2>2
<1>13. ASSUME NEW u \in uploads' PROVE Provided(u)'
  <2>1. Provided(u)
    BY <1>1, <1>4 DEF Inv, Orderly
  <2>2. Replacing(req[w], u)' <=> Replacing(req[w], u)
    BY <1>1, <1>3, <1>4 DEF Replacing
  <2>3. \A s : (s \in DOMAIN torrents' /\ torrents'[s].upload = u)
                 <=> (s \in DOMAIN torrents /\ torrents[s].upload = u)
    BY <1>8, <1>9
  <2>. QED  BY <1>1, <1>4, <2>1, <2>2, <2>3, ProvidedElsewhere
<1>14. Orderly /\ TypeOK /\ TypeOK'
  BY DEF Inv, Data
<1>. QED  BY <1>2, <1>4, <1>10, <1>11, <1>12, <1>13, <1>14, StepOrderly
-----------------------------------------------------------------------------
LEMMA OrderlyStep ==
  ASSUME Inv, Data', [Next]_vars
  PROVE  Orderly'
<1>1. SUFFICES ASSUME Undisturbed' PROVE Orderly'
  BY DEF Orderly
<1>2. CASE Next
  <2>1. PICK w \in Workers :
           \/ upload_torrent(w)    \/ delete_existing(w)   \/ delete_fails(w)
           \/ write_file(w)        \/ create_torrent(w)    \/ bulk_insert_files(w)
           \/ attach(w)            \/ create_upload(w)     \/ commit_upload(w)
           \/ edit_infohash(w)     \/ commit_infohash(w)   \/ edit_file_name(w)
           \/ commit_file_name(w)  \/ Abort(w)
    BY <1>2 DEF Next
  <2>2. ~ delete_fails(w) /\ ~ Abort(w)
    <3>1. ASSUME failures < MaxFailures, failures' = failures + 1 PROVE FALSE
      BY <1>1, <3>1, OneFailure DEF Undisturbed, Inv
    <3>. QED  BY <3>1 DEF delete_fails, Abort
  <2>. QED  BY <1>1, <2>1, <2>2, OrderlyUploadTorrent, OrderlyDeleteExisting,
               OrderlyWriteFile, OrderlyCreateTorrent, OrderlyBulkInsertFiles,
               OrderlyAttach, OrderlyCreateUpload, OrderlyCommitUpload,
               OrderlyEditInfohash, OrderlyCommitInfohash, OrderlyEditFileName,
               OrderlyCommitFileName
<1>3. CASE UNCHANGED vars
  <2>. USE <1>3 DEF vars
  <2>1. Apart /\ RowsHold /\ (\A w \in Workers : InHand(req[w])) /\ \A u \in uploads : Provided(u)
    BY <1>1 DEF Inv, Orderly, Undisturbed
  <2>2. Apart'
    BY <2>1 DEF Apart, about
  <2>3. RowsHold'
    BY <2>1 DEF RowsHold, Matches, OnDisk, path, Finishing
  <2>4. ASSUME NEW w \in Workers PROVE InHand(req[w])'
    <3>1. InHand(req[w])
      BY <2>1
    <3>. QED  BY <3>1 DEF InHand, Has, with_hash, OnDisk, path
  <2>5. ASSUME NEW u \in uploads' PROVE Provided(u)'
    <3>1. Provided(u)
      BY <2>1
    <3>. QED  BY <3>1 DEF Provided, torrents_of, Replacing
  <2>. QED  BY <2>2, <2>3, <2>4, <2>5 DEF Orderly
<1>. QED  BY <1>2, <1>3

LEMMA Invariance == Spec => []Inv
<1>1. Inv /\ [Next]_vars => Inv'
  <2>. SUFFICES ASSUME Inv, [Next]_vars PROVE Inv'
    OBVIOUS
  <2>1. Data'
    BY InvData, DataStep
  <2>2. Orderly'
    BY <2>1, OrderlyStep
  <2>. QED  BY <2>1, <2>2 DEF Inv, Data
<1>. QED  BY InitInv, <1>1, PTL DEF Spec

(* Ids that are handed out again stay within what the requests allow for,  *)
(* and no row or request names anything that cannot be there.              *)
THEOREM TypeCorrect == Spec => []TypeOK
<1>1. Inv => TypeOK
  BY DEF Inv
<1>. QED  BY Invariance, <1>1, PTL

(* Once requests have ended of which none about the same torrent overlapped *)
(* and none was cut off, each file on disk is the one its row describes,   *)
(* whatever was uploaded, replaced and renamed, and its files are listed   *)
(* once.                                                                   *)
THEOREM FileOfRow == Spec => []RowMatchesFile
<1>1. Inv => RowMatchesFile
  <2>. SUFFICES ASSUME Inv, Alone, NEW t \in DOMAIN torrents PROVE Matches(t)
    BY DEF RowMatchesFile, Matches, OnDisk
  <2>1. \A w \in Workers : ~ Finishing(req[w], t)
    BY DEF Alone, Settled, Finishing, Idle
  <2>2. RowsHold
    BY DEF Inv, Orderly, Undisturbed, Alone
  <2>. QED  BY <2>1, <2>2 DEF RowsHold
<1>. QED  BY Invariance, <1>1, PTL

(* A replaced torrent's upload gets the one that replaces it: only a       *)
(* request that said so, or a refused one, has left an upload without.     *)
THEOREM UploadSupplied == Spec => []UploadKeepsTorrent
<1>1. Inv => UploadKeepsTorrent
  <2>. SUFFICES ASSUME Inv, Alone, NEW u \in uploads \ (stripped \cup refused)
                PROVE  Cardinality(torrents_of(u)) = 1
    BY DEF UploadKeepsTorrent
  <2>1. Provided(u)
    BY DEF Inv, Orderly, Undisturbed, Alone
  <2>2. \A w \in Workers : ~ Replacing(req[w], u)
    BY DEF Alone, Settled, Replacing, Idle
  <2>3. torrents_of(u) # {} /\ \A s, t \in torrents_of(u) : s = t
    BY <2>1, <2>2 DEF Provided
  <2>4. PICK t \in torrents_of(u) : torrents_of(u) = {t}
    BY <2>3
  <2>. QED  BY <2>4, FS_Singleton
<1>. QED  BY Invariance, <1>1, PTL
=============================================================================
