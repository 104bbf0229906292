---------------------------- MODULE EditsProofs ----------------------------
(***************************************************************************)
(* Proofs about Edits, for every set of workers, columns, values, urls,    *)
(* tags and parts, and any number of requests.                             *)
(***************************************************************************)
EXTENDS Edits, FiniteSetTheorems, WellFoundedInduction, TLAPS

(* The workers with a request under way.                                   *)
Held == {w \in Workers : session[w] # Closed}

Shaped == session = [w \in Workers |-> session[w]]

(* Every commit is that of a request, which then is no longer under way.   *)
Within ==
    /\ IsFiniteSet(Held)
    /\ clock + Cardinality(Held) <= requests

(* No row, and no version, is of a commit still to come.                   *)
Dated ==
    /\ DOMAIN datasets__history \subseteq 1..clock
    /\ \A h \in urls__history : h.time <= clock
    /\ \A h \in links__history : h.time <= clock
    /\ \A h \in parts__history : h.time <= clock
    /\ \A i \in urls : i.made <= clock

(* The first commit is that of the dataset; only a dataset that is there   *)
(* is edited; the tables are what the last commit left.                    *)
Begun ==
    /\ dataset = NoRow <=> clock = 0
    /\ clock = 0 => urls = {} /\ links = {} /\ parts = {}
    /\ clock > 0 => past[clock] = Contents(dataset, urls, links, parts)
    /\ clock > 0 => 1 \in DOMAIN datasets__history
    /\ \A w \in Workers : session[w].at \in {"update", "part", "adding"} => dataset # NoRow

(* Without overlap one request is under way at most, and an edit holds the *)
(* dataset as it is.                                                       *)
Solo ==
    ~overlap =>
        /\ \A v, w \in Held : v = w
        /\ \A w \in Workers : session[w].at = "update" =>
               /\ session[w].row = dataset
               /\ session[w].urls = urls
               /\ session[w].tags = links

Base == TypeOK /\ Shaped /\ Within /\ Dated /\ Begun /\ Solo

Inv == Base /\ HistoryHolds

-----------------------------------------------------------------------------
(* What holds at first.                                                    *)

LEMMA InitInv == EditsAssumption /\ Init => Inv
<1> SUFFICES ASSUME EditsAssumption, Init PROVE Inv
    OBVIOUS
<1> USE DEF Init
<1>1. Held = {}
    BY DEF Held
<1>2. TypeOK
  <2>1. DOMAIN datasets__history = {} /\ Range(datasets__history) = {} /\ DOMAIN past = {}
    BY DEF Range
  <2>2. 0 \in 0 .. MaxRequests /\ 1 .. 0 = {}
    BY DEF EditsAssumption
  <2> QED BY <2>1, <2>2 DEF TypeOK
<1>3. Shaped /\ Dated /\ Begun /\ Solo
    BY <1>1 DEF Shaped, Dated, Begun, Solo, Closed
<1>4. Within
    BY <1>1, FS_EmptySet DEF Within
<1>5. HistoryHolds
    BY DEF HistoryHolds, Reconstructs, FullAtParent
<1> QED BY <1>2, <1>3, <1>4, <1>5 DEF Inv, Base

-----------------------------------------------------------------------------
(* Requests.                                                               *)

(* A step that changes neither the tables nor the histories keeps what     *)
(* they tell of each other.                                                *)
LEMMA NothingWritten ==
    ASSUME Inv, UNCHANGED <<tables, histories, clock, past>>, overlap => overlap',
           overlap' \in BOOLEAN
    PROVE  HistoryHolds'
<1>1. \A t : AsOf(t)' = AsOf(t)
    BY DEF AsOf, upto, last_url, last_link, tables, histories
<1>2. overlap' \/ ~overlap
    OBVIOUS
<1>3. Reconstructs => Reconstructs'
    BY <1>1 DEF Reconstructs
<1>4. FullAtParent => FullAtParent'
    BY DEF FullAtParent, histories
<1> QED BY <1>2, <1>3, <1>4 DEF Inv, HistoryHolds

LEMMA HeldOf ==
    ASSUME Base, NEW w \in Workers, NEW held,
           session' = [session EXCEPT ![w] = held]
    PROVE  /\ session'[w] = held
           /\ \A v \in Workers \ {w} : session'[v] = session[v]
           /\ Shaped'
           /\ held # Closed => Held' = Held \cup {w}
           /\ held = Closed => Held' = Held \ {w}
<1>1. session' = [v \in Workers |-> IF v = w THEN held ELSE session[v]]
    BY DEF Base, Shaped
<1> QED BY <1>1 DEF Shaped, Held

(* A request that is of one of the four kinds may be under way.            *)
Askable(held) ==
    \/ held \in Editing /\ held.at = "update"
    \/ held \in Creating /\ held.at = "create"
    \/ held \in Adding /\ held.at \in {"part", "adding"}

LEMMA TypesHeld ==
    ASSUME TypeOK, NEW w \in Workers, NEW held, Askable(held) \/ held = Closed,
           session'[w] = held,
           \A v \in Workers \ {w} : session'[v] = session[v]
    PROVE  \A v \in Workers :
             \/ session'[v] = Closed
             \/ session'[v].at = "update" /\ session'[v] \in Editing
             \/ session'[v].at = "create" /\ session'[v] \in Creating
             \/ session'[v].at \in {"part", "adding"} /\ session'[v] \in Adding
<1> TAKE v \in Workers
<1>1. CASE v = w
    BY <1>1 DEF Askable
<1>2. CASE v # w
  <2>1. session'[v] = session[v]
    BY <1>2
  <2> QED BY <2>1 DEF TypeOK
<1> QED BY <1>1, <1>2

LEMMA Opens ==
    ASSUME EditsAssumption, Inv, NEW w \in Workers, NEW held, Askable(held),
           Open(w, held),
           held.at # "create" => dataset # NoRow,
           held.at = "update" =>
               held.row = dataset /\ held.urls = urls /\ held.tags = links
    PROVE  Inv'
<1> USE DEF Inv, Base, Open
<1>1. held # Closed
    BY DEF Askable, Closed
<1>2. /\ session'[w] = held
      /\ \A v \in Workers \ {w} : session'[v] = session[v]
      /\ Shaped'
      /\ Held' = Held \cup {w}
    BY <1>1, HeldOf
<1>3. w \notin Held /\ IsFiniteSet(Held)
    BY DEF Held, Within
<1>4. Cardinality(Held') = Cardinality(Held) + 1 /\ IsFiniteSet(Held')
    BY <1>2, <1>3, FS_AddElement
<1>5. /\ clock \in Nat /\ requests \in Nat /\ MaxRequests \in Nat
      /\ Cardinality(Held) \in Nat
    BY <1>3, FS_CardinalityType DEF TypeOK, EditsAssumption
<1>6. Within'
    BY <1>4, <1>5 DEF Within
<1>7. TypeOK'
  <2>1. requests' \in 0 .. MaxRequests
    BY <1>5 DEF TypeOK
  <2>2. overlap' \in BOOLEAN
    BY DEF TypeOK
  <2>3. \A v \in Workers :
          \/ session'[v] = Closed
          \/ session'[v].at = "update" /\ session'[v] \in Editing
          \/ session'[v].at = "create" /\ session'[v] \in Creating
          \/ session'[v].at \in {"part", "adding"} /\ session'[v] \in Adding
    BY <1>2, TypesHeld
  <2>4. /\ dataset' \in {NoRow} \cup Row /\ urls' \subseteq UrlRows /\ links' \subseteq Tags
        /\ parts' \subseteq Parts
    BY DEF TypeOK, tables
  <2>5. /\ DOMAIN datasets__history' \subseteq Times
        /\ Range(datasets__history') \subseteq Row
        /\ urls__history' \subseteq [id : UrlRows, owned : BOOLEAN, time : Times]
        /\ links__history' \subseteq [tag : Tags, deletion : BOOLEAN, time : Times]
        /\ parts__history' \subseteq [part : Parts, time : Times]
    BY DEF TypeOK, histories
  <2>6. clock' \in 0 .. MaxRequests /\ DOMAIN past' = 1 .. clock'
    BY DEF TypeOK
  <2> QED BY <2>1, <2>2, <2>3, <2>4, <2>5, <2>6 DEF TypeOK
<1>8. Dated'
    BY DEF Dated, tables, histories
<1>9. Begun'
  <2>1. \A v \in Workers : session'[v].at \in {"update", "part", "adding"} => dataset' # NoRow
    BY <1>2 DEF Begun, tables
  <2> QED BY <2>1 DEF Begun, tables, histories
<1>10. Solo'
  <2>1. ~overlap' => Held = {} /\ ~overlap
    BY DEF Held
  <2>2. SUFFICES ASSUME Held = {} PROVE Solo'
    BY <2>1 DEF Solo
  <2>3. \A v \in Workers \ {w} : session'[v] = Closed
    BY <1>2, <2>2 DEF Held
  <2>4. \A u, v \in Held' : u = v
    BY <1>2, <2>2
  <2>5. \A v \in Workers : session'[v].at = "update" =>
            /\ session'[v].row = dataset'
            /\ session'[v].urls = urls'
            /\ session'[v].tags = links'
    BY <1>2, <2>3 DEF Closed, tables
  <2> QED BY <2>4, <2>5 DEF Solo
<1>11. HistoryHolds'
    BY <1>7, NothingWritten DEF TypeOK
<1> QED BY <1>2, <1>6, <1>7, <1>8, <1>9, <1>10, <1>11

(* A request that ends, or goes on with what is not there yet, and has     *)
(* written nothing.                                                        *)
LEMMA Waits ==
    ASSUME EditsAssumption, Inv, NEW w \in Workers, NEW held,
           \/ Askable(held) /\ held.at = "adding" /\ session[w] # Closed /\ dataset # NoRow
           \/ held = Closed,
           session' = [session EXCEPT ![w] = held],
           UNCHANGED <<tables, histories, clock, past, requests, overlap>>
    PROVE  Inv'
<1> USE DEF Inv, Base
<1>1. /\ session'[w] = held
      /\ \A v \in Workers \ {w} : session'[v] = session[v]
      /\ Shaped'
    BY HeldOf
<1>2. Held' \subseteq Held
    BY <1>1 DEF Held, Closed
<1>3. /\ IsFiniteSet(Held)
      /\ clock \in Nat /\ requests \in Nat
    BY DEF TypeOK, Within
<1>4. Cardinality(Held') <= Cardinality(Held) /\ IsFiniteSet(Held')
    BY <1>2, <1>3, FS_Subset
<1>5. Within'
  <2>1. Cardinality(Held) \in Nat /\ Cardinality(Held') \in Nat
    BY <1>3, <1>4, FS_CardinalityType
  <2>2. clock + Cardinality(Held) <= requests
    BY DEF Within
  <2>3. clock' + Cardinality(Held') <= requests'
    BY <1>3, <1>4, <2>1, <2>2
  <2> QED BY <1>4, <2>3 DEF Within
<1>6. TypeOK'
  <2>1. \A v \in Workers :
          \/ session'[v] = Closed
          \/ session'[v].at = "update" /\ session'[v] \in Editing
          \/ session'[v].at = "create" /\ session'[v] \in Creating
          \/ session'[v].at \in {"part", "adding"} /\ session'[v] \in Adding
    BY <1>1, TypesHeld
  <2> QED BY <2>1 DEF TypeOK, tables, histories
<1>7. Dated'
    BY DEF Dated, tables, histories
<1>8. Begun'
  <2>1. \A v \in Workers : session'[v].at \in {"update", "part", "adding"} => dataset' # NoRow
    BY <1>1 DEF Begun, tables, Closed
  <2> QED BY <2>1 DEF Begun, tables, histories
<1>9. Solo'
  <2>1. \A v \in Workers : session'[v].at = "update" => session'[v] = session[v]
    BY <1>1 DEF Closed
  <2> QED BY <1>2, <2>1 DEF Solo, tables
<1>10. HistoryHolds'
    BY NothingWritten DEF TypeOK
<1> QED BY <1>1, <1>5, <1>6, <1>7, <1>8, <1>9, <1>10

-----------------------------------------------------------------------------
(* Commits.                                                                *)

(* What a commit adds to the histories: versions with its own time, of the *)
(* dataset if rows says so, and of urls, tags and parts.                   *)
Records(row, hu, hl, hp) ==
    /\ hu \subseteq [id : UrlRows, owned : BOOLEAN, time : {now}]
    /\ hl \subseteq [tag : Tags, deletion : BOOLEAN, time : {now}]
    /\ hp \subseteq [part : Parts, time : {now}]
    /\ \/ row = NoRow /\ UNCHANGED datasets__history
       \/ row \in Row /\ datasets__history' = create_version(row)
    /\ urls__history' = urls__history \cup hu
    /\ links__history' = links__history \cup hl
    /\ parts__history' = parts__history \cup hp

LEMMA RoomForCommit ==
    ASSUME EditsAssumption, Base, NEW w \in Workers, session[w] # Closed
    PROVE  now \in Times /\ now <= MaxRequests /\ now \in Nat \ {0} /\ clock \in Nat /\ now = clock + 1
<1>1. Held # {} /\ IsFiniteSet(Held)
    BY DEF Held, Base, Within
<1>2. Cardinality(Held) \in Nat /\ Cardinality(Held) # 0
    BY <1>1, FS_CardinalityType, FS_EmptySet
<1>3. clock \in Nat /\ requests \in 0 .. MaxRequests /\ MaxRequests \in Nat
    BY DEF Base, TypeOK, EditsAssumption
<1>4. clock + Cardinality(Held) <= requests
    BY DEF Base, Within
<1> QED BY <1>2, <1>3, <1>4 DEF now, Times

(* What with_now makes of a table that has rows for the times so far.      *)
LEMMA WithNow ==
    ASSUME NEW f, NEW row, clock \in Nat, DOMAIN f \subseteq 1 .. clock
    PROVE  /\ DOMAIN with_now(f, row) = DOMAIN f \cup {now}
           /\ with_now(f, row)[now] = row
           /\ \A t \in DOMAIN f : t # now /\ with_now(f, row)[t] = f[t]
    BY DEF with_now, now

LEMMA CommitBase ==
    ASSUME EditsAssumption, Base, NEW w \in Workers, session[w] # Closed, Commit(w),
           NEW row, NEW hu, NEW hl, NEW hp, Records(row, hu, hl, hp),
           dataset' \in Row, urls' \subseteq UrlRows, links' \subseteq Tags, parts' \subseteq Parts,
           \A i \in urls' : i.made <= now,
           row = NoRow => dataset # NoRow
    PROVE  Base'
<1> USE DEF Base, Commit
<1>1. /\ now \in Times /\ now <= MaxRequests /\ now \in Nat \ {0}
      /\ clock \in Nat /\ now = clock + 1
    BY RoomForCommit
<1>2. session' = [session EXCEPT ![w] = Closed]
    BY DEF Close
<1>3. /\ session'[w] = Closed
      /\ \A v \in Workers \ {w} : session'[v] = session[v]
      /\ Shaped'
      /\ Held' = Held \ {w}
    BY <1>2, HeldOf
<1>4. Within'
  <2>1. IsFiniteSet(Held) /\ w \in Held
    BY DEF Within, Held
  <2>2. IsFiniteSet(Held') /\ Cardinality(Held') = Cardinality(Held) - 1
    BY <1>3, <2>1, FS_RemoveElement
  <2>3. Cardinality(Held) \in Nat /\ requests \in Nat
    BY <2>1, FS_CardinalityType DEF TypeOK
  <2>4. clock + Cardinality(Held) <= requests /\ requests' = requests /\ clock' = clock + 1
    BY <1>1 DEF Within, Close
  <2> QED BY <1>1, <2>2, <2>3, <2>4 DEF Within
<1>5. DOMAIN past = 1 .. clock /\ DOMAIN datasets__history \subseteq 1 .. clock
    BY DEF TypeOK, Dated
<1>6. past' = with_now(past, Contents(dataset', urls', links', parts'))
    OBVIOUS
<1>7. DOMAIN past' = 1 .. now /\ past'[now] = Contents(dataset', urls', links', parts')
  <2>1. 1 .. now = (1 .. clock) \cup {now}
    BY <1>1
  <2>2. PICK left : left = Contents(dataset', urls', links', parts')
    OBVIOUS
  <2>3. past' = with_now(past, left) /\ DOMAIN past \subseteq 1 .. clock
    BY <1>5, <1>6, <2>2
  <2>4. DOMAIN with_now(past, left) = DOMAIN past \cup {now} /\ with_now(past, left)[now] = left
    BY <1>1, <2>3, WithNow
  <2> QED BY <1>5, <2>1, <2>2, <2>3, <2>4
<1>8. clock' = now
    OBVIOUS
<1>9. DOMAIN datasets__history' \subseteq 1 .. now /\ Range(datasets__history') \subseteq Row
  <2>0. Range(datasets__history) \subseteq Row /\ 1 .. clock \subseteq 1 .. now /\ now \in 1 .. now
    BY <1>1 DEF TypeOK
  <2>1. CASE row \in Row /\ datasets__history' = create_version(row)
    <3>1. datasets__history' = with_now(datasets__history, row)
      BY <2>1 DEF create_version
    <3>2. DOMAIN datasets__history' = DOMAIN datasets__history \cup {now}
      BY <1>1, <1>5, <3>1, WithNow
    <3>3. \A t \in DOMAIN datasets__history' : datasets__history'[t] \in Row
      <4>1. datasets__history'[now] = row
        BY <1>1, <1>5, <3>1, WithNow
      <4>2. \A t \in DOMAIN datasets__history : datasets__history'[t] = datasets__history[t]
        BY <1>1, <1>5, <3>1 DEF with_now
      <4> QED BY <2>0, <2>1, <3>2, <4>1, <4>2 DEF Range
    <3> QED BY <1>5, <2>0, <3>2, <3>3 DEF Range
  <2>2. CASE UNCHANGED datasets__history
    BY <1>5, <2>0, <2>2
  <2> QED BY <2>1, <2>2 DEF Records
<1>10. TypeOK'
  <2>1. \A v \in Workers :
          \/ session'[v] = Closed
          \/ session'[v].at = "update" /\ session'[v] \in Editing
          \/ session'[v].at = "create" /\ session'[v] \in Creating
          \/ session'[v].at \in {"part", "adding"} /\ session'[v] \in Adding
    BY <1>3, TypesHeld
  <2>2. clock' \in 0 .. MaxRequests /\ DOMAIN past' = 1 .. clock'
    BY <1>1, <1>7, <1>8 DEF EditsAssumption
  <2>3. requests' \in 0 .. MaxRequests /\ overlap' \in BOOLEAN
    BY DEF Close, TypeOK
  <2>4. DOMAIN datasets__history' \subseteq Times
    BY <1>1, <1>9 DEF Times, EditsAssumption
  <2>5. urls__history' \subseteq [id : UrlRows, owned : BOOLEAN, time : Times]
    BY <1>1 DEF Records, TypeOK, UrlRows
  <2>6. links__history' \subseteq [tag : Tags, deletion : BOOLEAN, time : Times]
    BY <1>1 DEF Records, TypeOK
  <2>7. parts__history' \subseteq [part : Parts, time : Times]
    BY <1>1 DEF Records, TypeOK
  <2> QED BY <1>9, <2>1, <2>2, <2>3, <2>4, <2>5, <2>6, <2>7 DEF TypeOK
<1>11. Dated'
  <2>1. \A h \in urls__history' : h.time <= now
    <3> SUFFICES ASSUME NEW h \in urls__history' PROVE h.time <= now
        OBVIOUS
    <3>1. CASE h \in urls__history
      <4>1. h.time <= clock /\ h.time \in Nat
        BY <3>1 DEF Dated, TypeOK, Times
      <4> QED BY <1>1, <4>1
    <3>2. CASE h \in hu
      <4>1. h.time = now
        BY <3>2 DEF Records
      <4> QED BY <1>1, <4>1
    <3> QED BY <3>1, <3>2 DEF Records
  <2>2. \A h \in links__history' : h.time <= now
    <3> SUFFICES ASSUME NEW h \in links__history' PROVE h.time <= now
        OBVIOUS
    <3>1. CASE h \in links__history
      <4>1. h.time <= clock /\ h.time \in Nat
        BY <3>1 DEF Dated, TypeOK, Times
      <4> QED BY <1>1, <4>1
    <3>2. CASE h \in hl
      <4>1. h.time = now
        BY <3>2 DEF Records
      <4> QED BY <1>1, <4>1
    <3> QED BY <3>1, <3>2 DEF Records
  <2>3. \A h \in parts__history' : h.time <= now
    <3> SUFFICES ASSUME NEW h \in parts__history' PROVE h.time <= now
        OBVIOUS
    <3>1. CASE h \in parts__history
      <4>1. h.time <= clock /\ h.time \in Nat
        BY <3>1 DEF Dated, TypeOK, Times
      <4> QED BY <1>1, <4>1
    <3>2. CASE h \in hp
      <4>1. h.time = now
        BY <3>2 DEF Records
      <4> QED BY <1>1, <4>1
    <3> QED BY <3>1, <3>2 DEF Records
  <2> QED BY <1>8, <1>9, <2>1, <2>2, <2>3 DEF Dated
<1>12. Begun'
  <2>1. dataset' # NoRow
    BY DEF EditsAssumption, Row
  <2>2. clock' # 0 /\ clock' > 0
    BY <1>1, <1>8
  <2>3. 1 \in DOMAIN datasets__history'
    <3>1. CASE UNCHANGED datasets__history /\ row = NoRow
      BY <1>1, <3>1 DEF Begun
    <3>2. CASE datasets__history' = create_version(row)
      <4>1. DOMAIN datasets__history' = DOMAIN datasets__history \cup {now}
        BY <1>1, <1>5, <3>2 DEF create_version, with_now
      <4>2. now = 1 \/ clock > 0
        BY <1>1
      <4> QED BY <4>1, <4>2 DEF Begun
    <3> QED BY <3>1, <3>2 DEF Records
  <2> QED BY <1>7, <1>8, <2>1, <2>2, <2>3 DEF Begun
<1>13. Solo'
  <2>1. SUFFICES ASSUME ~overlap' PROVE Solo'
    BY DEF Solo
  <2>2. \A u, v \in Held : u = v
    BY <2>1 DEF Solo, Close
  <2>3. w \in Held
    BY DEF Held
  <2>4. Held' = {}
    BY <1>3, <2>2, <2>3
  <2>5. \A v \in Workers : session'[v].at # "update"
    BY <2>4 DEF Held, Closed
  <2> QED BY <2>4, <2>5 DEF Solo
<1> QED BY <1>3, <1>4, <1>10, <1>11, <1>12, <1>13

-----------------------------------------------------------------------------
(* Reading the histories.                                                  *)

UrlsAsOf(t) ==
    {i \in {h.id : h \in {k \in urls__history : k.time <= t}} : last_url(t, i).owned}

TagsAsOf(t) ==
    {g \in {h.tag : h \in {k \in links__history : k.time <= t}} : ~last_link(t, g).deletion}

RowAsOf(t) == datasets__history[Max(upto(t, DOMAIN datasets__history))]

PartsAsOf(t) == {h.part : h \in {k \in parts__history : k.time <= t}}

(* Versions added at a later time leave what was read before as it was,    *)
(* and are the last ones from then on, if there is one of each url.        *)
LEMMA UrlsRead ==
    ASSUME clock \in Nat, \A h \in urls__history : h.time \in Nat /\ h.time <= clock,
           NEW hu, \A h \in hu : h.time = now,
           \A g, h \in hu : g.id = h.id => g = h,
           urls__history' = urls__history \cup hu,
           NEW t \in Nat
    PROVE  /\ t <= clock => UrlsAsOf(t)' = UrlsAsOf(t)
           /\ t = now => UrlsAsOf(t)' = (UrlsAsOf(clock) \ {h.id : h \in hu})
                                          \cup {h.id : h \in {k \in hu : k.owned}}
<1> USE DEF now
<1>1. ASSUME t <= clock PROVE UrlsAsOf(t)' = UrlsAsOf(t)
  <2>1. {k \in urls__history' : k.time <= t} = {k \in urls__history : k.time <= t}
    BY <1>1
  <2>2. \A i : {k \in urls__history' : k.id = i /\ k.time <= t}
                 = {k \in urls__history : k.id = i /\ k.time <= t}
    BY <1>1
  <2>3. \A i : last_url(t, i)' = last_url(t, i)
    BY <2>2 DEF last_url
  <2> QED BY <2>1, <2>3 DEF UrlsAsOf
<1>2. ASSUME t = now
      PROVE  UrlsAsOf(t)' = (UrlsAsOf(clock) \ {h.id : h \in hu})
                              \cup {h.id : h \in {k \in hu : k.owned}}
  <2>1. {k \in urls__history' : k.time <= t} = {k \in urls__history : k.time <= clock} \cup hu
    BY <1>2
  <2>2. ASSUME NEW h \in hu PROVE last_url(t, h.id)' = h
    <3> DEFINE hs == {k \in urls__history' : k.id = h.id /\ k.time <= t}
    <3>1. h \in hs /\ \A g \in hs : g.time <= h.time
      BY <1>2
    <3>2. ASSUME NEW g \in hs, \A k \in hs : k.time <= g.time PROVE g = h
      BY <1>2, <3>1, <3>2
    <3>3. last_url(t, h.id)' = CHOOSE g \in hs : \A k \in hs : k.time <= g.time
      BY DEF last_url
    <3> HIDE DEF hs
    <3> QED BY <3>1, <3>2, <3>3
  <2>3. ASSUME NEW i, i \notin {h.id : h \in hu} PROVE last_url(t, i)' = last_url(clock, i)
    <3>1. {k \in urls__history' : k.id = i /\ k.time <= t}
            = {k \in urls__history : k.id = i /\ k.time <= clock}
      BY <1>2, <2>3
    <3> QED BY <3>1 DEF last_url
  <2>4. UrlsAsOf(t)' = {i \in {h.id : h \in {k \in urls__history : k.time <= clock} \cup hu} :
                          last_url(t, i)'.owned}
    BY <2>1 DEF UrlsAsOf
  <2>5. \A i : i \in UrlsAsOf(t)' <=>
            \/ i \in UrlsAsOf(clock) /\ i \notin {h.id : h \in hu}
            \/ \E h \in hu : h.id = i /\ h.owned
    <3> TAKE i
    <3>1. CASE i \in {h.id : h \in hu}
      <4>1. PICK h \in hu : h.id = i
        BY <3>1
      <4>2. last_url(t, i)' = h
        BY <2>2, <4>1
      <4>3. i \in UrlsAsOf(t)' <=> h.owned
        BY <2>4, <4>1, <4>2
      <4>4. (\E g \in hu : g.id = i /\ g.owned) <=> h.owned
        BY <4>1
      <4> QED BY <3>1, <4>3, <4>4
    <3>2. CASE i \notin {h.id : h \in hu}
      <4>1. last_url(t, i)' = last_url(clock, i)
        BY <2>3, <3>2
      <4>2. i \in UrlsAsOf(clock) <=>
              /\ i \in {h.id : h \in {k \in urls__history : k.time <= clock}}
              /\ last_url(clock, i).owned
        BY DEF UrlsAsOf
      <4> QED BY <2>4, <3>2, <4>1, <4>2
    <3> QED BY <3>1, <3>2
  <2> QED BY <2>5
<1> QED BY <1>1, <1>2

LEMMA TagsRead ==
    ASSUME clock \in Nat, \A h \in links__history : h.time \in Nat /\ h.time <= clock,
           NEW hl, \A h \in hl : h.time = now,
           \A g, h \in hl : g.tag = h.tag => g = h,
           links__history' = links__history \cup hl,
           NEW t \in Nat
    PROVE  /\ t <= clock => TagsAsOf(t)' = TagsAsOf(t)
           /\ t = now => TagsAsOf(t)' = (TagsAsOf(clock) \ {h.tag : h \in hl})
                                          \cup {h.tag : h \in {k \in hl : ~k.deletion}}
<1> USE DEF now
<1>1. ASSUME t <= clock PROVE TagsAsOf(t)' = TagsAsOf(t)
  <2>1. {k \in links__history' : k.time <= t} = {k \in links__history : k.time <= t}
    BY <1>1
  <2>2. \A g : {k \in links__history' : k.tag = g /\ k.time <= t}
                 = {k \in links__history : k.tag = g /\ k.time <= t}
    BY <1>1
  <2>3. \A g : last_link(t, g)' = last_link(t, g)
    BY <2>2 DEF last_link
  <2> QED BY <2>1, <2>3 DEF TagsAsOf
<1>2. ASSUME t = now
      PROVE  TagsAsOf(t)' = (TagsAsOf(clock) \ {h.tag : h \in hl})
                              \cup {h.tag : h \in {k \in hl : ~k.deletion}}
  <2>1. {k \in links__history' : k.time <= t} = {k \in links__history : k.time <= clock} \cup hl
    BY <1>2
  <2>2. ASSUME NEW h \in hl PROVE last_link(t, h.tag)' = h
    <3> DEFINE hs == {k \in links__history' : k.tag = h.tag /\ k.time <= t}
    <3>1. h \in hs /\ \A g \in hs : g.time <= h.time
      BY <1>2
    <3>2. ASSUME NEW g \in hs, \A k \in hs : k.time <= g.time PROVE g = h
      BY <1>2, <3>1, <3>2
    <3>3. last_link(t, h.tag)' = CHOOSE g \in hs : \A k \in hs : k.time <= g.time
      BY DEF last_link
    <3> HIDE DEF hs
    <3> QED BY <3>1, <3>2, <3>3
  <2>3. ASSUME NEW i, i \notin {h.tag : h \in hl} PROVE last_link(t, i)' = last_link(clock, i)
    <3>1. {k \in links__history' : k.tag = i /\ k.time <= t}
            = {k \in links__history : k.tag = i /\ k.time <= clock}
      BY <1>2, <2>3
    <3> QED BY <3>1 DEF last_link
  <2>4. TagsAsOf(t)' = {i \in {h.tag : h \in {k \in links__history : k.time <= clock} \cup hl} :
                          ~last_link(t, i)'.deletion}
    BY <2>1 DEF TagsAsOf
  <2>5. \A i : i \in TagsAsOf(t)' <=>
            \/ i \in TagsAsOf(clock) /\ i \notin {h.tag : h \in hl}
            \/ \E h \in hl : h.tag = i /\ ~h.deletion
    <3> TAKE i
    <3>1. CASE i \in {h.tag : h \in hl}
      <4>1. PICK h \in hl : h.tag = i
        BY <3>1
      <4>2. last_link(t, i)' = h
        BY <2>2, <4>1
      <4>3. i \in TagsAsOf(t)' <=> ~h.deletion
        BY <2>4, <4>1, <4>2
      <4>4. (\E g \in hl : g.tag = i /\ ~g.deletion) <=> ~h.deletion
        BY <4>1
      <4> QED BY <3>1, <4>3, <4>4
    <3>2. CASE i \notin {h.tag : h \in hl}
      <4>1. last_link(t, i)' = last_link(clock, i)
        BY <2>3, <3>2
      <4>2. i \in TagsAsOf(clock) <=>
              /\ i \in {h.tag : h \in {k \in links__history : k.time <= clock}}
              /\ ~last_link(clock, i).deletion
        BY DEF TagsAsOf
      <4> QED BY <2>4, <3>2, <4>1, <4>2
    <3> QED BY <3>1, <3>2
  <2> QED BY <2>5
<1> QED BY <1>1, <1>2

LEMMA PartsRead ==
    ASSUME clock \in Nat, \A h \in parts__history : h.time \in Nat /\ h.time <= clock,
           NEW hp, \A h \in hp : h.time = now,
           parts__history' = parts__history \cup hp,
           NEW t \in Nat
    PROVE  /\ t <= clock => PartsAsOf(t)' = PartsAsOf(t)
           /\ t = now => PartsAsOf(t)' = PartsAsOf(clock) \cup {h.part : h \in hp}
<1> USE DEF now
<1>1. t <= clock => {k \in parts__history' : k.time <= t} = {k \in parts__history : k.time <= t}
    OBVIOUS
<1>2. t = now => {k \in parts__history' : k.time <= t}
                   = {k \in parts__history : k.time <= clock} \cup hp
    OBVIOUS
<1> QED BY <1>1, <1>2 DEF PartsAsOf

LEMMA Least ==
  ASSUME NEW S \in SUBSET Nat, S # {}
  PROVE  \E x \in S : \A y \in S : x <= y
<1>. DEFINE R == OpToRel(<, Nat)
<1>1. PICK x \in S : \A y \in S : ~ (<<y, x>> \in R)
  BY WFMin, NatLessThanWellFounded
<1>2. \A y \in S : ~ (y < x)
  BY <1>1 DEF OpToRel
<1>. QED  BY <1>2

(* A set of numbers with a bound has a greatest one, and Max finds it.     *)
LEMMA MaxOfBounded ==
  ASSUME NEW S \in SUBSET Nat, S # {}, NEW n \in Nat, \A x \in S : x <= n
  PROVE  /\ Max(S) \in S
         /\ \A y \in S : y <= Max(S)
<1>. DEFINE T == {n - x : x \in S}
<1>1. T \in SUBSET Nat /\ T # {}
  <2>1. \A x \in S : n - x \in Nat
    OBVIOUS
  <2>. QED  BY <2>1
<1>2. PICK m \in S : \A y \in S : n - m <= n - y
  <2>1. PICK t \in T : \A u \in T : t <= u
    BY <1>1, Least
  <2>2. PICK m \in S : t = n - m
    OBVIOUS
  <2>. QED  BY <2>1, <2>2
<1>3. \A y \in S : m >= y
  <2>. TAKE y \in S
  <2>1. y \in Nat /\ m \in Nat /\ n - m <= n - y
    BY <1>2
  <2>. QED  BY <2>1
<1>. QED  BY <1>3 DEF Max

(* The row of the dataset is that of its last version.                     *)
LEMMA RowRead ==
    ASSUME clock \in Nat, DOMAIN datasets__history \subseteq 1 .. clock, NEW row,
           clock > 0 => 1 \in DOMAIN datasets__history,
           UNCHANGED datasets__history \/ datasets__history' = create_version(row),
           NEW t \in Nat \ {0}
    PROVE  /\ t <= clock => RowAsOf(t)' = RowAsOf(t)
           /\ t = now /\ datasets__history' = create_version(row) => RowAsOf(t)' = row
           /\ t = now /\ UNCHANGED datasets__history => RowAsOf(t)' = RowAsOf(clock)
<1> DEFINE D == DOMAIN datasets__history
<1>0. now = clock + 1
    BY DEF now
<1>1. ASSUME UNCHANGED datasets__history, t <= clock PROVE RowAsOf(t)' = RowAsOf(t)
    BY <1>1 DEF RowAsOf, upto
<1>2. ASSUME UNCHANGED datasets__history, t = now PROVE RowAsOf(t)' = RowAsOf(clock)
  <2>1. upto(t, D) = upto(clock, D)
    BY <1>0, <1>2 DEF upto
  <2> QED BY <1>2, <2>1 DEF RowAsOf
<1>3. ASSUME datasets__history' = create_version(row)
      PROVE  /\ t <= clock => RowAsOf(t)' = RowAsOf(t)
             /\ t = now => RowAsOf(t)' = row
  <2>1. datasets__history' = [s \in D \cup {now} |-> IF s = now THEN row ELSE datasets__history[s]]
    BY <1>3 DEF create_version, with_now
  <2>2. DOMAIN datasets__history' = D \cup {now}
    BY <2>1
  <2>3. ASSUME t <= clock PROVE RowAsOf(t)' = RowAsOf(t)
    <3>1. upto(t, D \cup {now}) = upto(t, D)
      BY <1>0, <2>3 DEF upto
    <3>2. Max(upto(t, D)) \in upto(t, D)
      <4>1. upto(t, D) \in SUBSET Nat /\ 1 \in upto(t, D) /\ \A s \in upto(t, D) : s <= t
        BY <2>3 DEF upto
      <4> QED BY <4>1, MaxOfBounded
    <3>3. Max(upto(t, D)) \in D /\ Max(upto(t, D)) # now
      BY <1>0, <2>3, <3>2 DEF upto
    <3> QED BY <2>1, <2>2, <3>1, <3>3 DEF RowAsOf
  <2>4. ASSUME t = now PROVE RowAsOf(t)' = row
    <3>1. upto(t, D \cup {now}) = D \cup {now}
      BY <1>0, <2>4 DEF upto
    <3>2. Max(D \cup {now}) = now
      <4>1. \A s \in D \cup {now} : now >= s /\ s \in Nat
        BY <1>0
      <4>2. \A s \in D \cup {now} : (\A r \in D \cup {now} : s >= r) => s = now
        BY <4>1, <1>0
      <4> QED BY <4>1, <4>2 DEF Max
    <3> QED BY <2>1, <2>2, <3>1, <3>2 DEF RowAsOf
  <2> QED BY <2>3, <2>4
<1> QED BY <1>1, <1>2, <1>3

LEMMA AsOfParts ==
    \A t : AsOf(t) = Contents(RowAsOf(t), UrlsAsOf(t), TagsAsOf(t), PartsAsOf(t))
    BY DEF AsOf, Contents, RowAsOf, UrlsAsOf, TagsAsOf, PartsAsOf

(* Before a commit, the histories tell what the tables hold.               *)
LEMMA ReadNow ==
    ASSUME EditsAssumption, Inv, ~overlap
    PROVE  /\ UrlsAsOf(clock) = urls /\ TagsAsOf(clock) = links /\ PartsAsOf(clock) = parts
           /\ clock > 0 => RowAsOf(clock) = dataset
<1>0. clock \in Nat /\ (clock = 0 \/ clock > 0)
    BY DEF Inv, Base, TypeOK
<1>1. CASE clock = 0
  <2>1. urls = {} /\ links = {} /\ parts = {}
    BY <1>1 DEF Inv, Base, Begun
  <2>2. \A t \in Times : ~ (t <= clock)
    BY <1>1 DEF Times, EditsAssumption
  <2>3. /\ \A h \in urls__history : h.time \in Times /\ h.time <= clock
        /\ \A h \in links__history : h.time \in Times /\ h.time <= clock
        /\ \A h \in parts__history : h.time \in Times /\ h.time <= clock
    BY DEF Inv, Base, Dated, TypeOK
  <2>4. urls__history = {} /\ links__history = {} /\ parts__history = {}
    BY <2>2, <2>3
  <2> QED BY <1>1, <2>1, <2>4 DEF UrlsAsOf, TagsAsOf, PartsAsOf
<1>2. CASE clock > 0
  <2>1. clock \in DOMAIN past
    BY <1>0, <1>2 DEF Inv, Base, TypeOK
  <2>2. AsOf(clock) = Contents(dataset, urls, links, parts)
    BY <1>2, <2>1 DEF Inv, Base, Begun, HistoryHolds, Reconstructs
  <2>3. Contents(RowAsOf(clock), UrlsAsOf(clock), TagsAsOf(clock), PartsAsOf(clock))
          = Contents(dataset, urls, links, parts)
    BY <2>2, AsOfParts
  <2> QED BY <2>3 DEF Contents
<1> QED BY <1>0, <1>1, <1>2

(* What a set of versions is of.                                           *)
Ids(hu) == {h.id : h \in hu}
Owned(hu) == {h.id : h \in {k \in hu : k.owned}}
TagsOf(hl) == {h.tag : h \in hl}
Linked(hl) == {h.tag : h \in {k \in hl : ~k.deletion}}
PartsOf(hp) == {h.part : h \in hp}

OneOfEachUrl(hu) == \A g, h \in hu : g.id = h.id => g = h
OneOfEachTag(hl) == \A g, h \in hl : g.tag = h.tag => g = h

(* Where there are any, they are of all that the commit leaves.            *)
FullSet(hu, hl) ==
    /\ hu = {} \/ Owned(hu) = urls'
    /\ hl = {} \/ Linked(hl) = links'

(* A commit whose versions are one of each object, and tell how the commit *)
(* changes the tables, keeps the histories readable both ways.             *)
LEMMA CommitHistory ==
    ASSUME EditsAssumption, Inv, ~overlap,
           NEW w \in Workers, session[w] # Closed, Commit(w),
           NEW row, NEW hu, NEW hl, NEW hp, Records(row, hu, hl, hp),
           OneOfEachUrl(hu),
           OneOfEachTag(hl),
           urls' = (urls \ Ids(hu)) \cup Owned(hu),
           links' = (links \ TagsOf(hl)) \cup Linked(hl),
           parts' = parts \cup PartsOf(hp),
           row = NoRow => dataset' = dataset /\ dataset # NoRow,
           row # NoRow => row = dataset' /\ FullSet(hu, hl)
    PROVE  (Reconstructs /\ FullAtParent)'
<1>1. /\ now \in Times /\ now <= MaxRequests /\ now \in Nat \ {0}
      /\ clock \in Nat /\ now = clock + 1
    BY RoomForCommit DEF Inv
<1>2. /\ clock \in Nat
      /\ DOMAIN past = 1 .. clock
      /\ DOMAIN datasets__history \subseteq 1 .. clock
      /\ \A h \in urls__history : h.time \in Nat /\ h.time <= clock
      /\ \A h \in links__history : h.time \in Nat /\ h.time <= clock
      /\ \A h \in parts__history : h.time \in Nat /\ h.time <= clock
    BY DEF Inv, Base, TypeOK, Dated, Times
<1>3. /\ \A h \in hu : h.time = now
      /\ \A h \in hl : h.time = now
      /\ \A h \in hp : h.time = now
    BY DEF Records
<1>4. PICK left : left = Contents(dataset', urls', links', parts')
    OBVIOUS
<1>5. past' = with_now(past, left)
    BY <1>4 DEF Commit
<1>6. /\ DOMAIN past' = (1 .. clock) \cup {now} /\ past'[now] = left
      /\ \A t \in 1 .. clock : past'[t] = past[t] /\ t # now
    BY <1>1, <1>2, <1>5 DEF with_now
<1>7. \A t \in Nat : /\ t <= clock => UrlsAsOf(t)' = UrlsAsOf(t)
                     /\ t = now => UrlsAsOf(t)' = urls'
  <2>1. urls__history' = urls__history \cup hu
    BY DEF Records
  <2> QED BY <1>2, <1>3, <2>1, UrlsRead, ReadNow DEF Ids, Owned, OneOfEachUrl
<1>8. \A t \in Nat : /\ t <= clock => TagsAsOf(t)' = TagsAsOf(t)
                     /\ t = now => TagsAsOf(t)' = links'
  <2>1. links__history' = links__history \cup hl
    BY DEF Records
  <2> QED BY <1>2, <1>3, <2>1, TagsRead, ReadNow DEF TagsOf, Linked, OneOfEachTag
<1>9. \A t \in Nat : /\ t <= clock => PartsAsOf(t)' = PartsAsOf(t)
                     /\ t = now => PartsAsOf(t)' = parts'
  <2>1. parts__history' = parts__history \cup hp
    BY DEF Records
  <2> QED BY <1>2, <1>3, <2>1, PartsRead, ReadNow DEF PartsOf
<1>10. \A t \in Nat \ {0} : /\ t <= clock => RowAsOf(t)' = RowAsOf(t)
                            /\ t = now => RowAsOf(t)' = dataset'
  <2>1. clock > 0 => 1 \in DOMAIN datasets__history
    BY DEF Inv, Base, Begun
  <2>2. CASE row = NoRow /\ UNCHANGED datasets__history
    <3>1. clock > 0 /\ dataset' = dataset
      BY <1>1, <2>2 DEF Inv, Base, Begun
    <3> QED BY <1>2, <2>1, <2>2, <3>1, RowRead, ReadNow
  <2>3. CASE row \in Row /\ datasets__history' = create_version(row)
    <3>1. row = dataset'
      BY <2>3 DEF EditsAssumption, Row
    <3> QED BY <1>2, <2>1, <2>3, <3>1, RowRead
  <2> QED BY <2>2, <2>3 DEF Records
<1>11. Reconstructs'
  <2>1. SUFFICES ASSUME NEW t \in DOMAIN past' PROVE AsOf(t)' = past'[t]
    BY DEF Reconstructs
  <2>2. AsOf(t)' = Contents(RowAsOf(t)', UrlsAsOf(t)', TagsAsOf(t)', PartsAsOf(t)')
    BY DEF AsOf, Contents, RowAsOf, UrlsAsOf, TagsAsOf, PartsAsOf
  <2>3. CASE t \in 1 .. clock
    <3>1. t \in Nat \ {0} /\ t <= clock
      BY <1>1, <2>3
    <3>2. AsOf(t)' = AsOf(t)
      BY <1>7, <1>8, <1>9, <1>10, <2>2, <3>1, AsOfParts
    <3>3. AsOf(t) = past[t]
      BY <1>2, <2>3 DEF Inv, HistoryHolds, Reconstructs
    <3> QED BY <1>6, <2>3, <3>2, <3>3
  <2>4. CASE t = now
    BY <1>1, <1>4, <1>6, <1>7, <1>8, <1>9, <1>10, <2>2, <2>4
  <2> QED BY <1>6, <2>3, <2>4
<1>12. FullAtParent'
  <2> DEFINE Hu(t) == {h \in urls__history : h.time = t}
             Hl(t) == {h \in links__history : h.time = t}
  <2>1. SUFFICES ASSUME NEW t \in DOMAIN datasets__history'
                 PROVE  /\ Hu(t)' = {} \/ {h.id : h \in {k \in Hu(t)' : k.owned}} = past'[t].urls
                        /\ Hl(t)' = {} \/ {h.tag : h \in {k \in Hl(t)' : ~k.deletion}} = past'[t].tags
    BY DEF FullAtParent
  <2>2. /\ urls__history' = urls__history \cup hu
        /\ links__history' = links__history \cup hl
    BY DEF Records
  <2>3. CASE t \in DOMAIN datasets__history
    <3>1. t \in 1 .. clock /\ t # now
      BY <1>1, <1>2, <2>3
    <3>2. Hu(t)' = Hu(t) /\ Hl(t)' = Hl(t)
      BY <1>3, <2>2, <3>1
    <3>3. /\ Hu(t) = {} \/ {h.id : h \in {k \in Hu(t) : k.owned}} = past[t].urls
          /\ Hl(t) = {} \/ {h.tag : h \in {k \in Hl(t) : ~k.deletion}} = past[t].tags
      BY <2>3 DEF Inv, HistoryHolds, FullAtParent
    <3>4. past'[t] = past[t]
      BY <1>6, <3>1
    <3> QED BY <3>2, <3>3, <3>4
  <2>4. CASE t \notin DOMAIN datasets__history
    <3>1. row # NoRow /\ t = now
      BY <2>4, <1>1 DEF Records, create_version, with_now, EditsAssumption, Row
    <3>2. \A h \in urls__history : h.time # now
      BY <1>1, <1>2
    <3>3. \A h \in links__history : h.time # now
      BY <1>1, <1>2
    <3>4. Hu(t)' = hu /\ Hl(t)' = hl
      BY <1>3, <2>2, <3>1, <3>2, <3>3
    <3>5. past'[t].urls = urls' /\ past'[t].tags = links'
      BY <1>4, <1>6, <3>1 DEF Contents
    <3> QED BY <3>1, <3>4, <3>5 DEF FullSet, Owned, Linked
  <2> QED BY <2>3, <2>4
<1> QED BY <1>11, <1>12

-----------------------------------------------------------------------------
(* The operations.                                                         *)

(* The versions of a commit, by the objects they are of: those that are    *)
(* there then, and those that are gone.                                    *)
UrlsThen(there, gone, at) ==
    [id : there, owned : {TRUE}, time : {at}] \cup [id : gone, owned : {FALSE}, time : {at}]

LinksThen(there, gone, at) ==
    [tag : there, deletion : {FALSE}, time : {at}] \cup [tag : gone, deletion : {TRUE}, time : {at}]

PartsThen(ps, at) == [part : ps, time : {at}]

LEMMA UrlVersions ==
    ASSUME NEW A, NEW B, A \cap B = {}, NEW at, NEW hu,
           hu = UrlsThen(A, B, at)
    PROVE  /\ Ids(hu) = A \cup B
           /\ Owned(hu) = A
           /\ OneOfEachUrl(hu)
<1>1. \A i \in A : \E h \in hu : h.id = i /\ h.owned
  <2> TAKE i \in A
  <2>1. [id |-> i, owned |-> TRUE, time |-> at] \in hu
    BY DEF UrlsThen
  <2> QED BY <2>1
<1>2. \A i \in B : \E h \in hu : h.id = i
  <2> TAKE i \in B
  <2>1. [id |-> i, owned |-> FALSE, time |-> at] \in hu
    BY DEF UrlsThen
  <2> QED BY <2>1
<1>3. \A h \in hu : \/ h.id \in A /\ h = [id |-> h.id, owned |-> TRUE, time |-> at]
                    \/ h.id \in B /\ h = [id |-> h.id, owned |-> FALSE, time |-> at]
  <2> TAKE h \in hu
  <2>1. CASE h \in [id : A, owned : {TRUE}, time : {at}]
    BY <2>1
  <2>2. CASE h \in [id : B, owned : {FALSE}, time : {at}]
    BY <2>2
  <2>3. h \in [id : A, owned : {TRUE}, time : {at}] \/ h \in [id : B, owned : {FALSE}, time : {at}]
    BY DEF UrlsThen
  <2> QED BY <2>1, <2>2, <2>3, Zenon
<1>4. \A h \in hu : h.owned => h.id \in A
    BY <1>3
<1>5. Ids(hu) = A \cup B
    BY <1>1, <1>2, <1>3 DEF Ids
<1>6. Owned(hu) = A
    BY <1>1, <1>4 DEF Owned
<1>7. OneOfEachUrl(hu)
    BY <1>3 DEF OneOfEachUrl
<1> QED BY <1>5, <1>6, <1>7

LEMMA LinkVersions ==
    ASSUME NEW A, NEW B, A \cap B = {}, NEW at, NEW hl,
           hl = LinksThen(A, B, at)
    PROVE  /\ TagsOf(hl) = A \cup B
           /\ Linked(hl) = A
           /\ OneOfEachTag(hl)
<1>1. \A i \in A : \E h \in hl : h.tag = i /\ ~h.deletion
  <2> TAKE i \in A
  <2>1. [tag |-> i, deletion |-> FALSE, time |-> at] \in hl
    BY DEF LinksThen
  <2> QED BY <2>1
<1>2. \A i \in B : \E h \in hl : h.tag = i
  <2> TAKE i \in B
  <2>1. [tag |-> i, deletion |-> TRUE, time |-> at] \in hl
    BY DEF LinksThen
  <2> QED BY <2>1
<1>3. \A h \in hl : \/ h.tag \in A /\ h = [tag |-> h.tag, deletion |-> FALSE, time |-> at]
                    \/ h.tag \in B /\ h = [tag |-> h.tag, deletion |-> TRUE, time |-> at]
  <2> TAKE h \in hl
  <2>1. CASE h \in [tag : A, deletion : {FALSE}, time : {at}]
    BY <2>1
  <2>2. CASE h \in [tag : B, deletion : {TRUE}, time : {at}]
    BY <2>2
  <2>3. h \in [tag : A, deletion : {FALSE}, time : {at}] \/ h \in [tag : B, deletion : {TRUE}, time : {at}]
    BY DEF LinksThen
  <2> QED BY <2>1, <2>2, <2>3, Zenon
<1>4. \A h \in hl : ~h.deletion => h.tag \in A
    BY <1>3
<1>5. TagsOf(hl) = A \cup B
    BY <1>1, <1>2, <1>3 DEF TagsOf
<1>6. Linked(hl) = A
    BY <1>1, <1>4 DEF Linked
<1>7. OneOfEachTag(hl)
    BY <1>3 DEF OneOfEachTag
<1> QED BY <1>5, <1>6, <1>7

LEMMA PartVersions ==
    ASSUME NEW ps, NEW at, NEW hp, hp = PartsThen(ps, at)
    PROVE  PartsOf(hp) = ps
<1>1. \A p \in ps : \E h \in hp : h.part = p
  <2> TAKE p \in ps
  <2>1. [part |-> p, time |-> at] \in hp
    BY DEF PartsThen
  <2> QED BY <2>1
<1>2. \A h \in hp : h.part \in ps
    BY DEF PartsThen
<1> QED BY <1>1, <1>2 DEF PartsOf

LEMMA RollBackInv ==
    ASSUME EditsAssumption, Inv, NEW w \in Workers, RollBack(w)
    PROVE  Inv'
    BY Waits DEF RollBack, Close

LEMMA CommitInv ==
    ASSUME EditsAssumption, Inv, NEW w \in Workers, session[w] # Closed, Commit(w),
           Base', ~overlap => (Reconstructs /\ FullAtParent)'
    PROVE  Inv'
<1>1. overlap' = overlap
    BY DEF Commit, Close
<1> QED BY <1>1 DEF Inv, HistoryHolds

LEMMA CreateInv ==
    ASSUME EditsAssumption, Inv, NEW w \in Workers, create_dataset(w)
    PROVE  Inv'
<1>1. CASE dataset # NoRow
    BY <1>1, RollBackInv DEF create_dataset
<1>2. CASE dataset = NoRow
  <2>1. PICK s : s = session[w]
    OBVIOUS
  <2>2. s \in Creating /\ session[w] # Closed
    BY <2>1 DEF create_dataset, Inv, Base, TypeOK, Closed
  <2>3. s.row \in Row /\ s.urls \subseteq Urls /\ s.tags \subseteq Tags /\ s.tags # {}
        /\ s.parts \subseteq Parts
    BY <2>2 DEF Creating
  <2>4. PICK made : made = new_urls(s.urls)
    OBVIOUS
  <2>5. PICK hu, hl, hp : /\ hu = url_versions(made, TRUE)
                          /\ hl = _update_many_to_many({}, s.tags, {})
                          /\ hp = PartsThen(s.parts, now)
    OBVIOUS
  <2>6. /\ dataset' = s.row /\ urls' = urls \cup made /\ links' = s.tags /\ parts' = s.parts
        /\ datasets__history' = create_version(s.row)
        /\ urls__history' = urls__history \cup hu
        /\ links__history' = links__history \cup hl
        /\ parts__history' = parts__history \cup hp
        /\ Commit(w)
    BY <1>2, <2>1, <2>4, <2>5 DEF create_dataset, PartsThen
  <2>7. clock = 0 /\ urls = {} /\ links = {} /\ parts = {}
    BY <1>2 DEF Inv, Base, Begun
  <2>8. now \in Times /\ now \in Nat /\ now <= now
    BY <2>2, RoomForCommit DEF Inv
  <2>9. made \subseteq UrlRows /\ \A i \in made : i.made = now
    BY <2>3, <2>4, <2>8 DEF new_urls, UrlRows
  <2>10. /\ hu \subseteq [id : UrlRows, owned : BOOLEAN, time : {now}]
         /\ Ids(hu) = made
         /\ Owned(hu) = made
         /\ OneOfEachUrl(hu)
    <3>0. PICK none : none = {}
      OBVIOUS
    <3>1. hu = UrlsThen(made, none, now)
      BY <2>5, <3>0 DEF url_versions, UrlsThen
    <3>2. hu \subseteq [id : UrlRows, owned : BOOLEAN, time : {now}]
      BY <2>9, <3>0, <3>1 DEF UrlsThen
    <3>3. Ids(hu) = made
      <4>1. Ids(hu) = made \cup none
        BY <3>0, <3>1, UrlVersions
      <4> QED BY <3>0, <4>1
    <3>4. Owned(hu) = made
      BY <3>0, <3>1, UrlVersions
    <3>5. OneOfEachUrl(hu)
      BY <3>0, <3>1, UrlVersions
    <3> QED BY <3>2, <3>3, <3>4, <3>5
  <2>11. hl = [tag : s.tags, deletion : {FALSE}, time : {now}]
    BY <2>3, <2>5 DEF _update_many_to_many
  <2>12. /\ hl \subseteq [tag : Tags, deletion : BOOLEAN, time : {now}]
         /\ TagsOf(hl) = s.tags
         /\ Linked(hl) = s.tags
         /\ OneOfEachTag(hl)
    <3>0. PICK none : none = {}
      OBVIOUS
    <3>1. hl = LinksThen(s.tags, none, now)
      BY <2>11, <3>0 DEF LinksThen
    <3>2. hl \subseteq [tag : Tags, deletion : BOOLEAN, time : {now}]
      BY <2>3, <2>11
    <3>3. TagsOf(hl) = s.tags
      <4>1. TagsOf(hl) = s.tags \cup none
        BY <3>0, <3>1, LinkVersions
      <4> QED BY <3>0, <4>1
    <3>4. Linked(hl) = s.tags
      BY <3>0, <3>1, LinkVersions
    <3>5. OneOfEachTag(hl)
      BY <3>0, <3>1, LinkVersions
    <3> QED BY <3>2, <3>3, <3>4, <3>5
  <2>13. hp \subseteq [part : Parts, time : {now}] /\ PartsOf(hp) = s.parts
    BY <2>3, <2>5, PartVersions DEF PartsThen
  <2>14. Records(s.row, hu, hl, hp)
    BY <2>3, <2>6, <2>10, <2>12, <2>13 DEF Records
  <2>15. s.row # NoRow
    BY <2>3 DEF EditsAssumption, Row
  <2>16. Base'
    BY <2>2, <2>3, <2>6, <2>7, <2>8, <2>9, <2>14, <2>15, CommitBase DEF Inv
  <2>17. ASSUME ~overlap PROVE (Reconstructs /\ FullAtParent)'
    <3>1. /\ OneOfEachUrl(hu)
          /\ urls' = (urls \ Ids(hu)) \cup Owned(hu)
          /\ hu = {} \/ Owned(hu) = urls'
      BY <2>6, <2>7, <2>10
    <3>2. /\ OneOfEachTag(hl)
          /\ links' = (links \ TagsOf(hl)) \cup Linked(hl)
          /\ hl = {} \/ Linked(hl) = links'
      BY <2>6, <2>7, <2>12
    <3>3. parts' = parts \cup PartsOf(hp)
      BY <2>6, <2>7, <2>13
    <3>4. s.row = dataset'
      BY <2>6
    <3>5. FullSet(hu, hl)
      BY <3>1, <3>2 DEF FullSet
    <3>6. PICK row : row = s.row /\ row # NoRow
      BY <2>15
    <3>7. Records(row, hu, hl, hp) /\ row = dataset' /\ Commit(w) /\ session[w] # Closed
      BY <2>2, <2>6, <2>14, <3>4, <3>6
    <3> QED BY <2>17, <3>1, <3>2, <3>3, <3>5, <3>6, <3>7, CommitHistory
  <2> QED BY <2>2, <2>6, <2>16, <2>17, CommitInv
<1> QED BY <1>1, <1>2

LEMMA PartsInv ==
    ASSUME EditsAssumption, Inv, NEW w \in Workers, commit_parts(w)
    PROVE  Inv'
<1>1. PICK ps : ps = session[w].parts
    OBVIOUS
<1>2. CASE ps = {} \/ ps \cap parts # {}
    BY <1>1, <1>2, RollBackInv DEF commit_parts
<1>3. CASE ~ (ps = {} \/ ps \cap parts # {})
  <2>1. PICK hp : hp = PartsThen(ps, now)
    OBVIOUS
  <2>2. /\ parts' = parts \cup ps
        /\ parts__history' = parts__history \cup hp
        /\ UNCHANGED <<dataset, urls, links, datasets__history, urls__history, links__history>>
        /\ Commit(w)
    BY <1>1, <1>3, <2>1 DEF commit_parts, PartsThen
  <2>3. session[w] # Closed /\ ps \subseteq Parts /\ dataset # NoRow
    BY <1>1 DEF commit_parts, Inv, Base, TypeOK, Closed, Adding, Begun
  <2>4. hp \subseteq [part : Parts, time : {now}] /\ PartsOf(hp) = ps
    BY <2>1, <2>3, PartVersions DEF PartsThen
  <2>5. PICK none : none = {}
    OBVIOUS
  <2>11. Records(NoRow, none, none, hp)
    BY <2>2, <2>4, <2>5 DEF Records
  <2>6. now \in Nat /\ now = clock + 1 /\ clock \in Nat
    BY <2>3, RoomForCommit DEF Inv
  <2>7. \A i \in urls' : i.made <= now
    <3>1. \A i \in urls : i.made <= clock /\ i.made \in Nat
      BY DEF Inv, Base, Dated, TypeOK, UrlRows, Times
    <3> QED BY <2>2, <2>6, <3>1
  <2>8. dataset' \in Row /\ urls' \subseteq UrlRows /\ links' \subseteq Tags /\ parts' \subseteq Parts
    BY <2>2, <2>3 DEF Inv, Base, TypeOK
  <2>9. Base'
    BY <2>2, <2>3, <2>11, <2>7, <2>8, CommitBase DEF Inv
  <2>10. ASSUME ~overlap PROVE (Reconstructs /\ FullAtParent)'
    <3>1. /\ OneOfEachUrl(none) /\ OneOfEachTag(none)
          /\ Ids(none) = {} /\ Owned(none) = {} /\ TagsOf(none) = {} /\ Linked(none) = {}
      BY <2>5 DEF OneOfEachUrl, OneOfEachTag, Ids, Owned, TagsOf, Linked
    <3>2. urls' = (urls \ Ids(none)) \cup Owned(none) /\ links' = (links \ TagsOf(none)) \cup Linked(none)
      BY <2>2, <3>1
    <3>3. parts' = parts \cup PartsOf(hp) /\ dataset' = dataset
      BY <2>2, <2>4
    <3> QED BY <2>2, <2>3, <2>10, <2>11, <3>1, <3>2, <3>3, CommitHistory
  <2> QED BY <2>2, <2>3, <2>9, <2>10, CommitInv
<1> QED BY <1>2, <1>3

LEMMA UpdateInv ==
    ASSUME EditsAssumption, Inv, NEW w \in Workers, update(w)
    PROVE  Inv'
<1>1. PICK s : s = session[w]
    OBVIOUS
<1>2. CASE conflicts(s) \/ ~_check_if_changed(s)
    BY <1>1, <1>2, RollBackInv DEF update
<1>3. CASE ~ (conflicts(s) \/ ~_check_if_changed(s))
  <2>1. s \in Editing /\ session[w] # Closed /\ session[w].at = "update"
    BY <1>1 DEF update, Inv, Base, TypeOK, Closed
  <2>2. /\ s.row \in Row /\ s.urls \subseteq UrlRows /\ s.tags \subseteq Tags
        /\ s.patch \in Patch
    BY <2>1 DEF Editing
  <2>3. PICK seen, made, gone, unchanged, added, deleted, kept :
          /\ seen = [c \in Columns |-> IF c \in DOMAIN s.patch.columns
                                       THEN s.patch.columns[c] ELSE s.row[c]]
          /\ made = new_urls(urls_added(s))
          /\ gone = urls_removed(s)
          /\ unchanged = s.urls \ gone
          /\ added = tags_added(s)
          /\ deleted = tags_deleted(s)
          /\ kept = s.tags \ deleted
    OBVIOUS
  <2>4. PICK hu, hl :
          /\ hu = UNION {url_versions(made, TRUE), url_versions(gone, FALSE),
                         _update_one_to_many(unchanged, made, gone)}
          /\ hl = _update_many_to_many(kept, added, deleted)
    OBVIOUS
  <2>0. /\ hu = UNION {url_versions(made, TRUE), url_versions(gone, FALSE),
                        _update_one_to_many(unchanged, made, gone)}
        /\ urls__history' = UNION {urls__history, url_versions(made, TRUE), url_versions(gone, FALSE),
                                   _update_one_to_many(unchanged, made, gone)}
    BY <1>1, <1>3, <2>3, <2>4 DEF update
  <2>5. /\ dataset' = [c \in Columns |->
                         IF c \in changed_columns(s) THEN seen[c] ELSE dataset[c]]
        /\ urls' = (urls \ gone) \cup made
        /\ links' = (links \ deleted) \cup added
        /\ datasets__history' = create_version(seen)
        /\ urls__history' = urls__history \cup hu
        /\ links__history' = links__history \cup hl
        /\ UNCHANGED <<parts, parts__history>>
        /\ Commit(w)
    <3>1. urls__history' = urls__history \cup hu
      BY <2>0
    <3> QED BY <1>1, <1>3, <2>3, <2>4, <3>1 DEF update
  <2>6. /\ now \in Times /\ now \in Nat /\ now = clock + 1 /\ clock \in Nat
    BY <2>1, RoomForCommit DEF Inv
  <2>7. dataset # NoRow /\ dataset \in Row
    BY <2>1 DEF Inv, Base, Begun, TypeOK
  <2>8. s.patch.columns \in UNION {[cs -> Values] : cs \in SUBSET Columns}
        /\ s.patch.urls \in {NotSet} \cup SUBSET Urls
        /\ s.patch.tags \in {NotSet} \cup ((SUBSET Tags) \ {{}})
    BY <2>2 DEF Patch
  <2>9. \A c \in DOMAIN s.patch.columns : c \in Columns /\ s.patch.columns[c] \in Values
    BY <2>8
  <2>10. seen \in Row
    BY <2>2, <2>3, <2>9 DEF Row
  <2>11. dataset' \in Row
    BY <2>5, <2>7, <2>10 DEF Row
  <2>12. made \subseteq UrlRows /\ \A i \in made : i.made = now
    <3>1. urls_added(s) \subseteq Urls
      BY <2>8 DEF urls_added
    <3> QED BY <2>3, <2>6, <3>1 DEF new_urls, UrlRows
  <2>13. gone \subseteq s.urls /\ unchanged \subseteq s.urls
    BY <2>3 DEF urls_removed
  <2>14. added \subseteq Tags /\ deleted \subseteq Tags /\ kept \subseteq Tags
    BY <2>2, <2>3, <2>8 DEF tags_added, tags_deleted
  <2>15. added \cap deleted = {} /\ kept \cap deleted = {} /\ added \cap s.tags = {}
    BY <2>3 DEF tags_added, tags_deleted
  <2>16. added \cup deleted # {} => kept \cup added # {}
    <3>1. ASSUME s.patch.tags # NotSet PROVE kept \cup added = s.patch.tags
      BY <2>3, <3>1 DEF tags_added, tags_deleted
    <3>2. s.patch.tags = NotSet => added \cup deleted = {}
      BY <2>3 DEF tags_added, tags_deleted
    <3> QED BY <2>8, <3>1, <3>2
  <2>17. hu \subseteq [id : UrlRows, owned : BOOLEAN, time : {now}]
    <3>1. gone \subseteq UrlRows /\ unchanged \subseteq UrlRows
      BY <2>2, <2>13
    <3>2. \A ids \in SUBSET UrlRows, is \in BOOLEAN :
            url_versions(ids, is) \subseteq [id : UrlRows, owned : BOOLEAN, time : {now}]
      BY DEF url_versions
    <3>3. url_versions(made, TRUE) \subseteq [id : UrlRows, owned : BOOLEAN, time : {now}]
      BY <2>12, <3>2
    <3>4. url_versions(gone, FALSE) \subseteq [id : UrlRows, owned : BOOLEAN, time : {now}]
      BY <3>1, <3>2
    <3>5. _update_one_to_many(unchanged, made, gone) \subseteq [id : UrlRows, owned : BOOLEAN, time : {now}]
      BY <3>1, <3>2 DEF _update_one_to_many
    <3> QED BY <2>0, <3>3, <3>4, <3>5
  <2>18. hl \subseteq [tag : Tags, deletion : BOOLEAN, time : {now}]
    BY <2>4, <2>14 DEF _update_many_to_many
  <2>26. PICK hp : hp = {}
    OBVIOUS
  <2>19. Records(seen, hu, hl, hp)
    BY <2>26, <2>5, <2>10, <2>17, <2>18 DEF Records
  <2>20. \A i \in urls : i.made <= clock /\ i.made \in Nat
    BY DEF Inv, Base, Dated, TypeOK, UrlRows, Times
  <2>21. \A i \in urls' : i.made <= now
    <3>1. \A i \in urls : i.made <= now
      BY <2>6, <2>20
    <3> QED BY <2>5, <2>6, <2>12, <3>1
  <2>22. urls' \subseteq UrlRows /\ links' \subseteq Tags /\ parts' \subseteq Parts
    BY <2>5, <2>12, <2>14 DEF Inv, Base, TypeOK
  <2>23. seen # NoRow
    BY <2>10 DEF EditsAssumption, Row
  <2>24. Base'
    BY <2>1, <2>5, <2>11, <2>19, <2>21, <2>22, <2>23, CommitBase DEF Inv
  <2>25. ASSUME ~overlap PROVE (Reconstructs /\ FullAtParent)'
    <3>1. s.row = dataset /\ s.urls = urls /\ s.tags = links
      BY <1>1, <2>1, <2>25 DEF Inv, Base, Solo
    <3>2. seen = dataset'
      <4>1. \A c \in Columns : seen[c] = dataset'[c]
        BY <2>3, <2>5, <3>1 DEF changed_columns
      <4> QED BY <2>10, <2>11, <4>1 DEF Row
    <3>3. made \cap urls = {}
      BY <2>6, <2>12, <2>20
    <3>4. hu = IF made \cup gone = {} THEN {}
               ELSE [id : made \cup unchanged, owned : {TRUE}, time : {now}]
                      \cup [id : gone, owned : {FALSE}, time : {now}]
      <4>1. hu = UNION {[id : made, owned : {TRUE}, time : {now}],
                        [id : gone, owned : {FALSE}, time : {now}],
                        IF made \cup gone = {} THEN {}
                        ELSE [id : unchanged, owned : {TRUE}, time : {now}]}
        BY <2>4 DEF url_versions, _update_one_to_many
      <4>2. CASE made \cup gone = {}
        BY <4>1, <4>2
      <4>3. CASE made \cup gone # {}
        <5>1. [id : made \cup unchanged, owned : {TRUE}, time : {now}]
                = [id : made, owned : {TRUE}, time : {now}]
                    \cup [id : unchanged, owned : {TRUE}, time : {now}]
          OBVIOUS
        <5> QED BY <4>1, <4>3, <5>1
      <4> QED BY <4>2, <4>3
    <3>5. unchanged = urls \ gone /\ gone \subseteq urls
      BY <2>3, <2>13, <3>1
    <3>6. urls' = made \cup unchanged
      BY <2>5, <3>5
    <3>7. /\ OneOfEachUrl(hu)
          /\ urls' = (urls \ Ids(hu)) \cup Owned(hu)
          /\ hu = {} \/ Owned(hu) = urls'
      <4>1. CASE made \cup gone = {}
        <5>1. hu = {} /\ urls' = urls
          BY <3>4, <3>5, <3>6, <4>1
        <5> QED BY <5>1 DEF Ids, Owned, OneOfEachUrl
      <4>2. CASE made \cup gone # {}
        <5>1. hu = UrlsThen(urls', gone, now)
          BY <3>4, <3>6, <4>2 DEF UrlsThen
        <5>2. urls' \cap gone = {}
          BY <3>3, <3>5, <3>6
        <5>3. OneOfEachUrl(hu)
          BY <5>1, <5>2, UrlVersions
        <5>4. Owned(hu) = urls'
          BY <5>1, <5>2, UrlVersions
        <5>5. Ids(hu) = urls' \cup gone
          BY <5>1, <5>2, UrlVersions
        <5>6. urls \subseteq urls' \cup gone
          BY <3>5, <3>6
        <5> QED BY <5>3, <5>4, <5>5, <5>6
      <4> QED BY <4>1, <4>2
    <3>8. links' = kept \cup added
      BY <2>3, <2>5, <3>1
    <3>9. hl = IF added \cup deleted = {} THEN {}
               ELSE [tag : links', deletion : {FALSE}, time : {now}]
                      \cup [tag : deleted, deletion : {TRUE}, time : {now}]
      BY <2>4, <2>16, <3>8 DEF _update_many_to_many
    <3>10. /\ OneOfEachTag(hl)
           /\ links' = (links \ TagsOf(hl)) \cup Linked(hl)
           /\ hl = {} \/ Linked(hl) = links'
      <4>1. CASE added \cup deleted = {}
        <5>1. hl = {} /\ links' = links
          BY <2>5, <3>9, <4>1
        <5> QED BY <5>1 DEF TagsOf, Linked, OneOfEachTag
      <4>2. CASE added \cup deleted # {}
        <5>1. hl = LinksThen(links', deleted, now)
          BY <3>9, <4>2 DEF LinksThen
        <5>2. links' \cap deleted = {}
          BY <2>15, <3>8
        <5>3. OneOfEachTag(hl)
          BY <5>1, <5>2, LinkVersions
        <5>4. Linked(hl) = links'
          BY <5>1, <5>2, LinkVersions
        <5>5. TagsOf(hl) = links' \cup deleted
          BY <5>1, <5>2, LinkVersions
        <5>6. links \subseteq links' \cup deleted
          BY <2>5
        <5> QED BY <5>3, <5>4, <5>5, <5>6
      <4> QED BY <4>1, <4>2
    <3>11. parts' = parts \cup PartsOf(hp)
      BY <2>5, <2>26 DEF PartsOf
    <3>12. Commit(w) /\ seen # NoRow
      BY <2>5, <2>23
    <3>13. FullSet(hu, hl)
      BY <3>7, <3>10 DEF FullSet
    <3> QED BY <2>1, <2>19, <2>25, <3>2, <3>7, <3>10, <3>11, <3>12, <3>13, CommitHistory
  <2> QED BY <2>1, <2>5, <2>24, <2>25, CommitInv
<1> QED BY <1>2, <1>3

LEMMA StepInv == EditsAssumption /\ Inv /\ [Next]_vars => Inv'
<1> SUFFICES ASSUME EditsAssumption, Inv, [Next]_vars PROVE Inv'
    OBVIOUS
<1>1. ASSUME NEW w \in Workers, datasets_create(w) PROVE Inv'
  <2>1. PICK held : held \in Creating /\ held.at = "create" /\ Open(w, held)
    BY <1>1 DEF datasets_create, Creating
  <2> QED BY <2>1, Opens DEF Askable
<1>2. ASSUME NEW w \in Workers, create_dataset(w) PROVE Inv'
    BY <1>2, CreateInv
<1>3. ASSUME NEW w \in Workers, dataset_edit(w) PROVE Inv'
  <2>1. PICK p \in Patch : /\ dataset # NoRow
                           /\ Open(w, [at |-> "update", row |-> dataset, urls |-> urls,
                                       tags |-> links, patch |-> p])
    BY <1>3 DEF dataset_edit
  <2>2. PICK held : held = [at |-> "update", row |-> dataset, urls |-> urls,
                            tags |-> links, patch |-> p]
    OBVIOUS
  <2>3. held \in Editing /\ held.at = "update"
    BY <2>1, <2>2 DEF Editing, Inv, Base, TypeOK
  <2> QED BY <2>1, <2>2, <2>3, Opens DEF Askable
<1>4. ASSUME NEW w \in Workers, update(w) PROVE Inv'
    BY <1>4, UpdateInv
<1>5. ASSUME NEW w \in Workers, part_create(w) PROVE Inv'
  <2>1. PICK held : held \in Adding /\ held.at = "part" /\ Open(w, held) /\ dataset # NoRow
    BY <1>5 DEF part_create, Adding
  <2> QED BY <2>1, Opens DEF Askable
<1>6. ASSUME NEW w \in Workers, create_dataset_part(w) PROVE Inv'
  <2>1. PICK held : held = [at |-> "adding", parts |-> session[w].parts \ parts]
    OBVIOUS
  <2>2. session' = [session EXCEPT ![w] = held]
    BY <1>6, <2>1 DEF create_dataset_part, Inv, Base, Shaped
  <2>3. held \in Adding /\ held.at = "adding" /\ session[w] # Closed /\ dataset # NoRow
    BY <1>6, <2>1 DEF create_dataset_part, Inv, Base, TypeOK, Adding, Closed, Begun
  <2> QED BY <1>6, <2>2, <2>3, Waits DEF Askable, create_dataset_part
<1>7. ASSUME NEW w \in Workers, commit_parts(w) PROVE Inv'
    BY <1>7, PartsInv
<1>8. CASE UNCHANGED vars
  <2>1. TypeOK' /\ Shaped' /\ Within' /\ Dated' /\ Begun' /\ Solo'
    BY <1>8 DEF Inv, Base, TypeOK, Shaped, Within, Held, Dated, Begun, Solo, vars, tables,
                histories
  <2>2. HistoryHolds'
    BY <1>8, NothingWritten DEF Inv, Base, TypeOK, vars
  <2> QED BY <2>1, <2>2 DEF Inv, Base
<1> QED BY <1>1, <1>2, <1>3, <1>4, <1>5, <1>6, <1>7, <1>8 DEF Next

LEMMA OwnFields ==
    ASSUME EditsAssumption, Inv, [Next]_vars, NEW w \in Workers,
           session[w] # Closed, session[w].at = "update", session'[w] = Closed
    PROVE  /\ \A c \in Columns \ DOMAIN session[w].patch.columns : dataset'[c] = dataset[c]
           /\ session[w].patch.tags = NotSet => links' = links
<1> DEFINE s == session[w]
<1>1. ASSUME NEW v \in Workers, NEW held, session' = [session EXCEPT ![v] = held], held # Closed
      PROVE  FALSE
    BY <1>1, HeldOf DEF Inv
<1>2. ASSUME NEW v \in Workers, v # w, session' = [session EXCEPT ![v] = Closed]
      PROVE  FALSE
    BY <1>2, HeldOf DEF Inv
<1>3. ASSUME NEW v \in Workers, NEW held, held.at # "closed", Open(v, held) PROVE FALSE
    BY <1>1, <1>3 DEF Open, Closed
<1>4. ~ \E v \in Workers : datasets_create(v) \/ dataset_edit(v) \/ part_create(v)
  <2>1. SUFFICES ASSUME NEW v \in Workers, datasets_create(v) \/ dataset_edit(v) \/ part_create(v)
                 PROVE  FALSE
    OBVIOUS
  <2>2. PICK held : held.at # "closed" /\ Open(v, held)
    BY <2>1 DEF datasets_create, dataset_edit, part_create
  <2> QED BY <1>3, <2>2
<1>5. ~ \E v \in Workers : create_dataset_part(v)
  <2>1. SUFFICES ASSUME NEW v \in Workers, create_dataset_part(v) PROVE FALSE
    OBVIOUS
  <2>2. PICK held : held = [at |-> "adding", parts |-> session[v].parts \ parts]
    OBVIOUS
  <2>3. session' = [session EXCEPT ![v] = held] /\ held # Closed
    BY <2>1, <2>2 DEF create_dataset_part, Closed, Inv, Base, Shaped
  <2> QED BY <1>1, <2>3
<1>6. ASSUME NEW v \in Workers, create_dataset(v) PROVE FALSE
  <2>1. session' = [session EXCEPT ![v] = Closed] /\ session[v].at = "create"
    BY <1>6 DEF create_dataset, RollBack, Commit, Close
  <2> QED BY <1>2, <2>1
<1>7. ASSUME NEW v \in Workers, commit_parts(v) PROVE FALSE
  <2>1. session' = [session EXCEPT ![v] = Closed] /\ session[v].at = "adding"
    BY <1>7 DEF commit_parts, RollBack, Commit, Close
  <2> QED BY <1>2, <2>1
<1>8. ASSUME NEW v \in Workers, update(v)
      PROVE  /\ \A c \in Columns \ DOMAIN s.patch.columns : dataset'[c] = dataset[c]
             /\ s.patch.tags = NotSet => links' = links
  <2>1. v = w
    BY <1>2, <1>8 DEF update, RollBack, Commit, Close
  <2>2. CASE conflicts(s) \/ ~_check_if_changed(s)
    BY <1>8, <2>1, <2>2 DEF update, RollBack, tables
  <2>3. CASE ~ (conflicts(s) \/ ~_check_if_changed(s))
    <3>1. PICK new : dataset' = [c \in Columns |-> IF c \in changed_columns(s) THEN new[c] ELSE dataset[c]]
      BY <1>8, <2>1, <2>3 DEF update
    <3>2. links' = (links \ tags_deleted(s)) \cup tags_added(s)
      BY <1>8, <2>1, <2>3 DEF update
    <3>3. \A c \in Columns \ DOMAIN s.patch.columns : c \notin changed_columns(s)
      BY DEF changed_columns
    <3>4. s.patch.tags = NotSet => tags_deleted(s) = {} /\ tags_added(s) = {}
      BY DEF tags_deleted, tags_added
    <3> QED BY <3>1, <3>2, <3>3, <3>4
  <2> QED BY <2>2, <2>3
<1>9. CASE UNCHANGED vars
    BY <1>9 DEF vars
<1> QED BY <1>4, <1>5, <1>6, <1>7, <1>8, <1>9 DEF Next

-----------------------------------------------------------------------------
(* The theorems.                                                           *)

LEMMA Invariant == Spec => []Inv
<1>1. Init => Inv
    BY InitInv, EditsAssumption
<1>2. Inv /\ [Next]_vars => Inv'
    BY StepInv, EditsAssumption
<1> QED BY <1>1, <1>2, PTL DEF Spec

(* Whatever is created, edited and added in whatever order, the tables,    *)
(* the histories and what the requests hold are of their types: no commit  *)
(* takes a time that there is not.                                         *)
THEOREM TypeCorrect == Spec => []TypeOK
<1>1. Inv => TypeOK
    BY DEF Inv, Base
<1> QED BY <1>1, Invariant, PTL

(* The histories can be read both ways, as long as no two edits overlapped *)
(* (mixins/edit.py, the after_flush listener and create_version).          *)
THEOREM HistoryReads == Spec => []HistoryHolds
<1>1. Inv => HistoryHolds
    BY DEF Inv
<1> QED BY <1>1, Invariant, PTL

(* An edit leaves alone the columns and tags that it does not name, even   *)
(* when it holds a dataset that others have changed since (Dataset.update  *)
(* and the columns its UPDATE sets).                                       *)
THEOREM EditsKeepOthers == Spec => EditsTouchOwnFields
<1>1. Inv /\ [Next]_vars =>
        [\A w \in Workers :
           (session[w] # Closed /\ session[w].at = "update" /\ session'[w] = Closed) =>
               /\ \A c \in Columns \ DOMAIN session[w].patch.columns : dataset'[c] = dataset[c]
               /\ session[w].patch.tags = NotSet => links' = links]_vars
    BY OwnFields, EditsAssumption
<1> QED BY <1>1, Invariant, PTL DEF Spec, EditsTouchOwnFields
=============================================================================
