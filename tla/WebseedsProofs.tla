--------------------------- MODULE WebseedsProofs ---------------------------
(***************************************************************************)
(* Proofs about Webseeds, for every finite set of urls, every set of       *)
(* requests, and any number of requests, restarts and pool processes; and, *)
(* further down, about Scheduler.                                          *)
(***************************************************************************)
EXTENDS Webseeds, Scheduler, FiniteSetTheorems, WellFoundedInduction, TLAPS

(* A set of numbers has a least one.                                       *)
LEMMA Least ==
  ASSUME NEW S \in SUBSET Nat, S # {}
  PROVE  \E x \in S : \A y \in S : x <= y
<1>. DEFINE R == OpToRel(<, Nat)
<1>1. PICK x \in S : \A y \in S : ~ (<<y, x>> \in R)
  BY WFMin, NatLessThanWellFounded
<1>2. \A y \in S : ~ (y < x)
  BY <1>1 DEF OpToRel
<1>. QED  BY <1>2

(* A set of numbers with a bound has a greatest one, and Max finds it.     *)
LEMMA MaxOfBounded ==
  ASSUME NEW S \in SUBSET Nat, S # {}, NEW n \in Nat, \A x \in S : x <= n
  PROVE  /\ Max(S) \in S
         /\ \A y \in S : y <= Max(S)
<1>. DEFINE T == {n - x : x \in S}
<1>1. T \in SUBSET Nat /\ T # {}
  <2>1. \A x \in S : n - x \in Nat
    OBVIOUS
  <2>. QED  BY <2>1
<1>2. PICK m \in S : \A y \in S : n - m <= n - y
  <2>1. PICK t \in T : \A u \in T : t <= u
    BY <1>1, Least
  <2>2. PICK m \in S : t = n - m
    OBVIOUS
  <2>. QED  BY <2>1, <2>2
<1>3. \A y \in S : m >= y
  <2>. TAKE y \in S
  <2>1. y \in Nat /\ m \in Nat /\ n - m <= n - y
    BY <1>2
  <2>. QED  BY <2>1
<1>. QED  BY <1>3 DEF Max
-----------------------------------------------------------------------------
(* Each row is one of the original torrent or was inserted by a request of *)
(* its own, so ids stay within their bound.                                *)
Accounted ==
    /\ IsFiniteSet(OpenRequests)
    /\ Cardinality(OpenRequests) <= served
    /\ \A w \in rows : w.id + Cardinality(OpenRequests) <= Cardinality(Urls) + served

Good == {"validated", "in_original"}

(* What the open transactions are about to write.                          *)
Intended ==
    /\ \A r \in OpenRequests :
          request[r].op = "create" => request[r].status \in {"queued", "pending_review"}
    /\ \A u \in OpenJobs :
          \/ job[u].at = "starting" /\ job[u].status = "in_progress"
          \/ job[u].at = "finishing" /\ job[u].status = "error"
          \/ job[u].at = "finishing" /\ job[u].status = "validated" /\ u \in passed

(* As long as transactions do not overlap one at most is open.             *)
Apart ==
    ~ overlapped =>
        /\ \A r, s \in OpenRequests : r = s
        /\ \A u, v \in OpenJobs : u = v
        /\ OpenRequests = {} \/ OpenJobs = {}

(* As long as no deletion comes between, what a transaction has read is    *)
(* there and of the same url; what may be served, and what is, has passed. *)
Proven ==
    \/ overlapped /\ deleted
    \/ /\ \A r \in OpenRequests :
             request[r].op # "create" =>
                \E w \in rows : w.id = request[r].id /\ w.url = request[r].url
       /\ \A u \in OpenJobs : \E w \in rows : w.id = job[u].id /\ w.url = u
       /\ \A w \in rows : w.status \in Good => w.url \in passed
       /\ file \subseteq passed

(* What the file is once row w has become approved, or not, with status.   *)
Ahead(w, approved, status) ==
    IF approved /\ status \in Good THEN listed \cup {w.url} ELSE listed \ {w.url}

Synced ==
    /\ listed \subseteq file
    /\ \A u \in file \ listed : row_of(u) = {}

(* As long as transactions do not overlap and none is cut off, the file is *)
(* what the rows will be once the open one commits.                        *)
InStep ==
    ~ overlapped /\ restarts = 0 =>
        /\ Quiet => Synced
        /\ \A r \in OpenRequests :
              /\ request[r].op = "create" => file = listed
              /\ request[r].op = "delete" => Synced
              /\ request[r].op = "approve" =>
                    \E w \in rows :
                       /\ w.id = request[r].id /\ w.url = request[r].url
                       /\ request[r].status = status_after_approval(w)
                       /\ request[r].queue = (w.status = "pending_review")
                       /\ file = Ahead(w, TRUE, request[r].status)
        /\ \A u \in OpenJobs :
              \E w \in rows :
                 /\ w.id = job[u].id /\ w.url = u
                 /\ file = Ahead(w, w.approved, job[u].status)

Inv == TypeOK /\ Accounted /\ Intended /\ Apart /\ Proven /\ InStep

LEMMA InitInv == Init => Inv
<1>. SUFFICES ASSUME Init PROVE Inv
  OBVIOUS
<1>0. Cardinality(Urls) \in Nat
  BY WebseedsAssumption, FS_CardinalityType
<1>1. PICK original \in SUBSET Urls, number \in [Urls -> 1..Cardinality(Urls)] :
        /\ \A u, v \in Urls : number[u] = number[v] => u = v
        /\ rows = {[id |-> number[u], url |-> u, approved |-> TRUE, status |-> "in_original"] :
                      u \in original}
        /\ file = original
        /\ request = [r \in RequestIds |-> Idle]
        /\ stored = {}
        /\ job = [u \in Urls |-> NoJob]
        /\ served = 0 /\ restarts = 0
        /\ passed = original
        /\ overlapped = FALSE /\ deleted = FALSE
        /\ skipped = {}
  BY DEF Init
<1>2. OpenRequests = {} /\ OpenJobs = {}
  BY <1>1 DEF OpenRequests, OpenJobs, NoJob
<1>. DEFINE row(u) == [id |-> number[u], url |-> u, approved |-> TRUE, status |-> "in_original"]
<1>3. /\ \A w \in rows : \E u \in original : w = row(u)
      /\ \A u \in original : row(u) \in rows
      /\ \A u \in original : /\ row(u).id = number[u] /\ row(u).url = u
                             /\ row(u).status = "in_original" /\ row(u).approved = TRUE
  BY <1>1
<1>4. \A u \in Urls : number[u] \in Ids /\ number[u] \in Nat /\ number[u] <= Cardinality(Urls)
  BY <1>0, WebseedsAssumption DEF Ids
<1>5. TypeOK
  <2>1. rows \subseteq Rows
    <3>1. \A u \in original : row(u) \in Rows
      BY <1>4 DEF Rows, Statuses
    <3>. HIDE DEF row
    <3>. QED  BY <1>3, <3>1
  <2>2. \A w, x \in rows : w.id = x.id \/ w.url = x.url => w = x
    <3>. HIDE DEF row
    <3>. QED  BY <1>1, <1>3
  <2>3. served \in 0..MaxRequests /\ restarts \in 0..MaxRestarts
    BY <1>1, WebseedsAssumption
  <2>. QED  BY <1>1, <2>1, <2>2, <2>3 DEF TypeOK
<1>6. Accounted
  <2>1. \A w \in rows : w.id \in Nat /\ w.id <= Cardinality(Urls)
    <3>. HIDE DEF row
    <3>. QED  BY <1>3, <1>4
  <2>. QED  BY <1>0, <1>1, <1>2, <2>1, FS_EmptySet DEF Accounted
<1>7. listed = original
  <2>. HIDE DEF row
  <2>. QED  BY <1>3 DEF listed, may_serve
<1>8. Intended /\ Apart
  BY <1>2 DEF Intended, Apart
<1>9. Proven
  <2>. HIDE DEF row
  <2>. QED  BY <1>1, <1>2, <1>3 DEF Proven
<1>10. InStep
  BY <1>1, <1>2, <1>7 DEF InStep, Synced
<1>. QED  BY <1>5, <1>6, <1>8, <1>9, <1>10 DEF Inv
-----------------------------------------------------------------------------
(* The rows after an update of the one with an id; kept: its status is.    *)
From(y, w, id, approved, status, kept) ==
    /\ y \in Rows /\ y.id = w.id /\ y.url = w.url
    /\ w.id # id => y = w
    /\ w.id = id => /\ y.approved = (w.approved \/ approved)
                    /\ y.status = IF kept THEN w.status ELSE status

Written(id, approved, status, kept) ==
    /\ \A y \in rows' : \E w \in rows : From(y, w, id, approved, status, kept)
    /\ \A w \in rows : \E y \in rows' : From(y, w, id, approved, status, kept)

LEMMA Updated ==
  ASSUME TypeOK, NEW id, NEW approved \in BOOLEAN, NEW status \in Statuses,
         update(id, approved, status)
  PROVE  Written(id, approved, status, FALSE)
<1>. DEFINE new(w) == IF w.id = id THEN [w EXCEPT !.approved = @ \/ approved, !.status = status]
                                   ELSE w
<1>1. ASSUME NEW w \in rows PROVE From(new(w), w, id, approved, status, FALSE)
  BY DEF From, TypeOK, Rows
<1>2. rows' = {new(w) : w \in rows}
  BY DEF update
<1>. HIDE DEF new
<1>. QED  BY <1>1, <1>2 DEF Written

LEMMA Approved ==
  ASSUME TypeOK, NEW id, NEW status \in Statuses,
         rows' = {IF w.id = id THEN [w EXCEPT !.approved = TRUE] ELSE w : w \in rows}
  PROVE  Written(id, TRUE, status, TRUE)
<1>. DEFINE new(w) == IF w.id = id THEN [w EXCEPT !.approved = TRUE] ELSE w
<1>1. ASSUME NEW w \in rows PROVE From(new(w), w, id, TRUE, status, TRUE)
  BY DEF From, TypeOK, Rows
<1>2. rows' = {new(w) : w \in rows}
  OBVIOUS
<1>. HIDE DEF new
<1>. QED  BY <1>1, <1>2 DEF Written

(* An update keeps ids and urls, and gives the file its meaning.           *)
LEMMA WrittenRows ==
  ASSUME TypeOK, NEW id, NEW approved \in BOOLEAN, NEW status, NEW kept \in BOOLEAN,
         Written(id, approved, status, kept)
  PROVE  /\ rows' \subseteq Rows
         /\ \A w, x \in rows' : w.id = x.id \/ w.url = x.url => w = x
<1>1. rows' \subseteq Rows
  BY DEF Written, From
<1>2. ASSUME NEW y \in rows', NEW z \in rows', y.id = z.id \/ y.url = z.url
      PROVE  y = z
  <2>1. PICK w \in rows : From(y, w, id, approved, status, kept)
    BY DEF Written
  <2>2. PICK x \in rows : From(z, x, id, approved, status, kept)
    BY DEF Written
  <2>3. w = x
    BY <1>2, <2>1, <2>2 DEF From, TypeOK
  <2>4. /\ y.id = z.id /\ y.url = z.url /\ y.approved = z.approved /\ y.status = z.status
        /\ y \in Rows /\ z \in Rows
    BY <2>1, <2>2, <2>3 DEF From
  <2>. QED  BY <2>4 DEF Rows
<1>. QED  BY <1>1, <1>2

LEMMA WrittenListed ==
  ASSUME TypeOK, NEW w \in rows, NEW approved \in BOOLEAN, NEW status, NEW kept \in BOOLEAN,
         Written(w.id, approved, status, kept),
         kept => w.status = status
  PROVE  listed' = Ahead(w, w.approved \/ approved, status)
<1>. DEFINE F(y, x) == From(y, x, w.id, approved, status, kept)
<1>1. /\ \A y \in rows' : \E x \in rows : F(y, x)
      /\ \A x \in rows : \E y \in rows' : F(y, x)
  BY DEF Written
<1>2. \A x \in rows : x.id = w.id => x = w
  BY DEF TypeOK
<1>3. \A x \in rows : x.url = w.url => x = w
  BY DEF TypeOK
<1>4. ASSUME NEW y, NEW x \in rows, F(y, x)
      PROVE  /\ y.url = x.url
             /\ x # w => y = x
             /\ x = w => (may_serve(y) <=> (w.approved \/ approved) /\ status \in Good)
  BY <1>2, <1>4 DEF From, may_serve, Good
<1>. HIDE DEF F
<1>5. \A u : u \in listed' <=> \E y \in rows' : may_serve(y) /\ y.url = u
  BY DEF listed, may_serve
<1>6. \A u : u \in listed <=> \E x \in rows : may_serve(x) /\ x.url = u
  BY DEF listed
<1>7. ASSUME NEW u PROVE u \in listed' <=> u \in Ahead(w, w.approved \/ approved, status)
  <2>1. ASSUME u # w.url PROVE u \in listed' <=> u \in listed
    <3>1. ASSUME u \in listed' PROVE u \in listed
      <4>1. PICK y \in rows' : may_serve(y) /\ y.url = u
        BY <1>5, <3>1
      <4>2. PICK x \in rows : F(y, x)
        BY <1>1
      <4>. QED  BY <1>4, <1>6, <2>1, <4>1, <4>2
    <3>2. ASSUME u \in listed PROVE u \in listed'
      <4>1. PICK x \in rows : may_serve(x) /\ x.url = u
        BY <1>6, <3>2
      <4>2. PICK y \in rows' : F(y, x)
        BY <1>1
      <4>. QED  BY <1>4, <1>5, <2>1, <4>1, <4>2
    <3>. QED  BY <3>1, <3>2
  <2>2. ASSUME u = w.url
        PROVE  u \in listed' <=> (w.approved \/ approved) /\ status \in Good
    <3>1. ASSUME NEW y \in rows', y.url = u
          PROVE  may_serve(y) <=> (w.approved \/ approved) /\ status \in Good
      <4>1. PICK x \in rows : F(y, x)
        BY <1>1
      <4>2. x = w
        BY <1>3, <1>4, <2>2, <3>1, <4>1
      <4>. QED  BY <1>4, <4>1, <4>2
    <3>2. \E y \in rows' : y.url = u
      BY <1>1, <1>4, <2>2
    <3>. QED  BY <1>5, <3>1, <3>2
  <2>. QED  BY <2>1, <2>2 DEF Ahead
<1>. QED  BY <1>7
-----------------------------------------------------------------------------
(* A request is received: its transaction opens.                           *)
LEMMA Received ==
  ASSUME Inv, NEW r \in RequestIds, NEW op \in {"create", "approve", "delete"},
         NEW url \in Urls, NEW id \in Ids \cup {0}, NEW approved \in BOOLEAN,
         NEW status \in Statuses, NEW queue \in BOOLEAN,
         Receive(r, op, url, id, approved, status, queue)
  PROVE  /\ OpenRequests' = OpenRequests \cup {r} /\ r \notin OpenRequests
         /\ OpenJobs' = OpenJobs
         /\ request'[r].op = op /\ request'[r].url = url /\ request'[r].id = id
         /\ request'[r].status = status /\ request'[r].queue = queue
         /\ \A s \in OpenRequests : request'[s] = request[s]
         /\ request' \in [RequestIds -> Requests \cup {Idle}]
         /\ served' \in 0..MaxRequests
         /\ Accounted' /\ Apart'
         /\ ~ overlapped' => ~ overlapped /\ Quiet
         /\ UNCHANGED <<rows, stored, job, restarts, passed, deleted, skipped>>
<1>. DEFINE req == [op |-> op, at |-> "commit", url |-> url, id |-> id,
                    approved |-> approved, status |-> status, queue |-> queue]
<1>1. /\ request[r] = Idle /\ served < MaxRequests /\ served' = served + 1
      /\ request' = [request EXCEPT ![r] = req]
      /\ overlapped' = (overlapped \/ ~ Quiet)
      /\ UNCHANGED <<rows, stored, job, restarts, passed, deleted, skipped>>
  BY DEF Receive, Open
<1>2. /\ req \in Requests /\ req # Idle
      /\ req.op = op /\ req.at = "commit" /\ req.url = url /\ req.id = id
      /\ req.status = status /\ req.queue = queue
  BY DEF Requests, Idle
<1>. HIDE DEF req
<1>3. /\ TypeOK /\ Accounted /\ Apart
      /\ served \in Nat
  BY DEF Inv, TypeOK
<1>4. request'[r] = req /\ \A s \in RequestIds \ {r} : request'[s] = request[s]
  BY <1>1, <1>3 DEF TypeOK
<1>5. OpenRequests' = OpenRequests \cup {r} /\ r \notin OpenRequests
  BY <1>1, <1>2, <1>4 DEF OpenRequests
<1>6. OpenJobs' = OpenJobs
  BY <1>1 DEF OpenJobs
<1>7. Accounted'
  <2>1. /\ IsFiniteSet(OpenRequests')
        /\ Cardinality(OpenRequests') = Cardinality(OpenRequests) + 1
        /\ Cardinality(OpenRequests) \in Nat
    BY <1>3, <1>5, FS_AddElement, FS_CardinalityType DEF Accounted
  <2>2. Cardinality(Urls) \in Nat /\ \A w \in rows : w.id \in Nat
    BY <1>3, WebseedsAssumption, FS_CardinalityType DEF TypeOK, Rows, Ids
  <2>. QED  BY <1>1, <1>3, <2>1, <2>2 DEF Accounted
<1>8. ~ overlapped' => ~ overlapped /\ Quiet
  BY <1>1
<1>9. Apart'
  BY <1>5, <1>6, <1>8 DEF Apart, Quiet
<1>10. request' \in [RequestIds -> Requests \cup {Idle}]
  BY <1>1, <1>2, <1>3 DEF TypeOK
<1>11. served' \in 0..MaxRequests
  BY <1>1, <1>3, WebseedsAssumption
<1>. QED  BY <1>1, <1>2, <1>4, <1>5, <1>6, <1>7, <1>8, <1>9, <1>10, <1>11

(* What stands while the rows do.                                          *)
LEMMA SameRows ==
  ASSUME UNCHANGED rows
  PROVE  /\ listed' = listed
         /\ \A u : row_of(u)' = row_of(u)
         /\ \A w, approved, status : Ahead(w, approved, status)' = Ahead(w, approved, status)
BY DEF listed, row_of, Ahead, may_serve

LEMMA ServedPassed ==
  ASSUME Inv, ~ (overlapped /\ deleted)
  PROVE  listed \subseteq passed
BY DEF Inv, Proven, listed, may_serve, Good

LEMMA LoadInv ==
  ASSUME Inv, NEW r \in RequestIds, Load(r)
  PROVE  Inv'
<1>0. TypeOK /\ Intended /\ Proven /\ InStep
  BY DEF Inv
<1>1. CASE \E url \in Urls, trusted \in BOOLEAN : load_create(r, url, trusted)
  <2>1. PICK url \in Urls, trusted \in BOOLEAN : load_create(r, url, trusted)
    BY <1>1
  <2>0. PICK queue \in BOOLEAN : queue = FALSE
    OBVIOUS
  <2>. DEFINE status == status_of_new(trusted)
  <2>2. status \in {"queued", "pending_review"} /\ status \in Statuses
    BY DEF status_of_new, Statuses
  <2>3. /\ Receive(r, "create", url, 0, trusted, status, queue)
        /\ file' = listed
    BY <2>0, <2>1 DEF load_create, sync_webseeds
  <2>. HIDE DEF status
  <2>4. /\ OpenRequests' = OpenRequests \cup {r} /\ r \notin OpenRequests
        /\ OpenJobs' = OpenJobs
        /\ request'[r].op = "create" /\ request'[r].status = status
        /\ \A s \in OpenRequests : request'[s] = request[s]
        /\ request' \in [RequestIds -> Requests \cup {Idle}]
        /\ served' \in 0..MaxRequests
        /\ Accounted' /\ Apart'
        /\ ~ overlapped' => ~ overlapped /\ Quiet
        /\ UNCHANGED <<rows, stored, job, restarts, passed, deleted, skipped>>
    BY <2>2, <2>3, Received
  <2>5. TypeOK'
    <3>1. listed \subseteq Urls /\ overlapped' \in BOOLEAN
      BY <1>0, <2>3 DEF listed, TypeOK, Rows, Receive, Open
    <3>. QED  BY <1>0, <2>3, <2>4, <3>1 DEF TypeOK
  <2>6. Intended'
    BY <1>0, <2>2, <2>4 DEF Intended
  <2>7. Proven'
    <3>. SUFFICES ASSUME ~ (overlapped' /\ deleted') PROVE Proven'
      BY DEF Proven
    <3>1. ~ (overlapped /\ deleted)
      BY <2>4
    <3>2. listed \subseteq passed
      BY <3>1, ServedPassed
    <3>. QED  BY <1>0, <2>3, <2>4, <3>1, <3>2 DEF Proven
  <2>8. InStep'
    <3>. SUFFICES ASSUME ~ overlapped', restarts' = 0 PROVE InStep'
      BY DEF InStep
    <3>1. OpenRequests' = {r} /\ OpenJobs' = {} /\ file' = listed'
      BY <2>3, <2>4, SameRows DEF Quiet
    <3>. QED  BY <2>4, <3>1 DEF InStep, Quiet
  <2>. QED  BY <2>4, <2>5, <2>6, <2>7, <2>8 DEF Inv
<1>2. CASE \E w \in rows : load_approve(r, w)
  <2>1. PICK w \in rows : load_approve(r, w)
    BY <1>2
  <2>0. PICK queue, yes \in BOOLEAN : queue = (w.status = "pending_review") /\ yes = TRUE
    OBVIOUS
  <2>. DEFINE status == status_after_approval(w)
  <2>2. /\ w \in Rows /\ w.url \in Urls /\ w.id \in Ids
        /\ status \in Statuses /\ (status \in Good => w.status \in Good)
    BY <1>0 DEF status_after_approval, Statuses, TypeOK, Rows, Good
  <2>3. /\ Receive(r, "approve", w.url, w.id, yes, status, queue)
        /\ file' = Ahead(w, TRUE, status)
    BY <2>0, <2>1, <2>2
    DEF load_approve, set_webseed, sync_webseeds, may_serve, Ahead, Rows, Good
  <2>. HIDE DEF status
  <2>4. /\ OpenRequests' = OpenRequests \cup {r} /\ r \notin OpenRequests
        /\ OpenJobs' = OpenJobs
        /\ request'[r].op = "approve" /\ request'[r].url = w.url /\ request'[r].id = w.id
        /\ request'[r].status = status
        /\ request'[r].queue = queue
        /\ \A s \in OpenRequests : request'[s] = request[s]
        /\ request' \in [RequestIds -> Requests \cup {Idle}]
        /\ served' \in 0..MaxRequests
        /\ Accounted' /\ Apart'
        /\ ~ overlapped' => ~ overlapped /\ Quiet
        /\ UNCHANGED <<rows, stored, job, restarts, passed, deleted, skipped>>
    BY <2>2, <2>3, Received
  <2>5. TypeOK'
    <3>1. listed \subseteq Urls /\ overlapped' \in BOOLEAN
      BY <1>0, <2>3 DEF listed, TypeOK, Rows, Receive, Open
    <3>2. file' \subseteq Urls
      BY <2>2, <2>3, <3>1 DEF Ahead
    <3>. QED  BY <1>0, <2>4, <3>1, <3>2 DEF TypeOK
  <2>6. Intended'
    BY <1>0, <2>4 DEF Intended
  <2>7. Proven'
    <3>. SUFFICES ASSUME ~ (overlapped' /\ deleted') PROVE Proven'
      BY DEF Proven
    <3>1. ~ (overlapped /\ deleted)
      BY <2>4
    <3>2. listed \subseteq passed
      BY <3>1, ServedPassed
    <3>3. file' \subseteq passed
      BY <1>0, <2>2, <2>3, <3>1, <3>2 DEF Ahead, Proven
    <3>. QED  BY <1>0, <2>1, <2>4, <3>1, <3>3 DEF Proven
  <2>8. InStep'
    <3>. SUFFICES ASSUME ~ overlapped', restarts' = 0 PROVE InStep'
      BY DEF InStep
    <3>1. OpenRequests' = {r} /\ OpenJobs' = {} /\ file' = Ahead(w, TRUE, status)'
      BY <2>3, <2>4, SameRows DEF Quiet, Ahead
    <3>2. /\ w \in rows' /\ status = status_after_approval(w)
          /\ request'[r].queue = (w.status = "pending_review")
      BY <2>0, <2>4 DEF status
    <3>. QED  BY <2>4, <3>1, <3>2 DEF InStep, Quiet, Ahead, status_after_approval
  <2>. QED  BY <2>4, <2>5, <2>6, <2>7, <2>8 DEF Inv
<1>3. CASE \E w \in rows : load_delete(r, w)
  <2>1. PICK w \in rows : load_delete(r, w)
    BY <1>3
  <2>2. w.url \in Urls /\ w.id \in Ids /\ w.approved \in BOOLEAN /\ w.status \in Statuses
    BY <1>0 DEF TypeOK, Rows
  <2>0. PICK queue \in BOOLEAN : queue = FALSE
    OBVIOUS
  <2>3. Receive(r, "delete", w.url, w.id, w.approved, w.status, queue) /\ UNCHANGED file
    BY <2>0, <2>1 DEF load_delete
  <2>4. /\ OpenRequests' = OpenRequests \cup {r} /\ r \notin OpenRequests
        /\ OpenJobs' = OpenJobs
        /\ request'[r].op = "delete" /\ request'[r].url = w.url /\ request'[r].id = w.id
        /\ \A s \in OpenRequests : request'[s] = request[s]
        /\ request' \in [RequestIds -> Requests \cup {Idle}]
        /\ served' \in 0..MaxRequests
        /\ Accounted' /\ Apart'
        /\ ~ overlapped' => ~ overlapped /\ Quiet
        /\ UNCHANGED <<rows, stored, job, restarts, passed, deleted, skipped>>
    BY <2>2, <2>3, Received
  <2>5. TypeOK'
    <3>1. overlapped' \in BOOLEAN
      BY <1>0, <2>3 DEF TypeOK, Receive, Open
    <3>. QED  BY <1>0, <2>3, <2>4, <3>1 DEF TypeOK
  <2>6. Intended'
    BY <1>0, <2>4 DEF Intended
  <2>7. Proven'
    BY <1>0, <2>1, <2>3, <2>4 DEF Proven
  <2>8. InStep'
    <3>. SUFFICES ASSUME ~ overlapped', restarts' = 0 PROVE InStep'
      BY DEF InStep
    <3>1. OpenRequests' = {r} /\ OpenJobs' = {} /\ Synced
      BY <1>0, <2>4 DEF InStep, Quiet
    <3>2. Synced'
      BY <2>3, <2>4, <3>1, SameRows DEF Synced
    <3>. QED  BY <2>4, <3>1, <3>2 DEF InStep, Quiet
  <2>. QED  BY <2>4, <2>5, <2>6, <2>7, <2>8 DEF Inv
<1>. QED  BY <1>1, <1>2, <1>3 DEF Load
-----------------------------------------------------------------------------
(* The id of a new row is new, and there are as many as are accounted for. *)
LEMMA NextId ==
  ASSUME TypeOK, Accounted, NEW r \in OpenRequests
  PROVE  /\ next_id \in Ids
         /\ \A w \in rows : w.id \in Nat /\ w.id < next_id
         /\ next_id + Cardinality(OpenRequests) <= Cardinality(Urls) + served + 1
<1>. DEFINE S == {0} \cup {w.id : w \in rows}
            n == Cardinality(Urls) + served - Cardinality(OpenRequests)
<1>1. /\ Cardinality(OpenRequests) \in Nat \ {0} /\ served \in Nat
      /\ Cardinality(Urls) \in Nat /\ served <= MaxRequests
  BY FS_CardinalityType, FS_EmptySet, WebseedsAssumption DEF Accounted, TypeOK
<1>2. \A w \in rows : w.id \in Nat
  BY <1>1, WebseedsAssumption DEF TypeOK, Rows, Ids
<1>3. S \in SUBSET Nat /\ S # {} /\ \A w \in rows : w.id \in S
  BY <1>2
<1>4. n \in Nat /\ \A x \in S : x <= n
  <2>1. n \in Nat
    BY <1>1 DEF Accounted
  <2>2. \A w \in rows : w.id <= n
    BY <1>1, <1>2 DEF Accounted
  <2>. QED  BY <2>1, <2>2
<1>5. Max(S) \in S /\ \A y \in S : y <= Max(S)
  <2>. HIDE DEF S, n
  <2>. QED  BY <1>3, <1>4, MaxOfBounded
<1>6. next_id = 1 + Max(S)
  BY DEF next_id
<1>. HIDE DEF S
<1>7. Max(S) \in Nat /\ Max(S) <= n
  BY <1>3, <1>4, <1>5
<1>8. next_id \in Ids /\ next_id + Cardinality(OpenRequests) <= Cardinality(Urls) + served + 1
  <2>. DEFINE k == Cardinality(Urls)
              o == Cardinality(OpenRequests)
              m == Max(S)
  <2>1. /\ m \in Nat /\ m <= k + served - o /\ k \in Nat /\ o \in Nat \ {0} /\ served \in Nat
        /\ served <= MaxRequests /\ MaxRequests \in Nat
    BY <1>1, <1>7, WebseedsAssumption
  <2>2. Ids = 1..(k + MaxRequests) /\ next_id = 1 + m
    BY <1>6 DEF Ids
  <2>. HIDE DEF k, o, m
  <2>3. next_id \in Ids /\ next_id + o <= k + served + 1
    BY <2>1, <2>2
  <2>. QED  BY <2>3 DEF k, o
<1>9. \A w \in rows : w.id < next_id
  BY <1>2, <1>3, <1>5, <1>6, <1>7
<1>. QED  BY <1>2, <1>8, <1>9

(* The transaction of a request ends.                                      *)
LEMMA Closed ==
  ASSUME Inv, NEW r \in RequestIds, request[r] # Idle, request[r].at = "commit",
         Answer(r) \/ \E id \in Ids : Proceed(r, id), UNCHANGED <<job, served, overlapped>>
  PROVE  /\ r \in OpenRequests /\ request[r] \in Requests
         /\ OpenRequests' = OpenRequests \ {r} /\ OpenJobs' = OpenJobs
         /\ \A s \in OpenRequests' : request'[s] = request[s]
         /\ request' \in [RequestIds -> Requests \cup {Idle}]
         /\ IsFiniteSet(OpenRequests') /\ Cardinality(OpenRequests) \in Nat
         /\ Cardinality(OpenRequests') = Cardinality(OpenRequests) - 1
         /\ Apart'
         /\ ~ overlapped => OpenRequests' = {} /\ OpenJobs' = {} /\ ~ Quiet
<1>0. TypeOK /\ Accounted /\ Apart
  BY DEF Inv
<1>1. r \in OpenRequests /\ request[r] \in Requests
  BY <1>0 DEF OpenRequests, TypeOK
<1>2. PICK req \in Requests \cup {Idle} :
        request' = [request EXCEPT ![r] = req] /\ (req = Idle \/ req.at = "queue")
  <2>1. CASE Answer(r)
    BY <2>1 DEF Answer
  <2>2. CASE \E id \in Ids : Proceed(r, id)
    <3>1. PICK id \in Ids : Proceed(r, id)
      BY <2>2
    <3>2. PICK new : new = [request[r] EXCEPT !.at = "queue", !.id = id]
      OBVIOUS
    <3>3. new \in Requests /\ new.at = "queue"
      BY <1>1, <3>2 DEF Requests
    <3>4. request' = [request EXCEPT ![r] = new]
      BY <3>1, <3>2 DEF Proceed
    <3>. QED  BY <3>3, <3>4
  <2>. QED  BY <2>1, <2>2
<1>3. request'[r] = req /\ \A s \in RequestIds \ {r} : request'[s] = request[s]
  BY <1>0, <1>2 DEF TypeOK
<1>4. OpenRequests' = OpenRequests \ {r} /\ OpenJobs' = OpenJobs
  BY <1>2, <1>3 DEF OpenRequests, OpenJobs
<1>5. /\ IsFiniteSet(OpenRequests') /\ Cardinality(OpenRequests) \in Nat
      /\ Cardinality(OpenRequests') = Cardinality(OpenRequests) - 1
  BY <1>0, <1>1, <1>4, FS_RemoveElement, FS_CardinalityType DEF Accounted
<1>6. ~ overlapped => OpenRequests' = {} /\ OpenJobs' = {} /\ ~ Quiet
  BY <1>0, <1>1, <1>4 DEF Apart, Quiet
<1>7. Apart'
  BY <1>6 DEF Apart
<1>8. \A s \in OpenRequests' : request'[s] = request[s]
  BY <1>3, <1>4 DEF OpenRequests
<1>9. request' \in [RequestIds -> Requests \cup {Idle}]
  BY <1>0, <1>2 DEF TypeOK
<1>. QED  BY <1>1, <1>4, <1>5, <1>6, <1>7, <1>8, <1>9

(* What an update leaves as it was.                                        *)
Carried(id, status, kept) ==
    /\ \A w \in rows : \E y \in rows' : y.id = w.id /\ y.url = w.url
    /\ \A y \in rows' : \E w \in rows :
          /\ y.id = w.id /\ y.url = w.url
          /\ y.status = w.status \/ (w.id = id /\ ~ kept /\ y.status = status)

LEMMA WrittenKeeps ==
  ASSUME NEW id, NEW approved, NEW status, NEW kept \in BOOLEAN,
         Written(id, approved, status, kept)
  PROVE  Carried(id, status, kept)
<1>1. ASSUME NEW w \in rows PROVE \E y \in rows' : y.id = w.id /\ y.url = w.url
  BY DEF Written, From
<1>2. ASSUME NEW y \in rows'
      PROVE  \E w \in rows :
               /\ y.id = w.id /\ y.url = w.url
               /\ y.status = w.status \/ (w.id = id /\ ~ kept /\ y.status = status)
  <2>1. PICK w \in rows : From(y, w, id, approved, status, kept)
    BY DEF Written
  <2>2. y.id = w.id /\ y.url = w.url
    BY <2>1 DEF From
  <2>3. y.status = w.status \/ (w.id = id /\ ~ kept /\ y.status = status)
    BY <2>1 DEF From
  <2>. QED  BY <2>2, <2>3
<1>. QED  BY <1>1, <1>2 DEF Carried

(* Rows that keep their ids stay accounted for when a transaction ends.    *)
LEMMA AccountedAfter ==
  ASSUME TypeOK, Accounted, UNCHANGED served,
         IsFiniteSet(OpenRequests'), Cardinality(OpenRequests) \in Nat,
         Cardinality(OpenRequests') = Cardinality(OpenRequests) - 1,
         \A y \in rows' : \E w \in rows : y.id = w.id
  PROVE  Accounted'
<1>. DEFINE o == Cardinality(OpenRequests)
            k == Cardinality(Urls)
<1>1. k \in Nat /\ served \in Nat /\ \A w \in rows : w.id \in Nat /\ w.id + o <= k + served
  BY WebseedsAssumption, FS_CardinalityType DEF TypeOK, Rows, Ids, Accounted
<1>2. o \in Nat /\ o <= served
  BY DEF Accounted
<1>. HIDE DEF o, k
<1>3. \A y \in rows' : y.id \in Nat /\ y.id + o <= k + served
  BY <1>1
<1>4. o - 1 <= served /\ \A y \in rows' : y.id + (o - 1) <= k + served
  BY <1>1, <1>2, <1>3
<1>. QED  BY <1>4 DEF Accounted, o, k

LEMMA CreateInv ==
  ASSUME Inv, NEW r \in RequestIds, create_webseed(r)
  PROVE  Inv'
<1>. DEFINE req == request[r]
<1>0. TypeOK /\ Accounted /\ Intended /\ Proven /\ InStep
  BY DEF Inv
<1>1. /\ req # Idle /\ req.op = "create" /\ req.at = "commit"
      /\ Answer(r) \/ \E id \in Ids : Proceed(r, id)
      /\ UNCHANGED <<file, stored, job, served, restarts, passed, overlapped, deleted, skipped>>
  <2>1. req # Idle /\ req.op = "create" /\ req.at = "commit" /\ r \in OpenRequests
    BY DEF create_webseed, Idle, OpenRequests
  <2>2. next_id \in Ids
    BY <1>0, <2>1, NextId
  <2>. QED  BY <2>1, <2>2 DEF create_webseed
<1>2. /\ r \in OpenRequests /\ req \in Requests
      /\ OpenRequests' = OpenRequests \ {r} /\ OpenJobs' = OpenJobs
      /\ \A s \in OpenRequests' : request'[s] = request[s]
      /\ request' \in [RequestIds -> Requests \cup {Idle}]
      /\ IsFiniteSet(OpenRequests') /\ Cardinality(OpenRequests) \in Nat
      /\ Cardinality(OpenRequests') = Cardinality(OpenRequests) - 1
      /\ Apart'
      /\ ~ overlapped => OpenRequests' = {} /\ OpenJobs' = {} /\ ~ Quiet
  BY <1>1, Closed
<1>3. Intended'
  BY <1>0, <1>1, <1>2 DEF Intended
<1>4. req.status \in {"queued", "pending_review"} /\ req.status \notin Good
  BY <1>0, <1>1, <1>2 DEF Intended, Good
<1>5. ~ overlapped /\ restarts = 0 => file = listed
  BY <1>0, <1>1, <1>2 DEF InStep
<1>6. Cardinality(Urls) \in Nat /\ served \in Nat /\ \A w \in rows : w.id \in Nat
  BY <1>0, WebseedsAssumption, FS_CardinalityType DEF TypeOK, Rows, Ids
<1>7. CASE UNCHANGED rows
  <2>1. TypeOK'
    BY <1>0, <1>1, <1>2, <1>7 DEF TypeOK
  <2>2. Accounted'
    BY <1>0, <1>1, <1>2, <1>7, AccountedAfter
  <2>3. Proven'
    BY <1>0, <1>1, <1>2, <1>7 DEF Proven
  <2>4. InStep'
    BY <1>1, <1>2, <1>5, <1>7, SameRows DEF InStep, Synced
  <2>. QED  BY <1>2, <1>3, <2>1, <2>2, <2>3, <2>4 DEF Inv
<1>8. CASE ~ UNCHANGED rows
  <2>. DEFINE row == [id |-> next_id, url |-> req.url, approved |-> req.approved,
                      status |-> req.status]
  <2>1. row_of(req.url) = {} /\ rows' = rows \cup {row}
    BY <1>8 DEF create_webseed, insert
  <2>2. /\ next_id \in Ids
        /\ \A w \in rows : w.id \in Nat /\ w.id < next_id
        /\ next_id + Cardinality(OpenRequests) <= Cardinality(Urls) + served + 1
    BY <1>0, <1>2, NextId
  <2>3. /\ row \in Rows /\ row.id = next_id /\ row.url = req.url
        /\ row.status = req.status
    BY <1>2, <2>2 DEF Rows, Requests
  <2>. HIDE DEF row
  <2>4. TypeOK'
    <3>1. \A w, x \in rows' : w.id = x.id \/ w.url = x.url => w = x
      BY <1>0, <2>1, <2>2, <2>3 DEF TypeOK, row_of
    <3>. QED  BY <1>0, <1>1, <1>2, <2>1, <2>3, <3>1 DEF TypeOK
  <2>5. Accounted'
    <3>1. next_id \in Nat
      BY <1>6, <2>2, WebseedsAssumption DEF Ids
    <3>2. \A w \in rows' : w.id + Cardinality(OpenRequests') <= Cardinality(Urls) + served
      BY <1>0, <1>2, <1>6, <2>1, <2>2, <2>3, <3>1 DEF Accounted
    <3>3. Cardinality(OpenRequests') <= served
      BY <1>0, <1>2, <1>6 DEF Accounted
    <3>. QED  BY <1>1, <1>2, <3>2, <3>3 DEF Accounted
  <2>6. Proven'
    BY <1>0, <1>1, <1>2, <1>4, <2>1, <2>3 DEF Proven
  <2>7. listed' = listed
    BY <1>4, <2>1, <2>3 DEF listed, may_serve, Good
  <2>8. InStep'
    BY <1>1, <1>2, <1>5, <2>7 DEF InStep, Synced
  <2>. QED  BY <1>2, <1>3, <2>4, <2>5, <2>6, <2>8 DEF Inv
<1>. QED  BY <1>7, <1>8

LEMMA ApproveInv ==
  ASSUME Inv, NEW r \in RequestIds, approve_webseed(r)
  PROVE  Inv'
<1>. DEFINE req == request[r]
<1>0. TypeOK /\ Accounted /\ Intended /\ Proven /\ InStep
  BY DEF Inv
<1>1. /\ req # Idle /\ req.op = "approve" /\ req.at = "commit"
      /\ Answer(r) \/ \E id \in Ids : Proceed(r, id)
      /\ UNCHANGED <<file, stored, job, served, restarts, passed, overlapped, deleted, skipped>>
  <2>1. req # Idle /\ req.op = "approve" /\ req.at = "commit"
    BY DEF approve_webseed, Idle
  <2>2. Answer(r) \/ \E id \in Ids : Proceed(r, id)
    <3>1. Answer(r) \/ (row_with(req.id) # {} /\ Proceed(r, req.id))
      BY DEF approve_webseed
    <3>2. row_with(req.id) # {} => req.id \in Ids
      BY <1>0 DEF row_with, TypeOK, Rows
    <3>. QED  BY <3>1, <3>2
  <2>. QED  BY <2>1, <2>2 DEF approve_webseed
<1>2. /\ r \in OpenRequests /\ req \in Requests
      /\ OpenRequests' = OpenRequests \ {r} /\ OpenJobs' = OpenJobs
      /\ \A s \in OpenRequests' : request'[s] = request[s]
      /\ request' \in [RequestIds -> Requests \cup {Idle}]
      /\ IsFiniteSet(OpenRequests') /\ Cardinality(OpenRequests) \in Nat
      /\ Cardinality(OpenRequests') = Cardinality(OpenRequests) - 1
      /\ Apart'
      /\ ~ overlapped => OpenRequests' = {} /\ OpenJobs' = {} /\ ~ Quiet
  BY <1>1, Closed
<1>3. Intended'
  BY <1>0, <1>1, <1>2 DEF Intended
<1>7. CASE row_with(req.id) = {}
  <2>0. UNCHANGED rows
    BY <1>7 DEF approve_webseed
  <2>1. TypeOK'
    BY <1>0, <1>1, <1>2, <2>0 DEF TypeOK
  <2>2. Accounted'
    BY <1>0, <1>1, <1>2, <2>0, AccountedAfter
  <2>3. Proven'
    BY <1>0, <1>1, <1>2, <2>0 DEF Proven
  <2>4. InStep'
    BY <1>0, <1>1, <1>2, <1>7 DEF InStep, row_with
  <2>. QED  BY <1>2, <1>3, <2>1, <2>2, <2>3, <2>4 DEF Inv
<1>8. CASE row_with(req.id) # {}
  <2>. DEFINE kept == ~ req.queue
              new == IF req.queue THEN "queued" ELSE req.status
  <2>0. new \in Statuses
    BY <1>2 DEF Requests, Statuses
  <2>1. Written(req.id, TRUE, new, kept)
    <3>1. CASE req.queue /\ update(req.id, TRUE, "queued")
      BY <1>0, <3>1, Updated DEF Statuses
    <3>2. CASE /\ ~ req.queue
               /\ rows' = {IF w.id = req.id THEN [w EXCEPT !.approved = TRUE] ELSE w : w \in rows}
      BY <1>0, <2>0, <3>2, Approved
    <3>. QED  BY <1>8, <3>1, <3>2 DEF approve_webseed
  <2>2. kept \in BOOLEAN
    BY <1>2 DEF Requests
  <2>. HIDE DEF kept, new
  <2>3. /\ rows' \subseteq Rows
        /\ \A w, x \in rows' : w.id = x.id \/ w.url = x.url => w = x
    BY <1>0, <2>1, <2>2, WrittenRows
  <2>4. Carried(req.id, new, kept)
    BY <2>1, <2>2, WrittenKeeps
  <2>5. TypeOK'
    BY <1>0, <1>1, <1>2, <2>3 DEF TypeOK
  <2>6. Accounted'
    BY <1>0, <1>1, <1>2, <2>4, AccountedAfter DEF Carried
  <2>7. Proven'
    <3>1. ~ kept => new \notin Good
      BY DEF kept, new, Good
    <3>2. (\A w \in rows : w.status \in Good => w.url \in passed)
             => \A y \in rows' : y.status \in Good => y.url \in passed
      BY <2>4, <3>1 DEF Carried
    <3>. QED  BY <1>0, <1>1, <1>2, <2>4, <3>2 DEF Carried, Proven
  <2>8. InStep'
    <3>. SUFFICES ASSUME ~ overlapped, restarts = 0 PROVE InStep'
      BY <1>1 DEF InStep
    <3>1. PICK w \in rows :
            /\ w.id = req.id
            /\ req.status = status_after_approval(w)
            /\ req.queue = (w.status = "pending_review")
            /\ file = Ahead(w, TRUE, req.status)
      BY <1>0, <1>1, <1>2 DEF InStep
    <3>2. new = req.status /\ (kept => w.status = new)
      BY <3>1 DEF kept, new, status_after_approval
    <3>3. listed' = Ahead(w, w.approved \/ TRUE, new)
      BY <1>0, <2>1, <2>2, <3>1, <3>2, WrittenListed
    <3>4. file' = listed'
      BY <1>1, <3>1, <3>2, <3>3 DEF Ahead
    <3>. QED  BY <1>1, <1>2, <3>4 DEF InStep, Synced
  <2>. QED  BY <1>2, <1>3, <2>5, <2>6, <2>7, <2>8 DEF Inv
<1>. QED  BY <1>7, <1>8

LEMMA DeleteInv ==
  ASSUME Inv, NEW r \in RequestIds, delete_webseed(r)
  PROVE  Inv'
<1>. DEFINE req == request[r]
<1>0. TypeOK /\ Accounted /\ Intended /\ Proven /\ InStep
  BY DEF Inv
<1>1. /\ req # Idle /\ req.op = "delete" /\ req.at = "commit"
      /\ Answer(r) \/ \E id \in Ids : Proceed(r, id)
      /\ rows' = rows \ row_with(req.id) /\ deleted' = TRUE
      /\ UNCHANGED <<file, stored, job, served, restarts, passed, overlapped, skipped>>
  BY DEF delete_webseed, Idle
<1>2. /\ r \in OpenRequests /\ req \in Requests
      /\ OpenRequests' = OpenRequests \ {r} /\ OpenJobs' = OpenJobs
      /\ \A s \in OpenRequests' : request'[s] = request[s]
      /\ request' \in [RequestIds -> Requests \cup {Idle}]
      /\ IsFiniteSet(OpenRequests') /\ Cardinality(OpenRequests) \in Nat
      /\ Cardinality(OpenRequests') = Cardinality(OpenRequests) - 1
      /\ Apart'
      /\ ~ overlapped => OpenRequests' = {} /\ OpenJobs' = {} /\ ~ Quiet
  BY <1>1, Closed
<1>3. Intended'
  BY <1>0, <1>1, <1>2 DEF Intended
<1>5. TypeOK'
  BY <1>0, <1>1, <1>2 DEF TypeOK
<1>6. Accounted'
  BY <1>0, <1>1, <1>2, AccountedAfter
<1>7. Proven'
  BY <1>0, <1>1, <1>2 DEF Proven
<1>8. InStep'
  <2>. SUFFICES ASSUME ~ overlapped, restarts = 0 PROVE Synced'
    BY <1>1, <1>2 DEF InStep
  <2>1. Synced
    BY <1>0, <1>1, <1>2 DEF InStep
  <2>2. listed' \subseteq listed
    BY <1>1 DEF listed, may_serve
  <2>3. ASSUME NEW u \in file, u \notin listed' PROVE row_of(u)' = {}
    <3>1. CASE u \in listed
      <4>1. PICK w \in rows : may_serve(w) /\ w.url = u
        BY <3>1 DEF listed
      <4>2. w \notin rows'
        BY <2>3, <4>1 DEF listed, may_serve
      <4>3. \A x \in rows : x.url = u => x = w
        BY <1>0, <4>1 DEF TypeOK
      <4>. QED  BY <1>1, <4>2, <4>3 DEF row_of
    <3>2. CASE u \notin listed
      BY <1>1, <2>1, <2>3, <3>2 DEF Synced, row_of
    <3>. QED  BY <3>1, <3>2
  <2>. QED  BY <1>1, <2>1, <2>2, <2>3 DEF Synced
<1>. QED  BY <1>2, <1>3, <1>5, <1>6, <1>7, <1>8 DEF Inv
-----------------------------------------------------------------------------
(* A step that opens no transaction, closes none and writes nothing.       *)
LEMMA Still ==
  ASSUME Inv, TypeOK', UNCHANGED <<rows, file, served, restarts, overlapped, deleted>>,
         passed \subseteq passed',
         OpenRequests' = OpenRequests, OpenJobs' = OpenJobs,
         \A r \in OpenRequests : request'[r] = request[r],
         \A u \in OpenJobs : job'[u] = job[u]
  PROVE  Inv'
<1>0. Accounted /\ Intended /\ Apart /\ Proven /\ InStep
  BY DEF Inv
<1>1. Accounted' /\ Intended' /\ Apart'
  BY <1>0 DEF Accounted, Intended, Apart
<1>2. Proven'
  BY <1>0 DEF Proven
<1>3. InStep'
  <2>. SUFFICES ASSUME ~ overlapped, restarts = 0 PROVE InStep'
    BY DEF InStep
  <2>1. Quiet' => Synced'
    BY <1>0, SameRows DEF InStep, Quiet, Synced
  <2>2. \A r \in OpenRequests' :
           /\ request'[r].op = "create" => file' = listed'
           /\ request'[r].op = "delete" => Synced'
    BY <1>0, SameRows DEF InStep, Synced
  <2>3. ASSUME NEW r \in OpenRequests, request[r].op = "approve"
        PROVE  \E w \in rows' :
                  /\ w.id = request'[r].id /\ w.url = request'[r].url
                  /\ request'[r].status = status_after_approval(w)
                  /\ request'[r].queue = (w.status = "pending_review")
                  /\ file' = Ahead(w, TRUE, request[r].status)'
    <3>1. PICK w \in rows :
            /\ w.id = request[r].id /\ w.url = request[r].url
            /\ request[r].status = status_after_approval(w)
            /\ request[r].queue = (w.status = "pending_review")
            /\ file = Ahead(w, TRUE, request[r].status)
      BY <1>0, <2>3 DEF InStep
    <3>2. file' = Ahead(w, TRUE, request[r].status)'
      BY <3>1, SameRows DEF Ahead
    <3>. QED  BY <3>1, <3>2
  <2>4. ASSUME NEW u \in OpenJobs
        PROVE  \E w \in rows' :
                  /\ w.id = job'[u].id /\ w.url = u
                  /\ file' = Ahead(w, w.approved, job[u].status)'
    <3>1. PICK w \in rows :
            /\ w.id = job[u].id /\ w.url = u
            /\ file = Ahead(w, w.approved, job[u].status)
      BY <1>0, <2>4 DEF InStep
    <3>2. file' = Ahead(w, w.approved, job[u].status)'
      BY <3>1, SameRows DEF Ahead
    <3>. QED  BY <3>1, <3>2
  <2>. QED  BY <2>1, <2>2, <2>3, <2>4 DEF InStep, Ahead, status_after_approval
<1>. QED  BY <1>1, <1>2, <1>3 DEF Inv

LEMMA QueueInv ==
  ASSUME Inv, NEW r \in RequestIds, queue_job(r)
  PROVE  Inv'
<1>0. TypeOK
  BY DEF Inv
<1>1. /\ request[r] # Idle /\ request[r].at = "queue"
      /\ request' = [request EXCEPT ![r] = Idle]
      /\ stored' = stored \cup
            {w.url : w \in {x \in row_with(request[r].id) : wants_validation(request[r], x)}}
      /\ UNCHANGED <<rows, file, job, served, restarts, passed, overlapped, deleted, skipped>>
  BY DEF queue_job, Answer
<1>2. \A w \in row_with(request[r].id) : w.url \in Urls
  BY <1>0 DEF TypeOK, Rows, row_with
<1>3. TypeOK'
  BY <1>0, <1>1, <1>2 DEF TypeOK
<1>4. \A s \in RequestIds : s # r => request'[s] = request[s]
  BY <1>0, <1>1 DEF TypeOK
<1>5. request'[r] = Idle
  BY <1>0, <1>1 DEF TypeOK
<1>6. OpenRequests' = OpenRequests /\ r \notin OpenRequests
  BY <1>1, <1>4, <1>5 DEF OpenRequests
<1>7. OpenJobs' = OpenJobs
  BY <1>1 DEF OpenJobs
<1>8. \A s \in OpenRequests : request'[s] = request[s]
  BY <1>4, <1>6 DEF OpenRequests
<1>. QED  BY <1>1, <1>3, <1>6, <1>7, <1>8, Still

(* A job goes from one step to another, none of them a transaction.        *)
LEMMA JobStill ==
  ASSUME Inv, NEW u \in Urls, job[u].at \notin {"starting", "finishing"},
         NEW j \in Jobs \cup {NoJob}, j.at \notin {"starting", "finishing"},
         job' = [job EXCEPT ![u] = j],
         passed \subseteq passed', passed' \subseteq Urls,
         stored' \subseteq Urls, skipped' \subseteq Urls,
         UNCHANGED <<rows, file, request, served, restarts, overlapped, deleted>>
  PROVE  Inv'
<1>0. TypeOK
  BY DEF Inv
<1>1. TypeOK'
  BY <1>0 DEF TypeOK
<1>2. job'[u] = j /\ \A v \in Urls : v # u => job'[v] = job[v]
  BY <1>0 DEF TypeOK
<1>3. OpenJobs' = OpenJobs /\ u \notin OpenJobs
  BY <1>2 DEF OpenJobs
<1>4. \A v \in OpenJobs : job'[v] = job[v]
  BY <1>2, <1>3 DEF OpenJobs
<1>5. OpenRequests' = OpenRequests
  BY DEF OpenRequests
<1>. QED  BY <1>1, <1>3, <1>4, <1>5, Still

LEMMA SubmitInv ==
  ASSUME Inv, NEW u \in Urls, submit_job(u)
  PROVE  Inv'
<1>0. TypeOK
  BY DEF Inv
<1>1. /\ stored' = stored \ {u}
      /\ UNCHANGED <<rows, file, request, served, restarts, passed, overlapped, deleted>>
  BY DEF submit_job
<1>2. CASE job[u] = NoJob /\ job' = [job EXCEPT ![u] = [at |-> "submitted"]] /\ UNCHANGED skipped
  <2>1. [at |-> "submitted"] \in Jobs /\ NoJob.at = "none"
    BY DEF Jobs, NoJob
  <2>. QED  BY <1>0, <1>1, <1>2, <2>1, JobStill DEF TypeOK
<1>3. CASE skipped' = skipped \cup {u} /\ UNCHANGED job
  <2>1. TypeOK'
    BY <1>0, <1>1, <1>3 DEF TypeOK
  <2>2. OpenRequests' = OpenRequests /\ OpenJobs' = OpenJobs
    BY <1>1, <1>3 DEF OpenRequests, OpenJobs
  <2>. QED  BY <1>1, <1>3, <2>1, <2>2, Still
<1>. QED  BY <1>2, <1>3 DEF submit_job

(* The transaction of a job opens, on a row it has read.                   *)
LEMMA Begins ==
  ASSUME Inv, NEW u \in Urls, job[u].at \notin {"starting", "finishing"},
         NEW w \in rows, w.url = u, NEW at, NEW status,
         \/ at = "starting" /\ status = "in_progress"
         \/ at = "finishing" /\ status \in {"validated", "error"},
         job' = [job EXCEPT ![u] = [at |-> at, id |-> w.id, status |-> status]],
         file' = Ahead(w, w.approved, status), Open,
         passed \subseteq passed', passed' \subseteq Urls,
         status = "validated" => u \in passed',
         UNCHANGED <<rows, request, stored, served, restarts, deleted, skipped>>
  PROVE  Inv'
<1>. DEFINE j == [at |-> at, id |-> w.id, status |-> status]
<1>0. TypeOK /\ Accounted /\ Intended /\ Apart /\ Proven /\ InStep
  BY DEF Inv
<1>1. w.id \in Ids /\ w.url \in Urls /\ w.approved \in BOOLEAN
  BY <1>0 DEF TypeOK, Rows
<1>2. j \in Jobs /\ j.at = at /\ j.id = w.id /\ j.status = status
  BY <1>1 DEF Jobs, Statuses
<1>3. job' = [job EXCEPT ![u] = j]
  OBVIOUS
<1>. HIDE DEF j
<1>4. job'[u] = j /\ \A v \in Urls : v # u => job'[v] = job[v]
  BY <1>0, <1>3 DEF TypeOK
<1>5. OpenJobs' = OpenJobs \cup {u} /\ u \notin OpenJobs
  BY <1>2, <1>4 DEF OpenJobs
<1>6. \A v \in OpenJobs : job'[v] = job[v]
  BY <1>4, <1>5 DEF OpenJobs
<1>7. OpenRequests' = OpenRequests
  BY DEF OpenRequests
<1>8. /\ overlapped' = (overlapped \/ ~ Quiet) /\ overlapped' \in BOOLEAN
      /\ ~ overlapped' => ~ overlapped /\ OpenRequests = {} /\ OpenJobs = {}
  BY <1>0 DEF Open, TypeOK, Quiet
<1>9. TypeOK'
  <2>1. file' \subseteq Urls
    BY <1>0, <1>1 DEF Ahead, listed, TypeOK, Rows
  <2>2. job' \in [Urls -> Jobs \cup {NoJob}]
    BY <1>0, <1>2, <1>3 DEF TypeOK
  <2>. QED  BY <1>0, <1>8, <2>1, <2>2 DEF TypeOK
<1>10. Accounted'
  BY <1>0, <1>7 DEF Accounted
<1>11. Intended'
  BY <1>0, <1>2, <1>4, <1>5, <1>6, <1>7 DEF Intended
<1>12. Apart'
  BY <1>5, <1>7, <1>8 DEF Apart
<1>13. Proven'
  <2>. SUFFICES ASSUME ~ (overlapped' /\ deleted') PROVE Proven'
    BY DEF Proven
  <2>1. ~ (overlapped /\ deleted)
    BY <1>8
  <2>2. listed \subseteq passed
    BY <2>1, ServedPassed
  <2>3. file' \subseteq passed'
    <3>1. status \in Good => u \in passed'
      BY DEF Good
    <3>. QED  BY <2>2, <3>1 DEF Ahead
  <2>4. \A v \in OpenJobs' : \E x \in rows' : x.id = job'[v].id /\ x.url = v
    BY <1>0, <1>2, <1>4, <1>5, <1>6, <2>1 DEF Proven
  <2>. QED  BY <1>0, <1>7, <2>1, <2>3, <2>4 DEF Proven
<1>14. InStep'
  <2>. SUFFICES ASSUME ~ overlapped', restarts' = 0 PROVE InStep'
    BY DEF InStep
  <2>1. OpenRequests' = {} /\ OpenJobs' = {u}
    BY <1>5, <1>7, <1>8
  <2>2. file' = Ahead(w, w.approved, job[u].status)'
    BY <1>2, <1>4, SameRows DEF Ahead
  <2>3. w \in rows' /\ w.id = job'[u].id
    BY <1>2, <1>4
  <2>. QED  BY <2>1, <2>2, <2>3 DEF InStep, Quiet, Ahead
<1>. QED  BY <1>9, <1>10, <1>11, <1>12, <1>13, <1>14 DEF Inv

(* set_webseed makes the file what it is once the row has its new status.  *)
LEMMA SetStatus ==
  ASSUME TypeOK, NEW w \in rows, NEW status \in Statuses,
         set_webseed(w, [w EXCEPT !.status = status])
  PROVE  file' = Ahead(w, w.approved, status)
<1>1. w \in Rows
  BY DEF TypeOK
<1>. QED  BY <1>1 DEF set_webseed, sync_webseeds, may_serve, Ahead, Rows, Good

LEMMA BeginInv ==
  ASSUME Inv, NEW u \in Urls, begin(u)
  PROVE  Inv'
<1>0. TypeOK
  BY DEF Inv
<1>1. /\ job[u].at \notin {"starting", "finishing"}
      /\ UNCHANGED <<rows, request, stored, served, restarts, passed, deleted, skipped>>
  BY DEF begin
<1>2. CASE \E w \in row_of(u) :
             /\ set_webseed(w, [w EXCEPT !.status = "in_progress"])
             /\ job' = [job EXCEPT ![u] = [at |-> "starting", id |-> w.id, status |-> "in_progress"]]
             /\ Open
  <2>1. PICK w \in row_of(u) :
             /\ set_webseed(w, [w EXCEPT !.status = "in_progress"])
             /\ job' = [job EXCEPT ![u] = [at |-> "starting", id |-> w.id, status |-> "in_progress"]]
             /\ Open
    BY <1>2
  <2>2. w \in rows /\ w.url = u
    BY DEF row_of
  <2>3. file' = Ahead(w, w.approved, "in_progress")
    BY <1>0, <2>1, <2>2, SetStatus DEF Statuses
  <2>4. passed' \subseteq Urls
    BY <1>0, <1>1 DEF TypeOK
  <2>. QED  BY <1>1, <2>1, <2>2, <2>3, <2>4, Begins
<1>3. CASE job' = [job EXCEPT ![u] = [at |-> "ended"]] /\ UNCHANGED <<file, overlapped>>
  <2>1. [at |-> "ended"] \in Jobs
    BY DEF Jobs
  <2>. QED  BY <1>0, <1>1, <1>3, <2>1, JobStill DEF TypeOK
<1>. QED  BY <1>2, <1>3 DEF begin

LEMMA FinishInv ==
  ASSUME Inv, NEW u \in Urls, NEW result \in {"validated", "error"}, finish(u, result)
  PROVE  Inv'
<1>0. TypeOK
  BY DEF Inv
<1>1. /\ job[u].at \notin {"starting", "finishing"}
      /\ passed' = IF result = "validated" THEN passed \cup {u} ELSE passed
      /\ UNCHANGED <<rows, request, stored, served, restarts, deleted, skipped>>
  BY DEF finish
<1>2. /\ passed \subseteq passed' /\ passed' \subseteq Urls
      /\ result = "validated" => u \in passed'
  BY <1>0, <1>1 DEF TypeOK
<1>3. CASE \E w \in row_of(u) :
             /\ set_webseed(w, [w EXCEPT !.status = result])
             /\ job' = [job EXCEPT ![u] = [at |-> "finishing", id |-> w.id, status |-> result]]
             /\ Open
  <2>1. PICK w \in row_of(u) :
             /\ set_webseed(w, [w EXCEPT !.status = result])
             /\ job' = [job EXCEPT ![u] = [at |-> "finishing", id |-> w.id, status |-> result]]
             /\ Open
    BY <1>3
  <2>2. w \in rows /\ w.url = u
    BY DEF row_of
  <2>3. file' = Ahead(w, w.approved, result)
    BY <1>0, <2>1, <2>2, SetStatus DEF Statuses
  <2>. QED  BY <1>1, <1>2, <2>1, <2>2, <2>3, Begins
<1>4. CASE job' = [job EXCEPT ![u] = [at |-> "ended"]] /\ UNCHANGED <<file, overlapped>>
  <2>1. [at |-> "ended"] \in Jobs
    BY DEF Jobs
  <2>. QED  BY <1>0, <1>1, <1>2, <1>4, <2>1, JobStill DEF TypeOK
<1>. QED  BY <1>3, <1>4 DEF finish

(* The transaction of a job commits, or fails as its row is gone.          *)
LEMMA CommitInv ==
  ASSUME Inv, NEW u \in Urls, job[u].at \in {"starting", "finishing"},
         NEW at \in {"validating", "ended"}, commit_job(u, at)
  PROVE  Inv'
<1>0. TypeOK /\ Accounted /\ Intended /\ Apart /\ Proven /\ InStep
  BY DEF Inv
<1>1. UNCHANGED <<file, request, stored, served, restarts, passed, overlapped, deleted, skipped>>
  BY DEF commit_job
<1>2. PICK j \in Jobs :
        j.at \notin {"starting", "finishing"} /\ job' = [job EXCEPT ![u] = j]
  <2>1. [at |-> at] \in Jobs /\ [at |-> "ended"] \in Jobs
    BY DEF Jobs
  <2>. QED  BY <2>1 DEF commit_job
<1>3. job'[u] = j /\ \A v \in Urls : v # u => job'[v] = job[v]
  BY <1>0, <1>2 DEF TypeOK
<1>4. u \in OpenJobs /\ OpenJobs' = OpenJobs \ {u}
  BY <1>2, <1>3 DEF OpenJobs
<1>5. \A v \in OpenJobs' : job'[v] = job[v]
  BY <1>3, <1>4 DEF OpenJobs
<1>6. OpenRequests' = OpenRequests
  BY <1>1 DEF OpenRequests
<1>7. Intended' /\ Apart'
  <2>1. Intended'
    BY <1>0, <1>1, <1>4, <1>5, <1>6 DEF Intended
  <2>2. Apart'
    BY <1>0, <1>1, <1>4, <1>6 DEF Apart
  <2>. QED  BY <2>1, <2>2
<1>8. ~ overlapped => OpenRequests' = {} /\ OpenJobs' = {}
  BY <1>0, <1>4, <1>6 DEF Apart
<1>9. job' \in [Urls -> Jobs \cup {NoJob}]
  BY <1>0, <1>2 DEF TypeOK
<1>. DEFINE id == job[u].id
            status == job[u].status
<1>10. /\ status \in Statuses
       /\ status \in Good => u \in passed
  BY <1>0, <1>4 DEF Intended, Statuses, Good
<1>11. CASE row_with(id) # {}
  <2>1. update(id, FALSE, status)
    BY <1>11 DEF commit_job
  <2>. HIDE DEF id, status
  <2>2. Written(id, FALSE, status, FALSE)
    BY <1>0, <1>10, <2>1, Updated
  <2>3. Carried(id, status, FALSE)
    BY <2>2, WrittenKeeps
  <2>4. TypeOK'
    <3>1. /\ rows' \subseteq Rows
          /\ \A w, x \in rows' : w.id = x.id \/ w.url = x.url => w = x
      BY <1>0, <2>2, WrittenRows
    <3>. QED  BY <1>0, <1>1, <1>9, <3>1 DEF TypeOK
  <2>5. Accounted'
    <3>1. \A y \in rows' : \E w \in rows : y.id = w.id
      BY <2>3 DEF Carried
    <3>. QED  BY <1>0, <1>1, <1>6, <3>1 DEF Accounted
  <2>6. Proven'
    <3>. SUFFICES ASSUME ~ (overlapped /\ deleted) PROVE Proven'
      BY <1>1 DEF Proven
    <3>1. \A w \in rows : w.id = id => w.url = u
      BY <1>0, <1>4 DEF Proven, TypeOK, id
    <3>2. \A y \in rows' : y.status \in Good => y.url \in passed
      BY <1>0, <1>10, <2>3, <3>1 DEF Proven, Carried
    <3>3. \A v \in OpenJobs' : \E w \in rows' : w.id = job'[v].id /\ w.url = v
      BY <1>0, <1>4, <1>5, <2>3 DEF Proven, Carried
    <3>4. \A r \in OpenRequests' :
             request'[r].op # "create" =>
                \E w \in rows' : w.id = request'[r].id /\ w.url = request'[r].url
      BY <1>0, <1>1, <1>6, <2>3 DEF Proven, Carried
    <3>. QED  BY <1>0, <1>1, <3>2, <3>3, <3>4 DEF Proven
  <2>7. InStep'
    <3>. SUFFICES ASSUME ~ overlapped, restarts = 0 PROVE InStep'
      BY <1>1 DEF InStep
    <3>1. PICK w \in rows :
            w.id = id /\ w.url = u /\ file = Ahead(w, w.approved, status)
      BY <1>0, <1>4 DEF InStep, id, status
    <3>2. listed' = Ahead(w, w.approved \/ FALSE, status)
      BY <1>0, <2>2, <3>1, WrittenListed
    <3>3. file' = listed'
      BY <1>1, <3>1, <3>2 DEF Ahead
    <3>. QED  BY <1>8, <3>3 DEF InStep, Synced
  <2>. QED  BY <1>7, <2>4, <2>5, <2>6, <2>7 DEF Inv
<1>12. CASE row_with(id) = {}
  <2>1. UNCHANGED rows
    BY <1>12 DEF commit_job
  <2>2. TypeOK'
    BY <1>0, <1>1, <1>9, <2>1 DEF TypeOK
  <2>3. Accounted'
    BY <1>0, <1>1, <1>6, <2>1 DEF Accounted
  <2>4. Proven'
    BY <1>0, <1>1, <1>4, <1>5, <1>6, <2>1 DEF Proven
  <2>5. InStep'
    BY <1>0, <1>1, <1>4, <1>12 DEF InStep, row_with
  <2>. QED  BY <1>7, <2>2, <2>3, <2>4, <2>5 DEF Inv
<1>. QED  BY <1>11, <1>12

LEMMA FreeInv ==
  ASSUME Inv, NEW u \in Urls, free(u)
  PROVE  Inv'
<1>1. NoJob.at = "none"
  BY DEF NoJob
<1>. QED  BY <1>1, JobStill DEF free, Inv, TypeOK

(* The open transactions of the jobs are gone, and what they wrote into    *)
(* the file stays.                                                         *)
LEMMA RestartInv ==
  ASSUME Inv, restart
  PROVE  Inv'
<1>0. TypeOK /\ Accounted /\ Intended /\ Apart /\ Proven
  BY DEF Inv
<1>1. /\ restarts < MaxRestarts /\ restarts' = restarts + 1
      /\ job' = [u \in Urls |-> NoJob]
      /\ UNCHANGED <<rows, file, request, stored, served, passed, overlapped, deleted, skipped>>
  BY DEF restart
<1>2. OpenRequests' = OpenRequests /\ OpenJobs' = {}
  BY <1>1 DEF OpenRequests, OpenJobs, NoJob
<1>3. restarts' \in 0..MaxRestarts /\ restarts' # 0
  BY <1>0, <1>1, WebseedsAssumption DEF TypeOK
<1>4. TypeOK'
  BY <1>0, <1>1, <1>3 DEF TypeOK
<1>5. Accounted' /\ Intended' /\ Apart'
  BY <1>0, <1>1, <1>2 DEF Accounted, Intended, Apart
<1>6. Proven'
  BY <1>0, <1>1, <1>2 DEF Proven
<1>7. InStep'
  BY <1>3 DEF InStep
<1>. QED  BY <1>4, <1>5, <1>6, <1>7 DEF Inv
-----------------------------------------------------------------------------
LEMMA StepInv == Inv /\ [Next]_vars => Inv'
<1>. SUFFICES ASSUME Inv, [Next]_vars PROVE Inv'
  OBVIOUS
<1>1. CASE \E r \in RequestIds : Load(r) \/ Handle(r)
  <2>1. PICK r \in RequestIds : Load(r) \/ Handle(r)
    BY <1>1
  <2>. QED  BY <2>1, LoadInv, CreateInv, ApproveInv, DeleteInv, QueueInv DEF Handle
<1>2. CASE \E u \in Urls : Work(u)
  <2>1. PICK u \in Urls : Work(u)
    BY <1>2
  <2>2. CASE submit_job(u) \/ begin(u) \/ free(u)
    BY <2>2, SubmitInv, BeginInv, FreeInv
  <2>3. CASE claim(u) \/ record(u)
    BY <2>3, CommitInv DEF claim, record
  <2>4. CASE \E result \in {"validated", "error"} : finish(u, result)
    BY <2>4, FinishInv
  <2>. QED  BY <2>1, <2>2, <2>3, <2>4 DEF Work
<1>3. CASE restart
  BY <1>3, RestartInv
<1>4. CASE UNCHANGED vars
  <2>1. TypeOK'
    BY <1>4 DEF Inv, TypeOK, vars
  <2>2. OpenRequests' = OpenRequests /\ OpenJobs' = OpenJobs
    BY <1>4 DEF OpenRequests, OpenJobs, vars
  <2>. QED  BY <1>4, <2>1, <2>2, Still DEF vars
<1>. QED  BY <1>1, <1>2, <1>3, <1>4 DEF Next

LEMMA Invariant == Spec => []Inv
BY InitInv, StepInv, PTL DEF Spec

(* Rows keep their types and are one per id and one per url, though the id *)
(* of a deleted row is given again: create_webseed inserts.                *)
THEOREM TypeCorrect == Spec => []TypeOK
<1>1. Inv => TypeOK
  BY DEF Inv
<1>. QED  BY <1>1, Invariant, PTL

(* The torrent file lists no url that was neither in the original torrent  *)
(* nor found good by validate_webseed_service, unless transactions have    *)
(* overlapped and a webseed has been deleted.                              *)
THEOREM ServesProven == Spec => []OnlyProvenServed
<1>1. Inv => OnlyProvenServed
  BY DEF Inv, Proven, OnlyProvenServed
<1>. QED  BY <1>1, Invariant, PTL

(* While transactions do not overlap and the scheduler does not stop,      *)
(* the file lists between them the rows that may be served, and besides    *)
(* them only urls of deleted rows: what the listeners of _sync_webseeds    *)
(* write before a commit is what is committed.                             *)
THEOREM InSync == Spec => []InSyncAlone
<1>1. Inv => InSyncAlone
  BY DEF Inv, InStep, Synced, InSyncAlone
<1>. QED  BY <1>1, Invariant, PTL

-----------------------------------------------------------------------------
(* The scheduler of those jobs, for every set of workers, of process names *)
(* and of jobs, and any number of stops and kills.                         *)

(* The workers that wait for their process and then release.               *)
Stopping == {w \in Workers : worker[w] = "stopping"}

(* Each release is that of a stop, made or still to be made.               *)
Budgeted ==
    /\ IsFiniteSet(Stopping)
    /\ semaphore + Cardinality(Stopping) <= 1 + stops
    /\ strays <= stops

(* A deployment has schedulers of one kind, in workers that are up; a      *)
(* worker waits only for a process of its own.                             *)
Placed ==
    /\ mode = "local" =>
          /\ \A w \in Workers : process[w] = NoServer
          /\ \A s \in Servers : server[s] = "none"
    /\ mode = "rpc" => local = {}
    /\ \A w \in Workers : worker[w] = "down" => process[w] = NoServer /\ w \notin local
    /\ \A w \in Workers : worker[w] \in {"stopping", "leaving"} => process[w] # NoServer

(* As long as no worker released what it had not acquired: the semaphore   *)
(* is free at most once, and only when no scheduler and no owner of one is *)
(* left; there is one of each at most, and what runs is what is owned.     *)
Single ==
    strays = 0 =>
        /\ semaphore <= 1
        /\ semaphore = 1 =>
              /\ local = {}
              /\ \A w \in Workers : process[w] = NoServer
              /\ \A s \in Servers : server[s] = "none"
        /\ \A v, w \in local : v = w
        /\ \A v, w \in Workers : process[v] # NoServer /\ process[w] # NoServer => v = w
        /\ \A s, t \in Servers : server[s] # "none" /\ server[t] # "none" => s = t
        /\ \A w \in Workers, s \in Servers :
              process[w] # NoServer /\ server[s] # "none" => process[w] = s

SchedulerSynced(j) == j \in job_store <=> j \in enabled

(* A job that a running scheduler has been through is in line with the     *)
(* configuration, whatever other schedulers do to the same store.          *)
Stored ==
    /\ local # {} => \A j \in RegisteredJobs : SchedulerSynced(j)
    /\ \A s \in Servers : server[s] = "adding" => \A j \in RegisteredJobs \ todo[s] : SchedulerSynced(j)
    /\ \A s \in Servers : server[s] \in {"serving", "quitting"} =>
          \A j \in RegisteredJobs : SchedulerSynced(j)

SchedulerInv == SchedulerTypeOK /\ Budgeted /\ Placed /\ Single /\ Stored

LEMMA SchedulerInitInv == SchedulerInit => SchedulerInv
<1>. SUFFICES ASSUME SchedulerInit PROVE SchedulerInv
  OBVIOUS
<1>1. SchedulerTypeOK
  BY SchedulerAssumption DEF SchedulerInit, SchedulerTypeOK, WorkerStates, ServerStates
<1>2. Budgeted
  <2>1. Stopping = {}
    BY DEF SchedulerInit, Stopping
  <2>. QED  BY <2>1, FS_EmptySet DEF SchedulerInit, Budgeted
<1>3. Placed /\ Single /\ Stored
  BY DEF SchedulerInit, Placed, Single, Stored
<1>. QED  BY <1>1, <1>2, <1>3 DEF SchedulerInv
-----------------------------------------------------------------------------
(* What has been stored in line with the configuration stays so.           *)
LEMMA Added ==
  ASSUME NEW J \in SUBSET RegisteredJobs, job_store' = add_registered_jobs(J), UNCHANGED enabled
  PROVE  \A j \in RegisteredJobs : SchedulerSynced(j) \/ j \in J => SchedulerSynced(j)'
BY DEF add_registered_jobs, SchedulerSynced

LEMMA StartInv ==
  ASSUME SchedulerInv, NEW w \in Workers, lifespan_start(w)
  PROVE  SchedulerInv'
<1>. USE DEF SchedulerInv
<1>0. /\ worker[w] = "down" /\ process[w] = NoServer /\ w \notin local
      /\ worker' = [worker EXCEPT ![w] = "up"]
      /\ UNCHANGED <<mode, enabled, strays, stops, crashes>>
  BY DEF lifespan_start, Placed
<1>1. Stopping' = Stopping
  BY <1>0 DEF Stopping, SchedulerTypeOK
<1>2. CASE semaphore > 0 /\ mode = "local"
  <2>1. /\ semaphore' = semaphore - 1 /\ local' = local \cup {w}
        /\ job_store' = add_registered_jobs(RegisteredJobs)
        /\ UNCHANGED <<process, server, todo>>
    BY <1>2 DEF lifespan_start, start, local_start_scheduler
  <2>2. SchedulerTypeOK'
    <3>1. semaphore' \in 0 .. 1 + MaxStops
      BY <1>2, <2>1, SchedulerAssumption DEF SchedulerTypeOK
    <3>. QED  BY <1>0, <2>1, <3>1 DEF SchedulerTypeOK, WorkerStates, add_registered_jobs
  <2>3. Budgeted'
    BY <1>0, <1>1, <2>1, FS_CardinalityType DEF Budgeted, SchedulerTypeOK
  <2>4. Placed'
    BY <1>0, <1>2, <2>1 DEF Placed, SchedulerTypeOK
  <2>5. Single'
    BY <1>0, <1>2, <2>1 DEF Single, SchedulerTypeOK
  <2>6. Stored'
    BY <1>0, <2>1, Added DEF Stored
  <2>. QED  BY <2>2, <2>3, <2>4, <2>5, <2>6
<1>3. CASE semaphore > 0 /\ mode # "local"
  <2>1. PICK s \in Servers :
          /\ server[s] = "none"
          /\ \A v \in Workers : process[v] # s
          /\ server' = [server EXCEPT ![s] = "spawned"]
          /\ process' = [process EXCEPT ![w] = s]
    BY <1>3 DEF lifespan_start, start, rpc_start_scheduler
  <2>2. semaphore' = semaphore - 1 /\ UNCHANGED <<local, job_store, todo>>
    BY <1>3 DEF lifespan_start, start, rpc_start_scheduler
  <2>3. SchedulerTypeOK'
    <3>1. semaphore' \in 0 .. 1 + MaxStops
      BY <1>3, <2>2, SchedulerAssumption DEF SchedulerTypeOK
    <3>. QED  BY <1>0, <2>1, <2>2, <3>1 DEF SchedulerTypeOK, WorkerStates, ServerStates
  <2>4. Budgeted'
    BY <1>0, <1>1, <2>2, FS_CardinalityType DEF Budgeted, SchedulerTypeOK
  <2>5. Placed'
    BY <1>0, <1>3, <2>1, <2>2, SchedulerAssumption DEF Placed, SchedulerTypeOK
  <2>6. Single'
    BY <1>0, <1>3, <2>1, <2>2, SchedulerAssumption DEF Single, SchedulerTypeOK
  <2>7. Stored'
    BY <1>0, <2>1, <2>2 DEF Stored, SchedulerSynced, SchedulerTypeOK
  <2>. QED  BY <2>3, <2>4, <2>5, <2>6, <2>7
<1>4. CASE ~ (semaphore > 0)
  <2>1. UNCHANGED <<semaphore, local, job_store, process, server, todo>>
    BY <1>4 DEF lifespan_start, start
  <2>2. SchedulerTypeOK'
    BY <1>0, <2>1 DEF SchedulerTypeOK, WorkerStates
  <2>3. Budgeted' /\ Single' /\ Stored'
    BY <1>0, <1>1, <2>1 DEF Budgeted, Single, Stored, SchedulerSynced
  <2>4. Placed'
    BY <1>0, <2>1 DEF Placed, SchedulerTypeOK
  <2>. QED  BY <2>2, <2>3, <2>4
<1>. QED  BY <1>2, <1>3, <1>4

LEMMA RunInv ==
  ASSUME SchedulerInv, NEW s \in Servers, run(s) \/ KillServer(s)
  PROVE  SchedulerInv'
<1>. USE DEF SchedulerInv
<1>0. UNCHANGED <<mode, enabled, semaphore, worker, process, local, strays, stops>>
  BY DEF run, create_scheduler, add_registered_job, create_server, close_server,
         run_finally, KillServer
<1>1. Budgeted'
  BY <1>0 DEF Budgeted, Stopping
<1>2. CASE add_registered_job(s)
  <2>1. PICK j \in todo[s] :
          /\ server[s] = "adding"
          /\ job_store' = add_registered_jobs({j})
          /\ todo' = [todo EXCEPT ![s] = @ \ {j}]
          /\ UNCHANGED <<server, crashes>>
    BY <1>2 DEF add_registered_job
  <2>2. j \in RegisteredJobs
    BY <2>1 DEF SchedulerTypeOK
  <2>3. \A i \in RegisteredJobs : SchedulerSynced(i) \/ i = j => SchedulerSynced(i)'
    BY <1>0, <2>1, <2>2, Added
  <2>4. SchedulerTypeOK'
    BY <1>0, <2>1, <2>2 DEF SchedulerTypeOK, add_registered_jobs
  <2>5. Placed' /\ Single'
    BY <1>0, <2>1 DEF Placed, Single
  <2>6. Stored'
    BY <1>0, <2>1, <2>3 DEF Stored, SchedulerTypeOK
  <2>. QED  BY <1>1, <2>4, <2>5, <2>6
<1>3. CASE ~ add_registered_job(s)
  <2>1. /\ UNCHANGED job_store
        /\ server[s] # "none"
        /\ \E state \in ServerStates :
              /\ server' = [server EXCEPT ![s] = state]
              /\ state \in {"serving", "quitting"} =>
                    server[s] = "adding" /\ todo[s] = {} /\ UNCHANGED todo
              /\ state = "adding" => todo' = [todo EXCEPT ![s] = RegisteredJobs]
              /\ state # "adding" => UNCHANGED todo
        /\ crashes' \in 0 .. MaxCrashes
    BY <1>3, SchedulerAssumption
    DEF run, create_scheduler, create_server, close_server, run_finally, KillServer,
        bound, ServerStates, SchedulerTypeOK
  <2>2. SchedulerTypeOK'
    BY <1>0, <2>1 DEF SchedulerTypeOK
  <2>3. Placed'
    BY <1>0, <2>1 DEF Placed, SchedulerTypeOK
  <2>4. Single'
    BY <1>0, <2>1 DEF Single, SchedulerTypeOK
  <2>5. Stored'
    BY <1>0, <2>1 DEF Stored, SchedulerSynced, SchedulerTypeOK
  <2>. QED  BY <1>1, <2>2, <2>3, <2>4, <2>5
<1>. QED  BY <1>2, <1>3

LEMMA StopInv ==
  ASSUME SchedulerInv, NEW w \in Workers, lifespan_stop(w)
  PROVE  SchedulerInv'
<1>. USE DEF SchedulerInv
<1>0. /\ worker[w] = "up" /\ stops' = stops + 1 /\ stops' \in 0 .. MaxStops
      /\ UNCHANGED <<mode, enabled, job_store, todo, crashes>>
      /\ semaphore \in Nat /\ stops \in Nat /\ strays \in Nat
  BY SchedulerAssumption DEF lifespan_stop, SchedulerTypeOK
<1>1. w \notin Stopping /\ IsFiniteSet(Stopping) /\ Cardinality(Stopping) \in Nat
  BY <1>0, FS_CardinalityType DEF Stopping, Budgeted
<1>2. CASE local_shutdown(w)
  <2>1. /\ mode = "local"
        /\ worker' = [worker EXCEPT ![w] = "down"]
        /\ process' = [process EXCEPT ![w] = NoServer]
        /\ UNCHANGED <<server, strays>>
        /\ \/ w \in local /\ local' = local \ {w} /\ semaphore' = semaphore + 1
           \/ w \notin local /\ UNCHANGED <<local, semaphore>>
    BY <1>2 DEF local_shutdown, Exit, release
  <2>2. Stopping' = Stopping
    BY <1>0, <2>1 DEF Stopping, SchedulerTypeOK
  <2>3. Budgeted'
    BY <1>0, <1>1, <2>1, <2>2 DEF Budgeted
  <2>4. SchedulerTypeOK'
    <3>1. semaphore' \in 0 .. 1 + MaxStops
      BY <1>0, <1>1, <2>1, <2>2, <2>3, SchedulerAssumption DEF Budgeted
    <3>. QED  BY <1>0, <2>1, <3>1 DEF SchedulerTypeOK, WorkerStates
  <2>5. Placed'
    BY <1>0, <2>1 DEF Placed, SchedulerTypeOK
  <2>6. Single'
    BY <1>0, <2>1 DEF Placed, Single, SchedulerTypeOK
  <2>7. Stored'
    BY <1>0, <2>1 DEF Stored, SchedulerSynced
  <2>. QED  BY <2>3, <2>4, <2>5, <2>6, <2>7
<1>3. CASE rpc_shutdown_other(w)
  <2>1. /\ semaphore' = semaphore + 1 /\ strays' = strays + 1
        /\ process[w] = NoServer /\ mode = "rpc"
        /\ worker' = [worker EXCEPT ![w] = "down"]
        /\ process' = [process EXCEPT ![w] = NoServer]
        /\ UNCHANGED <<local, server>>
    BY <1>3 DEF rpc_shutdown_other, Exit, release
  <2>2. Stopping' = Stopping
    BY <1>0, <2>1 DEF Stopping, SchedulerTypeOK
  <2>3. Budgeted'
    BY <1>0, <1>1, <2>1, <2>2 DEF Budgeted
  <2>4. SchedulerTypeOK'
    <3>1. semaphore' \in 0 .. 1 + MaxStops
      BY <1>0, <1>1, <2>1, <2>2, <2>3, SchedulerAssumption DEF Budgeted
    <3>2. strays' \in 0 .. MaxStops
      BY <1>0, <2>1, <2>3, SchedulerAssumption DEF Budgeted
    <3>. QED  BY <1>0, <2>1, <3>1, <3>2 DEF SchedulerTypeOK, WorkerStates
  <2>5. Placed'
    BY <1>0, <2>1 DEF Placed, SchedulerTypeOK
  <2>6. Single'
    BY <1>0, <2>1 DEF Single
  <2>7. Stored'
    BY <1>0, <2>1 DEF Stored, SchedulerSynced
  <2>. QED  BY <2>3, <2>4, <2>5, <2>6, <2>7
<1>4. CASE rpc_shutdown(w)
  <2>1. /\ process[w] # NoServer /\ mode = "rpc"
        /\ worker' = [worker EXCEPT ![w] = "stopping"]
        /\ UNCHANGED <<semaphore, local, process, strays>>
        /\ \/ UNCHANGED server
           \/ \E s \in Servers : /\ server[s] = "serving"
                                 /\ server' = [server EXCEPT ![s] = "quitting"]
    BY <1>4 DEF rpc_shutdown
  <2>2. Stopping' = Stopping \cup {w}
    BY <1>0, <2>1 DEF Stopping, SchedulerTypeOK
  <2>3. IsFiniteSet(Stopping') /\ Cardinality(Stopping') = Cardinality(Stopping) + 1
    BY <1>1, <2>2, FS_AddElement
  <2>4. Budgeted'
    BY <1>0, <1>1, <2>1, <2>3 DEF Budgeted
  <2>5. SchedulerTypeOK'
    BY <1>0, <2>1 DEF SchedulerTypeOK, WorkerStates, ServerStates
  <2>6. Placed'
    BY <1>0, <2>1 DEF Placed, SchedulerTypeOK
  <2>7. Single'
    BY <1>0, <2>1 DEF Single, SchedulerTypeOK
  <2>8. Stored'
    BY <1>0, <2>1 DEF Stored, SchedulerSynced, SchedulerTypeOK
  <2>. QED  BY <2>4, <2>5, <2>6, <2>7, <2>8
<1>5. CASE rpc_shutdown_reset(w)
  <2>1. /\ process[w] # NoServer
        /\ worker' = [worker EXCEPT ![w] = "leaving"]
        /\ UNCHANGED <<semaphore, local, server, process, strays>>
    BY <1>5 DEF rpc_shutdown_reset
  <2>2. Stopping' = Stopping
    BY <1>0, <2>1 DEF Stopping, SchedulerTypeOK
  <2>3. Budgeted'
    BY <1>0, <1>1, <2>1, <2>2 DEF Budgeted
  <2>4. SchedulerTypeOK'
    BY <1>0, <2>1 DEF SchedulerTypeOK, WorkerStates
  <2>5. Placed'
    BY <1>0, <2>1 DEF Placed, SchedulerTypeOK
  <2>6. Single' /\ Stored'
    BY <1>0, <2>1 DEF Single, Stored, SchedulerSynced
  <2>. QED  BY <2>3, <2>4, <2>5, <2>6
<1>. QED  BY <1>2, <1>3, <1>4, <1>5 DEF lifespan_stop

(* A worker that ends without a release: killed, or after a reset.         *)
LEMMA LeaveInv ==
  ASSUME SchedulerInv, NEW w \in Workers, leave(w) \/ KillWorker(w)
  PROVE  SchedulerInv'
<1>. USE DEF SchedulerInv
<1>1. /\ worker' = [worker EXCEPT ![w] = "down"]
      /\ process' = [process EXCEPT ![w] = NoServer]
      /\ local' = local \/ local' = local \ {w}
      /\ UNCHANGED <<mode, enabled, job_store, semaphore, server, todo, strays, stops>>
      /\ crashes' \in 0 .. MaxCrashes
  BY SchedulerAssumption DEF leave, KillWorker, Exit, SchedulerTypeOK
<1>2. w \notin local'
  BY <1>1 DEF leave, KillWorker, Placed, SchedulerTypeOK
<1>3. Budgeted'
  <2>1. Stopping' = Stopping \ {w}
    BY <1>1 DEF Stopping, SchedulerTypeOK
  <2>2. IsFiniteSet(Stopping') /\ Cardinality(Stopping') <= Cardinality(Stopping)
    BY <2>1, FS_Subset DEF Budgeted
  <2>3. Cardinality(Stopping') \in Nat /\ Cardinality(Stopping) \in Nat
    BY <2>2, FS_CardinalityType DEF Budgeted
  <2>. QED  BY <1>1, <2>2, <2>3 DEF Budgeted, SchedulerTypeOK
<1>4. SchedulerTypeOK'
  BY <1>1 DEF SchedulerTypeOK, WorkerStates
<1>5. Placed'
  BY <1>1, <1>2 DEF Placed, SchedulerTypeOK
<1>6. Single'
  BY <1>1 DEF Single, SchedulerTypeOK
<1>7. Stored'
  BY <1>1 DEF Stored, SchedulerSynced
<1>. QED  BY <1>3, <1>4, <1>5, <1>6, <1>7

LEMMA JoinInv ==
  ASSUME SchedulerInv, NEW w \in Workers, join_or_kill(w)
  PROVE  SchedulerInv'
<1>. USE DEF SchedulerInv
<1>1. /\ worker[w] = "stopping" /\ process[w] \in Servers
      /\ server' = [server EXCEPT ![process[w]] = "none"]
      /\ semaphore' = semaphore + 1
      /\ worker' = [worker EXCEPT ![w] = "down"]
      /\ process' = [process EXCEPT ![w] = NoServer]
      /\ UNCHANGED <<mode, enabled, job_store, local, todo, strays, stops, crashes>>
      /\ mode = "rpc" /\ local = {}
      /\ semaphore \in Nat /\ stops \in Nat /\ strays \in Nat
  BY DEF join_or_kill, Exit, release, Placed, SchedulerTypeOK
<1>2. Stopping' = Stopping \ {w} /\ w \in Stopping
  BY <1>1 DEF Stopping, SchedulerTypeOK
<1>3. /\ IsFiniteSet(Stopping') /\ Cardinality(Stopping') = Cardinality(Stopping) - 1
      /\ Cardinality(Stopping) \in Nat
  BY <1>2, FS_RemoveElement, FS_CardinalityType DEF Budgeted
<1>4. Budgeted'
  BY <1>1, <1>3 DEF Budgeted
<1>5. SchedulerTypeOK'
  <2>1. Cardinality(Stopping') \in Nat /\ stops' \in 0 .. MaxStops
    BY <1>1, <1>3, FS_CardinalityType DEF SchedulerTypeOK
  <2>2. semaphore' \in 0 .. 1 + MaxStops
    BY <1>1, <1>4, <2>1, SchedulerAssumption DEF Budgeted
  <2>. QED  BY <1>1, <2>2 DEF SchedulerTypeOK, WorkerStates, ServerStates
<1>6. Placed'
  BY <1>1 DEF Placed, SchedulerTypeOK
<1>7. Single'
  <2>. SUFFICES ASSUME strays = 0 PROVE Single'
    BY <1>1 DEF Single
  <2>1. semaphore' = 1
    BY <1>1, SchedulerAssumption DEF Single, SchedulerTypeOK
  <2>2. \A v \in Workers : process'[v] = NoServer
    BY <1>1, SchedulerAssumption DEF Single, SchedulerTypeOK
  <2>3. \A s \in Servers : server'[s] = "none"
    BY <1>1, SchedulerAssumption DEF Single, SchedulerTypeOK
  <2>. QED  BY <1>1, <2>1, <2>2, <2>3 DEF Single
<1>8. Stored'
  BY <1>1 DEF Stored, SchedulerSynced, SchedulerTypeOK
<1>. QED  BY <1>4, <1>5, <1>6, <1>7, <1>8

LEMMA SchedulerStepInv == SchedulerInv /\ [SchedulerNext]_scheduler_vars => SchedulerInv'
<1>1. SchedulerInv /\ SchedulerNext => SchedulerInv'
  BY StartInv, StopInv, JoinInv, LeaveInv, RunInv DEF SchedulerNext
<1>2. SchedulerInv /\ UNCHANGED scheduler_vars => SchedulerInv'
  BY DEF scheduler_vars, SchedulerInv, SchedulerTypeOK, Budgeted, Stopping, Placed, Single, Stored, SchedulerSynced
<1>. QED  BY <1>1, <1>2

LEMMA SchedulerInvariant == SchedulerSpec => []SchedulerInv
<1>. QED  BY SchedulerInitInv, SchedulerStepInv, PTL DEF SchedulerSpec
-----------------------------------------------------------------------------
(* Every variable stays within its type: in particular the semaphore is    *)
(* released at most once for each time a worker stops.                     *)
THEOREM SchedulerTypeCorrect == SchedulerSpec => []SchedulerTypeOK
<1>1. SchedulerInv => SchedulerTypeOK
  BY DEF SchedulerInv
<1>. QED  BY <1>1, SchedulerInvariant, PTL

(* As long as no worker releases a semaphore it had not acquired, at most  *)
(* one scheduler runs, in whatever order workers and processes start, stop *)
(* and are killed.                                                         *)
THEOREM Alone == SchedulerSpec => []OneSchedulerAlone
<1>1. ASSUME SchedulerInv, strays = 0 PROVE Cardinality(Live) <= 1
  <2>1. \A x, y \in Live : x = y
    BY <1>1 DEF SchedulerInv, SchedulerTypeOK, Placed, Single, Live, Ticking
  <2>2. CASE Live = {}
    BY <2>2, FS_EmptySet
  <2>3. CASE Live # {}
    <3>1. PICK x \in Live : Live = {x}
      BY <2>1, <2>3
    <3>2. Cardinality({x}) = 1
      BY FS_Singleton
    <3>. QED  BY <3>1, <3>2
  <2>. QED  BY <2>2, <2>3
<1>2. SchedulerInv => OneSchedulerAlone
  BY <1>1 DEF OneSchedulerAlone, OneScheduler
<1>. QED  BY <1>2, SchedulerInvariant, PTL

(* A scheduler that answers, and a local one, has every registered job in  *)
(* the store that is switched on and none that is switched off, even while *)
(* other schedulers go through the same store.                             *)
THEOREM StoreInLine == SchedulerSpec => []StoreFollowsConfig
<1>1. ASSUME SchedulerInv, local # {} \/ PortBound PROVE job_store \cap RegisteredJobs = enabled
  <2>1. \A j \in RegisteredJobs : SchedulerSynced(j)
    BY <1>1 DEF SchedulerInv, Stored, PortBound
  <2>. QED  BY <1>1, <2>1 DEF SchedulerInv, SchedulerTypeOK, SchedulerSynced
<1>2. SchedulerInv => StoreFollowsConfig
  BY <1>1 DEF StoreFollowsConfig
<1>. QED  BY <1>2, SchedulerInvariant, PTL
=============================================================================
