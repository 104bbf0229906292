---------------------------- MODULE ClaimsProofs ----------------------------
(***************************************************************************)
(* Proofs about Claims, for every set of accounts, of parts, of requests   *)
(* and every bound on the requests served.                                 *)
(***************************************************************************)
EXTENDS Claims, FiniteSetTheorems, WellFoundedInduction, TLAPS

(* A set of numbers has a least one.                                       *)
LEMMA Least ==
  ASSUME NEW S \in SUBSET Nat, S # {}
  PROVE  \E x \in S : \A y \in S : x <= y
<1>. DEFINE R == OpToRel(<, Nat)
<1>1. PICK x \in S : \A y \in S : ~ (<<y, x>> \in R)
  BY WFMin, NatLessThanWellFounded
<1>2. \A y \in S : ~ (y < x)
  BY <1>1 DEF OpToRel
<1>. QED  BY <1>2

(* A set of numbers with a bound has a greatest one, and Max finds it.     *)
LEMMA MaxOfBounded ==
  ASSUME NEW S \in SUBSET Nat, S # {}, NEW n \in Nat, \A x \in S : x <= n
  PROVE  /\ Max(S) \in S
         /\ \A y \in S : y <= Max(S)
<1>. DEFINE T == {n - x : x \in S}
<1>1. T \in SUBSET Nat /\ T # {}
  <2>1. \A x \in S : n - x \in Nat
    OBVIOUS
  <2>. QED  BY <2>1
<1>2. PICK m \in S : \A y \in S : n - m <= n - y
  <2>1. PICK t \in T : \A u \in T : t <= u
    BY <1>1, Least
  <2>2. PICK m \in S : t = n - m
    OBVIOUS
  <2>. QED  BY <2>1, <2>2
<1>3. \A y \in S : m >= y
  <2>. TAKE y \in S
  <2>1. y \in Nat /\ m \in Nat /\ n - m <= n - y
    BY <1>2
  <2>. QED  BY <2>1
<1>. QED  BY <1>3 DEF Max

(* At most one member, counted.                                            *)
LEMMA AtMostOne ==
  ASSUME NEW S, \A x, y \in S : x = y
  PROVE  Cardinality(S) <= 1
<1>1. CASE S = {}
  BY <1>1, FS_EmptySet
<1>2. CASE S # {}
  <2>1. PICK x \in S : S = {x}
    BY <1>2
  <2>. QED  BY <2>1, FS_Singleton
<1>. QED  BY <1>1, <1>2
-----------------------------------------------------------------------------
(* The ids and the requests in flight together are no more than the        *)
(* requests served: each row was inserted by a request of its own, or by   *)
(* one that found an id free again.                                        *)
Accounted ==
    /\ IsFiniteSet(InFlight)
    /\ Cardinality(InFlight) <= served
    /\ \A c \in claims : c.id + Cardinality(InFlight) <= served

(* A request that may insert a row is about one part, and only /next is    *)
(* open to callers who are not logged in.                                  *)
Aimed ==
    \A r \in InFlight :
        /\ request[r].op \in {"claim", "next"} =>
              \E p \in Parts \cup {Whole} : request[r].parts = {p}
        /\ request[r].op # "next" => request[r].account \in AccountIds

Unique(account, part) == \A c, d \in claims_of(account, {part}) : c = d

(* What a request has read is what the table says.                         *)
Fresh(req) ==
    /\ req.op \in {"claim", "delete"} => req.found = first(claims_of(req.account, req.parts))
    /\ req.op = "next" =>
          req.found = {} /\ \A p \in req.parts : p \in Parts /\ unclaimed(p)
    /\ req.op = "upload" => req.found = claims_to_clear(req.account, req.parts)

(* As long as requests do not overlap, the one in flight is alone, its     *)
(* copy is fresh, and its check stands in for the constraint.              *)
Undisturbed ==
    ~ overlapped =>
        /\ \A r, s \in InFlight : r = s
        /\ \A r \in InFlight : Fresh(request[r])
        /\ \A account \in AccountIds : Unique(account, Whole)

Inv ==
    /\ TypeOK
    /\ Accounted
    /\ Aimed
    /\ \A account \in AccountIds, part \in Parts : Unique(account, part)
    /\ Undisturbed

LEMMA InitInv == Init => Inv
<1>. SUFFICES ASSUME Init PROVE Inv
  OBVIOUS
<1>1. InFlight = {}
  BY DEF Init, InFlight
<1>2. Accounted
  BY <1>1, FS_EmptySet DEF Init, Accounted
<1>3. TypeOK
  <2>1. served \in 0..MaxRequests
    BY ClaimsAssumption DEF Init
  <2>2. request \in [RequestIds -> Requests \cup {Idle}]
    BY DEF Init
  <2>. QED  BY <2>1, <2>2 DEF Init, TypeOK
<1>. QED  BY <1>1, <1>2, <1>3 DEF Init, Inv, Aimed, Undisturbed, Unique, claims_of
-----------------------------------------------------------------------------
(* A request that has claims at hand finds one.                            *)
LEMMA FirstFound ==
  ASSUME TypeOK, NEW S \in SUBSET claims, first(S) = {}
  PROVE  S = {}
<1>. SUFFICES ASSUME S # {} PROVE FALSE
  OBVIOUS
<1>1. ids(S) \in SUBSET Nat /\ ids(S) # {}
  BY DEF TypeOK, Rows, ids
<1>2. PICK x \in ids(S) : \A y \in ids(S) : x <= y
  BY <1>1, Least
<1>3. PICK c \in S : c.id = x
  BY <1>2 DEF ids
<1>4. \A d \in S : c.id <= d.id
  BY <1>2, <1>3 DEF ids
<1>5. c \in first(S)
  BY <1>4 DEF first
<1>. QED  BY <1>5

(* What a load stores.                                                     *)
LEMMA Loads ==
  ASSUME TypeOK, NEW r \in RequestIds, Load(r)
  PROVE  \E req \in Requests :
            /\ request[r] = Idle
            /\ served < MaxRequests
            /\ request' = [request EXCEPT ![r] = req]
            /\ served' = served + 1
            /\ overlapped' = (overlapped \/ InFlight # {})
            /\ UNCHANGED <<claims, uploaded>>
            /\ Fresh(req)
            /\ req.op \in {"claim", "next"} =>
                  \E p \in Parts \cup {Whole} : req.parts = {p}
            /\ req.op # "next" => req.account \in AccountIds
<1>. DEFINE R(op, account, parts, status, keep, found) ==
              [op |-> op, account |-> account, parts |-> parts, status |-> status,
               keep |-> keep, found |-> found]
<1>1. CASE \E account \in AccountIds, part \in Parts \cup {Whole}, status \in Statuses :
              load_claim(r, account, part, status)
  <2>1. PICK account \in AccountIds, part \in Parts \cup {Whole}, status \in Statuses :
              load_claim(r, account, part, status)
    BY <1>1
  <2>. DEFINE req == R("claim", account, {part}, status, TRUE,
                       first(claims_of(account, {part})))
  <2>2. req \in Requests
    BY DEF Requests, first, claims_of, TypeOK
  <2>3. Fresh(req)
    BY DEF Fresh
  <2>. QED  BY <2>1, <2>2, <2>3 DEF load_claim, Start
<1>2. CASE \E account \in AccountIds, part \in Parts : load_delete(r, account, part)
  <2>1. PICK account \in AccountIds, part \in Parts : load_delete(r, account, part)
    BY <1>2
  <2>. DEFINE req == R("delete", account, {part}, "in_progress", FALSE,
                       first(claims_of(account, {part})))
  <2>2. req \in Requests
    BY DEF Requests, first, claims_of, TypeOK, Statuses
  <2>3. Fresh(req)
    BY DEF Fresh
  <2>. QED  BY <2>1, <2>2, <2>3 DEF load_delete, Start
<1>3. CASE \E account \in AccountIds \cup {Nobody}, keep \in BOOLEAN :
              load_next(r, account, keep)
  <2>1. PICK account \in AccountIds \cup {Nobody}, keep \in BOOLEAN :
              load_next(r, account, keep)
    BY <1>3
  <2>. DEFINE free == {p \in Parts : unclaimed(p)}
  <2>2. Min(free) \in free
    <3>1. free \in SUBSET Nat /\ free # {}
      BY <2>1, ClaimsAssumption DEF load_next
    <3>2. PICK p \in free : \A q \in free : p <= q
      BY <3>1, Least
    <3>. QED  BY <3>2 DEF Min
  <2>. DEFINE req == R("next", account, {Min(free)}, "in_progress", keep, {})
  <2>3. req \in Requests
    BY <2>2 DEF Requests, Statuses
  <2>4. Fresh(req)
    BY <2>2 DEF Fresh
  <2>. QED  BY <2>1, <2>2, <2>3, <2>4 DEF load_next, Start
<1>4. CASE \E account \in AccountIds, parts \in (SUBSET Parts) \cup {{Whole}} :
              load_upload(r, account, parts)
  <2>1. PICK account \in AccountIds, parts \in (SUBSET Parts) \cup {{Whole}} :
              load_upload(r, account, parts)
    BY <1>4
  <2>. DEFINE req == R("upload", account, parts, "in_progress", FALSE,
                       claims_to_clear(account, parts))
  <2>2. req \in Requests
    BY DEF Requests, first, claims_of, claims_to_clear, TypeOK, Statuses
  <2>3. Fresh(req)
    BY DEF Fresh
  <2>. QED  BY <2>1, <2>2, <2>3 DEF load_upload, Start
<1>. QED  BY <1>1, <1>2, <1>3, <1>4 DEF Load

LEMMA LoadInv ==
  ASSUME Inv, NEW r \in RequestIds, Load(r)
  PROVE  Inv'
<1>0. TypeOK /\ Accounted /\ Aimed
  BY DEF Inv
<1>1. PICK req \in Requests :
        /\ request[r] = Idle
        /\ served < MaxRequests
        /\ request' = [request EXCEPT ![r] = req]
        /\ served' = served + 1
        /\ overlapped' = (overlapped \/ InFlight # {})
        /\ UNCHANGED <<claims, uploaded>>
        /\ Fresh(req)
        /\ req.op \in {"claim", "next"} =>
              \E p \in Parts \cup {Whole} : req.parts = {p}
        /\ req.op # "next" => req.account \in AccountIds
  BY <1>0, Loads
<1>2. /\ r \notin InFlight
      /\ InFlight' = InFlight \cup {r}
      /\ request'[r] = req
      /\ \A s \in InFlight : request'[s] = request[s]
  <2>1. request'[r] = req /\ \A s \in RequestIds \ {r} : request'[s] = request[s]
    BY <1>0, <1>1 DEF TypeOK
  <2>2. req # Idle
    BY DEF Requests, Idle
  <2>. QED  BY <1>1, <2>1, <2>2 DEF InFlight
<1>3. TypeOK'
  <2>1. served' \in 0..MaxRequests
    BY <1>0, <1>1, ClaimsAssumption DEF TypeOK
  <2>2. request' \in [RequestIds -> Requests \cup {Idle}]
    BY <1>0, <1>1 DEF TypeOK
  <2>. QED  BY <1>0, <1>1, <2>1, <2>2 DEF TypeOK
<1>4. Accounted'
  <2>1. IsFiniteSet(InFlight') /\ Cardinality(InFlight') = Cardinality(InFlight) + 1
    BY <1>0, <1>2, FS_AddElement DEF Accounted
  <2>2. Cardinality(InFlight) \in Nat /\ served \in Nat /\ \A c \in claims : c.id \in Nat
    BY <1>0, FS_CardinalityType DEF Accounted, TypeOK, Rows
  <2>. QED  BY <1>0, <1>1, <2>1, <2>2 DEF Accounted
<1>5. Aimed'
  BY <1>0, <1>1, <1>2 DEF Aimed
<1>6. \A account, part : Unique(account, part)' <=> Unique(account, part)
  BY <1>1 DEF Unique, claims_of
<1>8. Fresh(req)'
  <2>1. /\ \A account, parts : claims_of(account, parts)' = claims_of(account, parts)
        /\ \A part : unclaimed(part)' = unclaimed(part)
    BY <1>1 DEF claims_of, unclaimed
  <2>2. Fresh(req)
    BY <1>1
  <2>. QED  BY <2>1, <2>2 DEF Fresh, first, claims_to_clear
<1>7. Undisturbed'
  <2>. SUFFICES ASSUME ~ overlapped' PROVE Undisturbed'
    BY DEF Undisturbed
  <2>1. ~ overlapped /\ InFlight = {}
    BY <1>1
  <2>2. /\ InFlight' = {r}
        /\ \A account \in AccountIds : Unique(account, Whole)
    BY <1>2, <2>1 DEF Inv, Undisturbed
  <2>. QED  BY <1>2, <1>6, <1>8, <2>2 DEF Undisturbed
<1>. QED  BY <1>3, <1>4, <1>5, <1>6, <1>7 DEF Inv
-----------------------------------------------------------------------------
(* The id of a new row is new, and there are as many as requests served.   *)
LEMMA NextId ==
  ASSUME TypeOK, Accounted, NEW r \in InFlight
  PROVE  /\ next_id \in 1..MaxRequests
         /\ \A c \in claims : c.id < next_id
         /\ next_id + Cardinality(InFlight) <= served + 1
<1>. DEFINE S == {0} \cup ids(claims)
            n == served - Cardinality(InFlight)
<1>1. Cardinality(InFlight) \in Nat \ {0} /\ served \in Nat
  BY FS_CardinalityType, FS_EmptySet DEF Accounted, TypeOK
<1>2. S \in SUBSET Nat /\ S # {}
  BY DEF TypeOK, Rows, ids
<1>3. n \in Nat /\ \A x \in S : x <= n
  <2>1. n \in Nat
    BY <1>1 DEF Accounted
  <2>2. \A c \in claims : c.id \in Nat /\ c.id + Cardinality(InFlight) <= served
    BY DEF Accounted, TypeOK, Rows
  <2>3. \A c \in claims : c.id <= n
    BY <1>1, <2>2
  <2>. QED  BY <2>1, <2>3 DEF ids
<1>4. Max(S) \in S /\ \A y \in S : y <= Max(S)
  <2>. HIDE DEF S, n
  <2>. QED  BY <1>2, <1>3, MaxOfBounded
<1>5. next_id = 1 + Max(S)
  BY DEF next_id
<1>6. \A c \in claims : c.id \in S
  BY DEF ids
<1>7. served <= MaxRequests
  BY DEF TypeOK
<1>. HIDE DEF S
<1>8. Max(S) \in Nat /\ Max(S) <= n
  BY <1>2, <1>3, <1>4
<1>9. next_id \in Nat \ {0} /\ next_id <= n + 1
  BY <1>5, <1>8, <1>3
<1>10. next_id \in 1..MaxRequests /\ next_id + Cardinality(InFlight) <= served + 1
  BY <1>1, <1>7, <1>9, ClaimsAssumption
<1>11. \A c \in claims : c.id \in Nat /\ c.id <= Max(S)
  BY <1>2, <1>4, <1>6
<1>12. \A c \in claims : c.id < next_id
  BY <1>5, <1>8, <1>11
<1>. QED  BY <1>10, <1>12

(* What the commits leave: every row is the copy of an old one, or the one *)
(* that is inserted, for whose account and part there was none.            *)
LEMMA Commits ==
  ASSUME TypeOK, Aimed, NEW r \in RequestIds, Commit(r)
  PROVE  /\ request[r] \in Requests /\ r \in InFlight
         /\ request' = [request EXCEPT ![r] = Idle]
         /\ UNCHANGED <<served, overlapped>>
         /\ uploaded' \in SUBSET Parts
         /\ \/ /\ \A c \in claims' : \E d \in claims :
                     /\ c \in Rows
                     /\ c.id = d.id /\ c.account = d.account /\ c.part = d.part
               /\ \A c, d \in claims' : c.id = d.id => c = d
            \/ \E account \in AccountIds \cup {Nobody}, part \in Parts \cup {Whole},
                  status \in Statuses :
                  /\ account = request[r].account /\ request[r].parts = {part}
                  /\ request[r].found = {}
                  /\ request[r].op \in {"claim", "next"}
                  /\ ~ violates_unique(account, part)
                  /\ insert(account, part, status)
<1>. DEFINE req == request[r]
<1>1. /\ req # Idle
      /\ request' = [request EXCEPT ![r] = Idle]
      /\ UNCHANGED <<served, overlapped>>
  BY DEF Commit, create_claim, delete_dataset_part_claim, create_upload, Answer, Idle
<1>2. req \in Requests /\ r \in InFlight
  BY <1>1 DEF TypeOK, InFlight
<1>3. CASE create_claim(r)
  <2>1. PICK p \in Parts \cup {Whole} : req.parts = {p}
    BY <1>2, <1>3 DEF create_claim, Aimed
  <2>2. (CHOOSE q \in req.parts : TRUE) = p
    BY <2>1
  <2>3. uploaded' \in SUBSET Parts
    BY <1>3 DEF create_claim, TypeOK
  <2>. DEFINE stored == {c \in claims : c.id \in ids(req.found)}
  <2>4. CASE claims' = claims
    BY <1>1, <1>2, <2>3, <2>4 DEF TypeOK
  <2>5. CASE claims' = (claims \ stored) \cup {[c EXCEPT !.status = req.status] : c \in stored}
    <3>. DEFINE new(c) == [c EXCEPT !.status = req.status]
    <3>1. \A c \in claims : /\ new(c) \in Rows
                           /\ new(c).id = c.id
                           /\ new(c).account = c.account /\ new(c).part = c.part
      BY <1>2 DEF TypeOK, Rows, Requests
    <3>2. \A c \in claims' : \E d \in claims :
             /\ c \in Rows
             /\ c.id = d.id /\ c.account = d.account /\ c.part = d.part
             /\ \/ c = d /\ d \notin stored
                \/ d \in stored /\ c = new(d)
      <4>. SUFFICES ASSUME NEW c \in claims'
                    PROVE  \E d \in claims :
                             /\ c \in Rows
                             /\ c.id = d.id /\ c.account = d.account /\ c.part = d.part
                             /\ \/ c = d /\ d \notin stored
                                \/ d \in stored /\ c = new(d)
        OBVIOUS
      <4>1. CASE c \in claims /\ c \notin stored
        <5>. c \in claims /\ c \in Rows
          BY <4>1 DEF TypeOK
        <5>. HIDE DEF stored, new
        <5>. WITNESS c \in claims
        <5>. QED  BY <4>1
      <4>2. CASE \E d \in stored : c = new(d)
        <5>. PICK d \in stored : c = new(d)
          BY <4>2
        <5>1. d \in claims
          OBVIOUS
        <5>. HIDE DEF stored, new
        <5>. QED  BY <3>1, <5>1
      <4>. QED  BY <2>5, <4>1, <4>2
    <3>3. \A c, d \in claims' : c.id = d.id => c = d
      BY <3>2 DEF TypeOK
    <3>. QED  BY <1>1, <1>2, <2>3, <3>2, <3>3
  <2>6. CASE req.found = {} /\ ~ violates_unique(req.account, p)
                 /\ insert(req.account, p, req.status)
    BY <1>1, <1>2, <1>3, <2>1, <2>3, <2>6 DEF Requests, create_claim
  <2>. QED  BY <1>3, <2>2, <2>4, <2>5, <2>6 DEF create_claim
<1>4. CASE delete_dataset_part_claim(r) \/ create_upload(r)
  <2>1. claims' \subseteq claims
    BY <1>4 DEF delete_dataset_part_claim, create_upload
  <2>2. uploaded' \in SUBSET Parts
    BY <1>2, <1>4 DEF delete_dataset_part_claim, create_upload, TypeOK, Requests
  <2>. QED  BY <1>1, <1>2, <2>1, <2>2 DEF TypeOK
<1>. QED  BY <1>3, <1>4 DEF Commit

LEMMA CommitInv ==
  ASSUME Inv, NEW r \in RequestIds, Commit(r)
  PROVE  Inv'
<1>0. TypeOK /\ Accounted /\ Aimed
  BY DEF Inv
<1>. DEFINE Copies ==
       /\ \A c \in claims' : \E d \in claims :
             c \in Rows /\ c.id = d.id /\ c.account = d.account /\ c.part = d.part
       /\ \A c, d \in claims' : c.id = d.id => c = d
     Inserts(account, part, status) ==
       /\ account = request[r].account /\ request[r].parts = {part}
       /\ request[r].found = {}
       /\ request[r].op \in {"claim", "next"}
       /\ ~ violates_unique(account, part)
       /\ insert(account, part, status)
<1>1. /\ request[r] \in Requests /\ r \in InFlight
      /\ request' = [request EXCEPT ![r] = Idle]
      /\ UNCHANGED <<served, overlapped>>
      /\ uploaded' \in SUBSET Parts
      /\ \/ Copies
         \/ \E account \in AccountIds \cup {Nobody}, part \in Parts \cup {Whole},
               status \in Statuses : Inserts(account, part, status)
  BY <1>0, Commits
<1>2. /\ InFlight' = InFlight \ {r}
      /\ \A s \in InFlight \ {r} : request'[s] = request[s]
  BY <1>0, <1>1 DEF TypeOK, InFlight
<1>3. /\ IsFiniteSet(InFlight') /\ Cardinality(InFlight) \in Nat
      /\ Cardinality(InFlight') = Cardinality(InFlight) - 1
  BY <1>0, <1>1, <1>2, FS_RemoveElement, FS_CardinalityType DEF Accounted
<1>4. request' \in [RequestIds -> Requests \cup {Idle}]
  BY <1>0, <1>1 DEF TypeOK
<1>5. Aimed'
  BY <1>0, <1>2 DEF Aimed
<1>6. \A c \in claims : c \in Rows /\ c.id \in Nat
  BY <1>0 DEF TypeOK, Rows
<1>7. ~ overlapped => InFlight' = {}
  BY <1>1, <1>2 DEF Inv, Undisturbed
<1>8. CASE Copies
  <2>1. TypeOK'
    BY <1>0, <1>1, <1>4, <1>8 DEF TypeOK
  <2>2. Accounted'
    <3>1. \A c \in claims' : c.id \in Nat /\ c.id + Cardinality(InFlight) <= served
      BY <1>0, <1>6, <1>8 DEF Accounted
    <3>2. served \in Nat
      BY <1>0 DEF TypeOK
    <3>. QED  BY <1>0, <1>1, <1>3, <3>1, <3>2 DEF Accounted
  <2>3. \A account, part : Unique(account, part) => Unique(account, part)'
    BY <1>8 DEF Unique, claims_of
  <2>. QED  BY <1>1, <1>5, <1>7, <2>1, <2>2, <2>3 DEF Inv, Undisturbed
<1>9. ASSUME NEW account \in AccountIds \cup {Nobody}, NEW part \in Parts \cup {Whole},
             NEW status \in Statuses, Inserts(account, part, status)
      PROVE  Inv'
  <2>. DEFINE row == [id |-> next_id, account |-> account, part |-> part, status |-> status]
  <2>1. /\ next_id \in 1..MaxRequests
        /\ \A c \in claims : c.id < next_id
        /\ next_id + Cardinality(InFlight) <= served + 1
    BY <1>0, <1>1, NextId
  <2>2. claims' = claims \cup {row} /\ row \in Rows /\ row.id = next_id
    BY <1>9, <2>1 DEF insert, Rows
  <2>3. TypeOK'
    <3>1. \A c, d \in claims' : c.id = d.id => c = d
      BY <1>0, <1>6, <2>1, <2>2 DEF TypeOK
    <3>. QED  BY <1>0, <1>1, <1>4, <2>2, <3>1 DEF TypeOK
  <2>4. Accounted'
    <3>1. \A c \in claims : c.id \in Nat /\ c.id + Cardinality(InFlight) <= served
      BY <1>0, <1>6 DEF Accounted
    <3>2. served \in Nat /\ Cardinality(InFlight) <= served
      BY <1>0 DEF TypeOK, Accounted
    <3>3. \A c \in claims' : c.id + Cardinality(InFlight') <= served
      BY <1>3, <2>1, <2>2, <3>1, <3>2
    <3>. QED  BY <1>1, <1>3, <3>2, <3>3 DEF Accounted
  <2>5. row.account = account /\ row.part = part
    OBVIOUS
  <2>. HIDE DEF row
  <2>6. ASSUME NEW a, NEW p, Unique(a, p), a # account \/ p # part \/ claims_of(a, {p}) = {}
        PROVE  Unique(a, p)'
    BY <2>2, <2>5, <2>6 DEF Unique, claims_of
  <2>7. \A a \in AccountIds, p \in Parts : Unique(a, p)'
    <3>. TAKE a \in AccountIds, p \in Parts
    <3>1. Unique(a, p) /\ a # Nobody /\ p # Whole
      BY ClaimsAssumption DEF Inv, Whole
    <3>2. a # account \/ p # part \/ claims_of(a, {p}) = {}
      BY <1>9, <3>1 DEF violates_unique
    <3>. QED  BY <2>6, <3>1, <3>2
  <2>8. ASSUME ~ overlapped, NEW a \in AccountIds
        PROVE  Unique(a, Whole)'
    <3>1. Unique(a, Whole) /\ Fresh(request[r])
      BY <1>1, <2>8 DEF Inv, Undisturbed
    <3>2. a # account \/ Whole # part \/ claims_of(a, {Whole}) = {}
      <4>. SUFFICES ASSUME a = account, Whole = part
                    PROVE  claims_of(a, {Whole}) = {}
        OBVIOUS
      <4>1. request[r].op = "claim"
        BY <1>9, <3>1, ClaimsAssumption DEF Fresh, Whole
      <4>2. first(claims_of(a, {Whole})) = {}
        BY <1>9, <3>1, <4>1 DEF Fresh
      <4>. QED  BY <1>0, <4>2, FirstFound DEF claims_of
    <3>. QED  BY <2>6, <3>1, <3>2
  <2>. QED  BY <1>1, <1>5, <1>7, <2>3, <2>4, <2>7, <2>8 DEF Inv, Undisturbed
<1>. QED  BY <1>1, <1>8, <1>9

LEMMA StepInv == Inv /\ [Next]_vars => Inv'
<1>. SUFFICES ASSUME Inv, [Next]_vars PROVE Inv'
  OBVIOUS
<1>1. CASE Next
  BY <1>1, LoadInv, CommitInv DEF Next
<1>2. CASE UNCHANGED vars
  <2>1. InFlight' = InFlight /\ \A r \in InFlight : request'[r] = request[r]
    BY <1>2 DEF vars, InFlight
  <2>2. /\ \A account, parts : claims_of(account, parts)' = claims_of(account, parts)
        /\ \A part : unclaimed(part)' = unclaimed(part)
    BY <1>2 DEF vars, claims_of, unclaimed
  <2>3. \A account, part : Unique(account, part)' <=> Unique(account, part)
    BY <2>2 DEF Unique
  <2>4. TypeOK' /\ Accounted' /\ Aimed'
    BY <1>2, <2>1 DEF vars, Inv, TypeOK, Accounted, Aimed
  <2>5. \A r \in InFlight : Fresh(request[r])' <=> Fresh(request[r])
    BY <2>1, <2>2 DEF Fresh, first, claims_to_clear
  <2>6. Undisturbed'
    BY <1>2, <2>1, <2>3, <2>5 DEF vars, Inv, Undisturbed
  <2>. QED  BY <2>3, <2>4, <2>6 DEF Inv
<1>. QED  BY <1>1, <1>2

LEMMA Invariant == Spec => []Inv
<1>. QED  BY InitInv, StepInv, PTL DEF Spec
-----------------------------------------------------------------------------
(* Claims, uploads, requests and counters stay within their types, and     *)
(* every row of dataset_claim has an id of its own although ids come back. *)
THEOREM TypeCorrect == Spec => []TypeOK
<1>1. Inv => TypeOK
  BY DEF Inv
<1>. QED  BY <1>1, Invariant, PTL

(* "Each account can only have one claim per dataset or dataset part":     *)
(* for a part however requests overlap, for the dataset itself as long as  *)
(* they do not.                                                            *)
THEOREM OneClaimEach == Spec => []OneClaim
<1>1. Inv => OneClaim
  BY AtMostOne DEF Inv, OneClaim, Unique, Undisturbed, Alone
<1>. QED  BY <1>1, Invariant, PTL

(* What a commit does when the copy it has read is fresh.                  *)
LEMMA Serves ==
  ASSUME Inv, NEW r \in InFlight, Commit(r), ~ overlapped
  PROVE  /\ NextIsFree(r)
         /\ UploadSettlesClaims(r)
         /\ \A c \in claims \ claims' : c.account = request[r].account
<1>. DEFINE req == request[r]
<1>1. /\ TypeOK /\ Fresh(req)
      /\ \A account \in AccountIds : Unique(account, Whole)
      /\ req.op # "next" => req.account \in AccountIds
  BY DEF Inv, Undisturbed, Aimed
<1>2. NextIsFree(r)
  BY <1>1 DEF Fresh, NextIsFree, unclaimed
<1>3. UploadSettlesClaims(r)
  <2>. SUFFICES ASSUME req.op = "upload", NEW c \in claims',
                       c.account = req.account, c.part \in req.parts
                PROVE  FALSE
    BY DEF UploadSettlesClaims
  <2>1. c \in claims /\ c.id \notin ids(req.found)
    BY DEF Commit, create_claim, delete_dataset_part_claim, create_upload
  <2>2. c \in claims_of(req.account, req.parts)
    BY <2>1 DEF claims_of
  <2>3. req.found = claims_to_clear(req.account, req.parts) /\ c \notin req.found
    BY <1>1, <2>1 DEF Fresh, ids
  <2>4. req.parts = {Whole} /\ req.found = first(claims_of(req.account, {Whole}))
    BY <2>2, <2>3 DEF claims_to_clear
  <2>5. \A d \in claims_of(req.account, {Whole}) : d = c
    BY <1>1, <2>2, <2>4 DEF Unique
  <2>6. first(claims_of(req.account, {Whole})) = {}
    BY <2>3, <2>4, <2>5 DEF first
  <2>7. claims_of(req.account, {Whole}) \in SUBSET claims
    BY DEF claims_of
  <2>. QED  BY <1>1, <2>2, <2>4, <2>6, <2>7, FirstFound
<1>4. ASSUME NEW c \in claims \ claims'
      PROVE  c.account = req.account
  <2>1. c.id \in ids(req.found) /\ req.op \in {"claim", "next", "delete", "upload"}
    BY <1>4 DEF Commit, create_claim, delete_dataset_part_claim, create_upload, insert
  <2>2. PICK d \in req.found : d.id = c.id
    BY <2>1 DEF ids
  <2>3. d \in claims /\ d.account = req.account
    BY <1>1, <2>1, <2>2 DEF Fresh, first, claims_of, claims_to_clear
  <2>. QED  BY <1>1, <2>2, <2>3 DEF TypeOK
<1>. QED  BY <1>2, <1>3, <1>4

(* As long as requests do not overlap, /next hands out a free part, an     *)
(* upload leaves its uploader no claim on what it is of, and no request    *)
(* takes a claim of another account away, although the ids by which claims *)
(* are deleted come back.                                                  *)
THEOREM Served == Spec => ClaimsServed
<1>. DEFINE A == Alone' =>
          /\ \A r \in InFlight : request'[r] = Idle => NextIsFree(r) /\ UploadSettlesClaims(r)
          /\ \A c \in claims \ claims' :
                \E r \in InFlight : request[r].account = c.account /\ request'[r] = Idle
<1>1. ASSUME Inv, Next PROVE A
  <2>. SUFFICES ASSUME ~ overlapped' PROVE A
    BY DEF Alone
  <2>1. PICK r \in RequestIds : Load(r) \/ Commit(r)
    BY <1>1 DEF Next
  <2>2. TypeOK /\ Aimed
    BY <1>1 DEF Inv
  <2>3. CASE Load(r)
    <3>1. claims' = claims /\ (overlapped' = (overlapped \/ InFlight # {}))
      BY <2>2, <2>3, Loads
    <3>. QED  BY <3>1
  <2>4. CASE Commit(r)
    <3>1. /\ r \in InFlight /\ request'[r] = Idle
          /\ ~ overlapped
          /\ \A s \in InFlight : s = r
      BY <1>1, <2>2, <2>4, Commits DEF Inv, TypeOK, Undisturbed
    <3>2. /\ NextIsFree(r)
          /\ UploadSettlesClaims(r)
          /\ \A c \in claims \ claims' : c.account = request[r].account
      BY <1>1, <2>4, <3>1, Serves
    <3>. QED  BY <3>1, <3>2
  <2>. QED  BY <2>1, <2>3, <2>4
<1>2. ASSUME UNCHANGED vars PROVE A
  BY <1>2 DEF vars, InFlight
<1>3. Inv /\ [Next]_vars => [A]_vars
  BY <1>1, <1>2
<1>. QED  BY <1>3, Invariant, PTL DEF Spec, ClaimsServed
=============================================================================
