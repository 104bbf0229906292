--------------------------- MODULE ScrapingProofs ---------------------------
(***************************************************************************)
(* Proofs about Scraping, for every set of trackers, torrents and links,   *)
(* every configuration of intervals, back-offs and workers, and any number *)
(* of rounds and restarts; and, further down, about UdpTracker.            *)
(***************************************************************************)
EXTENDS Scraping, UdpTracker, FiniteSetTheorems, TLAPS

(* Where the round stands with a tracker: its turn is still to come, or it *)
(* has had it, or there was nothing to ask it for.                         *)
Pending(t) == todo[t] # {} /\ t \notin asking
Left(t) == todo[t] = {} /\ t \notin asking

(* Nothing is left over of a round that has ended, and nothing is known of *)
(* a tracker before its turn.                                              *)
Ordered(t) ==
    /\ pc # "scraping" => Left(t)
    /\ pc = "idle" => ~ answered(t) /\ failed[t] = "none" /\ t \notin limited
    /\ Pending(t) => ~ answered(t) /\ failed[t] = "none"

(* A tracker that says nothing but 429 is an HTTP tracker by the end of its*)
(* turn, and has failed when it is over.                                   *)
Silent(t) ==
    t \in limited =>
        /\ ~ answered(t)
        /\ t \in Udp => todo[t] # {}
        /\ t \in asking \/ failed[t] # "none"

(* n_errors as the end of the round is going to leave it.                  *)
Outlook(t) ==
    CASE failed[t] # "none" -> least(tracker[t].errors + 1, MaxErrors)
      [] is_working(t)      -> 0
      [] OTHER              -> tracker[t].errors

Counted(t) ==
    /\ t \notin doubtful =>
          /\ streak[t] = IF Left(t) THEN Outlook(t) ELSE tracker[t].errors
          /\ pc = "counted" /\ failed[t] # "none" => counts[t] = tracker[t].errors
    /\ Left(t) /\ is_working(t) => streak[t] = 0

Sound(t) == Ordered(t) /\ Silent(t) /\ Counted(t)

Inv ==
    /\ TypeOK
    /\ IsFiniteSet(asking)
    /\ \A t \in Trackers : Sound(t)
-----------------------------------------------------------------------------
(* Back-offs.  A power of two is the number of subsets of an interval.     *)
LEMMA PowerOfTwo ==
  ASSUME NEW n \in Nat
  PROVE  2^n \in Nat /\ 2^n > 0
<1>1. IsFiniteSet(1..n) /\ Cardinality(1..n) = n
  BY FS_Interval
<1>2. IsFiniteSet(SUBSET (1..n)) /\ Cardinality(SUBSET (1..n)) = 2^n
  BY <1>1, FS_SUBSET
<1>3. SUBSET (1..n) # {}
  OBVIOUS
<1>4. 2^n \in Nat
  BY <1>2, FS_CardinalityType
<1>5. 2^n # 0
  BY <1>2, <1>3, FS_EmptySet
<1>. QED  BY <1>4, <1>5

(* A back-off is never nothing, and never longer than max_backoff.         *)
LEMMA BackoffBounds ==
  ASSUME NEW n \in Nat, NEW e
  PROVE  compute_backoff(n, e) \in 1..MaxBackoff
<1>1. multiplier(e) \in Nat \ {0}
  BY ScrapingAssumption DEF multiplier
<1>2. ASSUME NEW i \in Nat \ {0}, NEW j \in Nat \ {0} PROVE i * j \in Nat \ {0}
  BY <1>2
<1>3. 2^n \in Nat \ {0}
  BY PowerOfTwo
<1>4. Interval * multiplier(e) \in Nat \ {0}
  BY <1>1, <1>2, ScrapingAssumption
<1>5. Interval * multiplier(e) * 2^n \in Nat \ {0}
  BY <1>2, <1>3, <1>4
<1>. QED  BY <1>5, ScrapingAssumption DEF compute_backoff, least

LEMMA PenaltyType ==
  ASSUME TypeOK, NEW t \in Trackers
  PROVE  /\ penalty(t).errors = least(counts[t] + 1, MaxErrors)
         /\ penalty(t).wait \in 1..MaxBackoff
         /\ penalty(t) \in [errors : 0..MaxErrors, wait : 0..MaxBackoff]
<1>1. least(counts[t] + 1, MaxErrors) \in 0..MaxErrors
  BY ScrapingAssumption DEF TypeOK, least
<1>2. compute_backoff(least(counts[t] + 1, MaxErrors), failed[t]) \in 1..MaxBackoff
  BY <1>1, BackoffBounds
<1>. QED  BY <1>1, <1>2 DEF penalty
-----------------------------------------------------------------------------
LEMMA InitInv == Init => Inv
<1>. SUFFICES ASSUME Init PROVE Inv
  OBVIOUS
<1>1. IsFiniteSet(asking) /\ Cardinality(asking) = 0
  BY FS_EmptySet DEF Init, NoRound
<1>2. TypeOK
  BY <1>1, ScrapingAssumption DEF Init, NoRound, TypeOK
<1>3. ASSUME NEW t \in Trackers PROVE Sound(t)
  BY DEF Init, NoRound, Sound, Ordered, Silent, Counted, Outlook, Left, Pending,
         answered, is_working
<1>. QED  BY <1>1, <1>2, <1>3 DEF Inv

(* What is true of a tracker stays so while nothing about it changes.      *)
LEMMA SoundStays ==
  ASSUME NEW t \in Trackers, Sound(t),
         pc' = pc,
         todo'[t] = todo[t], t \in asking' <=> t \in asking,
         answered(t)' <=> answered(t), failed'[t] = failed[t],
         t \in limited' <=> t \in limited,
         tracker'[t].errors = tracker[t].errors,
         streak'[t] = streak[t], t \in doubtful' <=> t \in doubtful,
         counts'[t] = counts[t]
  PROVE  Sound(t)'
BY DEF Sound, Ordered, Silent, Counted, Outlook, Left, Pending, is_working

(* The end of a round leaves of it only what was written.                  *)
LEMMA RoundOver ==
  ASSUME EndRound, NEW t \in Trackers,
         t \notin doubtful' => streak'[t] = tracker'[t].errors
  PROVE  Sound(t)'
<1>1. /\ pc' = "idle" /\ todo'[t] = {} /\ asking' = {} /\ got' = {}
      /\ failed'[t] = "none" /\ limited' = {}
  BY DEF EndRound
<1>2. ~ answered(t)'
  BY <1>1 DEF answered
<1>. QED  BY <1>1, <1>2 DEF Sound, Ordered, Silent, Counted, Outlook, Left, Pending, is_working

LEMMA EndTypes ==
  ASSUME EndRound
  PROVE  /\ pc' = "idle"
         /\ todo' \in [Trackers -> SUBSET Torrents]
         /\ asking' = {} /\ IsFiniteSet(asking') /\ Cardinality(asking') <= Workers
         /\ got' \subseteq Trackers \X Torrents
         /\ failed' \in [Trackers -> ErrorTypes \cup {"none"}]
         /\ counts' \in [Trackers -> 0..MaxErrors]
         /\ limited' \subseteq Trackers
BY FS_EmptySet, ScrapingAssumption DEF EndRound

LEMMA GatherInv ==
  ASSUME Inv, gather_scrapable_torrents
  PROVE  Inv'
<1>. DEFINE due == [t \in Trackers |-> {i \in posted : <<t, i>> \in Links /\ is_due(t, i)}]
<1>1. /\ pc = "idle" /\ pc' = "scraping" /\ todo' = due
      /\ UNCHANGED <<posted, gone, tracker, age, asking, got, failed, counts, restarts,
                     limited, streak, doubtful>>
  BY DEF gather_scrapable_torrents
<1>2. due \in [Trackers -> SUBSET Torrents]
  BY DEF Inv, TypeOK
<1>3. TypeOK'
  BY <1>1, <1>2 DEF Inv, TypeOK
<1>4. ASSUME NEW t \in Trackers PROVE Sound(t)'
  <2>1. /\ Left(t) /\ ~ answered(t) /\ failed[t] = "none" /\ t \notin limited
        /\ t \notin doubtful => streak[t] = tracker[t].errors
    BY <1>1 DEF Inv, Sound, Ordered, Counted, Outlook, is_working
  <2>2. ~ answered(t)'
    BY <1>1, <2>1 DEF answered
  <2>. QED  BY <1>1, <2>1, <2>2
            DEF Sound, Ordered, Silent, Counted, Outlook, Left, Pending, is_working
<1>. QED  BY <1>1, <1>3, <1>4 DEF Inv

LEMMA FailType ==
  ASSUME TypeOK, NEW t \in Trackers, NEW e \in DOMAIN Multiplier, fail(t, e)
  PROVE  /\ failed' \in [Trackers -> ErrorTypes \cup {"none"}]
         /\ \A s \in Trackers : s # t => failed'[s] = failed[s]
         /\ failed[t] # "none" => failed'[t] = failed[t]
BY DEF TypeOK, fail, ErrorTypes

LEMMA EnterInv ==
  ASSUME Inv, NEW t \in Trackers, enter(t)
  PROVE  Inv'
<1>1. /\ pc = "scraping" /\ todo[t] # {} /\ t \notin asking
      /\ Cardinality(asking) < Workers /\ asking' = asking \cup {t}
      /\ UNCHANGED <<posted, gone, tracker, age, pc, got, counts, restarts, streak, doubtful>>
  BY DEF enter
<1>2. \/ /\ limited' = limited \cup {t}
         /\ UNCHANGED <<todo, failed>>
      \/ /\ \E e \in DOMAIN Multiplier : fail(t, e)
         /\ todo' = [todo EXCEPT ![t] = {}]
         /\ UNCHANGED limited
  BY DEF enter
<1>3. IsFiniteSet(asking') /\ Cardinality(asking') <= Workers
  <2>1. IsFiniteSet(asking) /\ Cardinality(asking) \in Nat
    BY FS_CardinalityType DEF Inv
  <2>2. /\ IsFiniteSet(asking \cup {t})
        /\ Cardinality(asking \cup {t}) = Cardinality(asking) + 1
    BY <1>1, <2>1, FS_AddElement
  <2>. QED  BY <1>1, <2>1, <2>2, ScrapingAssumption
<1>4. failed' \in [Trackers -> ErrorTypes \cup {"none"}]
  BY <1>2, FailType DEF Inv, TypeOK
<1>5. TypeOK'
  BY <1>1, <1>2, <1>3, <1>4 DEF Inv, TypeOK
<1>6. Sound(t) /\ Pending(t)
  BY <1>1 DEF Inv, Pending
<1>7. ~ answered(t) /\ failed[t] = "none" /\ t \notin limited
  BY <1>6, <1>1 DEF Sound, Ordered, Silent
<1>8. Sound(t)'
  <2>1. ~ answered(t)'
    BY <1>1, <1>7 DEF answered
  <2>2. t \in asking' /\ (t \in limited' => todo'[t] # {})
    BY <1>1, <1>2, <1>7
  <2>. QED  BY <1>1, <1>6, <2>1, <2>2
            DEF Sound, Ordered, Silent, Counted, Left, Pending, is_working
<1>9. ASSUME NEW s \in Trackers, s # t PROVE Sound(s)'
  <2>1. /\ todo'[s] = todo[s] /\ failed'[s] = failed[s]
        /\ s \in limited' <=> s \in limited
    BY <1>2, <1>9, FailType DEF Inv, TypeOK
  <2>2. answered(s)' <=> answered(s)
    BY <1>1 DEF answered
  <2>. QED  BY <1>1, <1>9, <2>1, <2>2, SoundStays DEF Inv
<1>. QED  BY <1>3, <1>5, <1>8, <1>9 DEF Inv

LEMMA PageInv ==
  ASSUME Inv, NEW t \in Trackers, scrape_page(t)
  PROVE  Inv'
<1>1. /\ t \in asking /\ todo[t] # {}
      /\ UNCHANGED <<posted, gone, tracker, age, pc, asking, counts, restarts, streak, doubtful>>
  BY DEF scrape_page
<1>2. PICK page \in SUBSET todo[t] :
        /\ todo' = [todo EXCEPT ![t] = @ \ page]
        /\ \/ /\ \E answer \in SUBSET (IF t \in Udp THEN page ELSE Torrents) :
                    got' = got \cup ({t} \X answer)
              /\ limited' = limited \ {t}
              /\ UNCHANGED failed
           \/ /\ \E e \in DOMAIN Multiplier : fail(t, e)
              /\ limited' = limited \ {t}
              /\ UNCHANGED got
           \/ /\ t \in Http
              /\ UNCHANGED <<got, failed, limited>>
  BY DEF scrape_page
<1>3. page \subseteq Torrents /\ todo' \in [Trackers -> SUBSET Torrents]
  BY <1>2 DEF Inv, TypeOK
<1>4. /\ got' \subseteq Trackers \X Torrents
      /\ \A l \in got' \ got : l[1] = t
      /\ got \subseteq got'
  BY <1>2, <1>3 DEF Inv, TypeOK
<1>5. failed' \in [Trackers -> ErrorTypes \cup {"none"}]
  BY <1>2, FailType DEF Inv, TypeOK
<1>6. TypeOK'
  BY <1>1, <1>2, <1>3, <1>4, <1>5 DEF Inv, TypeOK
<1>7. Sound(t)'
  <2>1. Sound(t) /\ pc = "scraping"
    BY <1>1 DEF Inv, Sound, Ordered, Left
  <2>2. t \in limited' => t \in limited /\ t \in Http /\ UNCHANGED got
    BY <1>2
  <2>3. t \in limited' => ~ answered(t)' /\ t \notin Udp
    BY <2>1, <2>2, ScrapingAssumption DEF Sound, Silent, answered
  <2>. QED  BY <1>1, <2>1, <2>3
            DEF Sound, Ordered, Silent, Counted, Left, Pending, is_working
<1>8. ASSUME NEW s \in Trackers, s # t PROVE Sound(s)'
  <2>1. /\ todo'[s] = todo[s] /\ failed'[s] = failed[s]
        /\ s \in limited' <=> s \in limited
    BY <1>2, <1>8, FailType DEF Inv, TypeOK
  <2>2. answered(s)' <=> answered(s)
    BY <1>4, <1>8 DEF answered
  <2>. QED  BY <1>1, <1>8, <2>1, <2>2, SoundStays DEF Inv
<1>. QED  BY <1>1, <1>6, <1>7, <1>8 DEF Inv

LEMMA LeaveInv ==
  ASSUME Inv, NEW t \in Trackers, leave(t)
  PROVE  Inv'
<1>1. /\ t \in asking /\ todo[t] = {} /\ asking' = asking \ {t}
      /\ failed' = [failed EXCEPT ![t] = final_error(t)]
      /\ streak' = CASE final_error(t) # "none" -> [streak EXCEPT ![t] = least(@ + 1, MaxErrors)]
                     [] final_error(t) = "none" /\ answered(t) -> [streak EXCEPT ![t] = 0]
                     [] OTHER -> streak
      /\ UNCHANGED <<posted, gone, tracker, age, pc, todo, got, counts, restarts, limited,
                     doubtful>>
  BY DEF leave
<1>2. Sound(t) /\ pc = "scraping"
  BY <1>1 DEF Inv, Sound, Ordered, Left
<1>3. IsFiniteSet(asking') /\ Cardinality(asking') <= Workers
  <2>1. IsFiniteSet(asking) /\ Cardinality(asking) \in Nat
    BY FS_CardinalityType DEF Inv
  <2>2. /\ IsFiniteSet(asking \ {t})
        /\ Cardinality(asking \ {t}) = Cardinality(asking) - 1
    BY <1>1, <2>1, FS_RemoveElement
  <2>. QED  BY <1>1, <2>1, <2>2, ScrapingAssumption DEF Inv, TypeOK
<1>4. final_error(t) \in ErrorTypes \cup {"none"}
  BY DEF final_error, ErrorTypes, Inv, TypeOK
<1>5. /\ failed' \in [Trackers -> ErrorTypes \cup {"none"}]
      /\ failed'[t] = final_error(t)
      /\ \A s \in Trackers : s # t => failed'[s] = failed[s]
  BY <1>1, <1>4 DEF Inv, TypeOK
<1>6. /\ streak' \in [Trackers -> 0..MaxErrors]
      /\ \A s \in Trackers : s # t => streak'[s] = streak[s]
      /\ final_error(t) # "none" => streak'[t] = least(streak[t] + 1, MaxErrors)
      /\ final_error(t) = "none" /\ answered(t) => streak'[t] = 0
      /\ final_error(t) = "none" /\ ~ answered(t) => streak'[t] = streak[t]
  <2>1. streak \in [Trackers -> 0..MaxErrors] /\ MaxErrors \in Nat
    BY ScrapingAssumption DEF Inv, TypeOK
  <2>2. CASE final_error(t) # "none"
    BY <1>1, <2>1, <2>2 DEF least
  <2>3. CASE final_error(t) = "none" /\ answered(t)
    BY <1>1, <2>1, <2>3
  <2>4. CASE final_error(t) = "none" /\ ~ answered(t)
    BY <1>1, <2>1, <2>4
  <2>. QED  BY <2>2, <2>3, <2>4
<1>7. TypeOK'
  BY <1>1, <1>3, <1>5, <1>6 DEF Inv, TypeOK
<1>8. Sound(t)'
  <2>1. answered(t)' <=> answered(t)
    BY <1>1 DEF answered
  <2>2. t \notin asking' /\ todo'[t] = {}
    BY <1>1
  <2>3. t \in limited => t \notin Udp /\ ~ answered(t)
    BY <1>1, <1>2 DEF Sound, Silent
  <2>4. t \in limited => final_error(t) # "none"
    BY <2>3 DEF final_error, Trackers
  <2>5. Silent(t)'
    BY <1>1, <1>5, <2>1, <2>3, <2>4 DEF Silent
  <2>6. t \notin doubtful => streak[t] = tracker[t].errors
    BY <1>1, <1>2 DEF Sound, Counted, Left
  <2>7. Counted(t)'
    BY <1>1, <1>2, <1>5, <1>6, <2>1, <2>2, <2>6 DEF Counted, Outlook, Left, is_working
  <2>. QED  BY <1>1, <1>2, <2>2, <2>5, <2>7 DEF Sound, Ordered, Left, Pending
<1>9. ASSUME NEW s \in Trackers, s # t PROVE Sound(s)'
  <2>1. answered(s)' <=> answered(s)
    BY <1>1 DEF answered
  <2>. QED  BY <1>1, <1>5, <1>6, <1>9, <2>1, SoundStays DEF Inv
<1>. QED  BY <1>3, <1>7, <1>8, <1>9 DEF Inv
-----------------------------------------------------------------------------
(* All trackers have had their turn, so the streaks say what the round is  *)
(* going to write; a round without an answer ends here, in doubt about     *)
(* whoever failed.                                                         *)
LEMMA UpdateInv ==
  ASSUME Inv, update_scrape_results
  PROVE  Inv'
<1>1. /\ pc = "scraping" /\ asking = {} /\ \A t \in Trackers : todo[t] = {}
      /\ UNCHANGED <<posted, gone, tracker, restarts, streak>>
  BY DEF update_scrape_results, asyncio_gathered
<1>2. CASE got # {} /\ pc' = "updated"
  <2>1. /\ age' = [l \in Links |-> IF l \in got /\ l[2] \in posted THEN 0 ELSE age[l]]
        /\ UNCHANGED <<todo, asking, got, failed, counts, limited, doubtful>>
    BY <1>2 DEF update_scrape_results, EndRound
  <2>2. age' \in [Links -> 0..Interval]
    BY <2>1, ScrapingAssumption DEF Inv, TypeOK
  <2>3. TypeOK'
    BY <1>1, <1>2, <2>1, <2>2 DEF Inv, TypeOK
  <2>4. ASSUME NEW t \in Trackers PROVE Sound(t)'
    <3>1. Sound(t) /\ Left(t)
      BY <1>1 DEF Inv, Left
    <3>2. answered(t)' <=> answered(t)
      BY <2>1 DEF answered
    <3>. QED  BY <1>1, <1>2, <2>1, <3>1, <3>2
              DEF Sound, Ordered, Silent, Counted, Outlook, Left, Pending, is_working
  <2>. QED  BY <2>1, <2>3, <2>4 DEF Inv
<1>3. CASE got = {}
  <2>1. EndRound /\ doubtful' = doubtful \cup heard_of /\ UNCHANGED age
    BY <1>3 DEF update_scrape_results
  <2>2. TypeOK' /\ IsFiniteSet(asking')
    BY <1>1, <2>1, EndTypes DEF Inv, TypeOK, heard_of
  <2>3. ASSUME NEW t \in Trackers, t \notin doubtful' PROVE streak'[t] = tracker'[t].errors
    <3>1. ~ answered(t) /\ failed[t] = "none" /\ t \notin doubtful
      BY <2>1, <2>3 DEF heard_of
    <3>. QED  BY <1>1, <3>1 DEF Inv, Sound, Counted, Outlook, Left, is_working
  <2>. QED  BY <2>1, <2>2, <2>3, RoundOver DEF Inv
<1>. QED  BY <1>2, <1>3 DEF update_scrape_results

LEMMA ReadInv ==
  ASSUME Inv, read_errors
  PROVE  Inv'
<1>1. /\ pc = "updated" /\ pc' = "counted"
      /\ counts' = [t \in Trackers |-> IF failed[t] # "none" THEN tracker[t].errors ELSE 0]
      /\ UNCHANGED <<posted, gone, tracker, age, todo, asking, got, failed, restarts,
                     limited, streak, doubtful>>
  BY DEF read_errors
<1>2. counts' \in [Trackers -> 0..MaxErrors]
  BY <1>1, ScrapingAssumption DEF Inv, TypeOK
<1>3. TypeOK'
  BY <1>1, <1>2 DEF Inv, TypeOK
<1>4. ASSUME NEW t \in Trackers PROVE Sound(t)'
  <2>1. answered(t)' <=> answered(t)
    BY <1>1 DEF answered
  <2>. QED  BY <1>1, <2>1
            DEF Inv, Sound, Ordered, Silent, Counted, Outlook, Left, Pending, is_working
<1>. QED  BY <1>1, <1>3, <1>4 DEF Inv

(* What is written is what the streaks have been saying since the turns.   *)
LEMMA HandleInv ==
  ASSUME Inv, handle_tracker_error
  PROVE  Inv'
<1>1. /\ pc = "counted" /\ EndRound
      /\ tracker' = [t \in Trackers |->
             CASE is_working(t)      -> [errors |-> 0, wait |-> 0]
               [] failed[t] # "none" -> penalty(t)
               [] OTHER              -> tracker[t]]
      /\ doubtful' = doubtful \ {t \in Trackers : is_working(t)}
      /\ UNCHANGED <<posted, gone, age, restarts, streak>>
  BY DEF handle_tracker_error
<1>2. ASSUME NEW t \in Trackers
      PROVE  /\ tracker'[t] \in [errors : 0..MaxErrors, wait : 0..MaxBackoff]
             /\ t \notin doubtful' => streak'[t] = tracker'[t].errors
  <2>1. Sound(t) /\ Left(t)
    BY <1>1 DEF Inv, Sound, Ordered
  <2>2. CASE is_working(t)
    <3>1. tracker'[t] = [errors |-> 0, wait |-> 0] /\ failed[t] = "none"
      BY <1>1, <2>2 DEF is_working
    <3>. QED  BY <1>1, <2>1, <2>2, <3>1, ScrapingAssumption DEF Sound, Counted
  <2>3. CASE ~ is_working(t) /\ failed[t] # "none"
    <3>1. tracker'[t] = penalty(t)
      BY <1>1, <2>3
    <3>. QED  BY <1>1, <2>1, <2>3, <3>1, PenaltyType DEF Inv, Sound, Counted, Outlook
  <2>4. CASE ~ is_working(t) /\ failed[t] = "none"
    <3>1. tracker'[t] = tracker[t]
      BY <1>1, <2>4
    <3>. QED  BY <1>1, <2>1, <2>4, <3>1 DEF Inv, TypeOK, Sound, Counted, Outlook
  <2>. QED  BY <2>2, <2>3, <2>4
<1>3. tracker' \in [Trackers -> [errors : 0..MaxErrors, wait : 0..MaxBackoff]]
  BY <1>1, <1>2
<1>4. TypeOK' /\ IsFiniteSet(asking')
  BY <1>1, <1>3, EndTypes DEF Inv, TypeOK
<1>. QED  BY <1>1, <1>2, <1>4, RoundOver DEF Inv
-----------------------------------------------------------------------------
LEMMA PostInv ==
  ASSUME Inv, NEW i \in Torrents, post(i) \/ remove(i)
  PROVE  Inv'
<1>1. UNCHANGED <<tracker, age, round, restarts, streak, doubtful>>
  BY DEF post, remove
<1>2. posted' \subseteq Torrents /\ gone' \subseteq Torrents \ posted'
  BY DEF post, remove, Inv, TypeOK
<1>3. TypeOK'
  BY <1>1, <1>2 DEF round, Inv, TypeOK
<1>4. ASSUME NEW t \in Trackers PROVE Sound(t)'
  BY <1>1, SoundStays DEF round, Inv, answered
<1>. QED  BY <1>1, <1>3, <1>4 DEF round, Inv

LEMMA ClearInv ==
  ASSUME Inv, NEW t \in Trackers, clear_tracker_backoff(t)
  PROVE  Inv'
<1>1. /\ tracker' = [tracker EXCEPT ![t] = [errors |-> 0, wait |-> 0]]
      /\ streak' = [streak EXCEPT ![t] = 0]
      /\ doubtful' = IF pc = "idle" THEN doubtful \ {t} ELSE doubtful \cup {t}
      /\ UNCHANGED <<posted, gone, age, pc, todo, asking, got, failed, counts, limited,
                     restarts>>
  BY DEF clear_tracker_backoff, round
<1>2. tracker' \in [Trackers -> [errors : 0..MaxErrors, wait : 0..MaxBackoff]]
  <2>1. [errors |-> 0, wait |-> 0] \in [errors : 0..MaxErrors, wait : 0..MaxBackoff]
    BY ScrapingAssumption
  <2>. QED  BY <1>1, <2>1 DEF Inv, TypeOK
<1>3. streak' \in [Trackers -> 0..MaxErrors] /\ doubtful' \subseteq Trackers
  BY <1>1, ScrapingAssumption DEF Inv, TypeOK
<1>4. TypeOK'
  BY <1>1, <1>2, <1>3 DEF Inv, TypeOK
<1>5. \A s \in Trackers : answered(s)' <=> answered(s)
  BY <1>1 DEF answered
<1>6. Sound(t)'
  <2>1. streak'[t] = 0 /\ tracker'[t].errors = 0
    BY <1>1 DEF Inv, TypeOK
  <2>. QED  BY <1>1, <1>5, <2>1
            DEF Inv, Sound, Ordered, Silent, Counted, Outlook, Left, Pending, is_working
<1>7. ASSUME NEW s \in Trackers, s # t PROVE Sound(s)'
  <2>1. /\ tracker'[s] = tracker[s] /\ streak'[s] = streak[s]
        /\ s \in doubtful' <=> s \in doubtful
    BY <1>1, <1>7 DEF Inv, TypeOK
  <2>. QED  BY <1>1, <1>5, <1>7, <2>1, SoundStays DEF Inv
<1>. QED  BY <1>1, <1>4, <1>6, <1>7 DEF Inv

LEMMA TickInv ==
  ASSUME Inv, Tick
  PROVE  Inv'
<1>1. /\ tracker' = [t \in Trackers |->
             [tracker[t] EXCEPT !.wait = IF @ > 0 THEN @ - 1 ELSE 0]]
      /\ age' = [l \in Links |-> least(age[l] + 1, Interval)]
      /\ UNCHANGED <<posted, gone, pc, todo, asking, got, failed, counts, limited,
                     restarts, streak, doubtful>>
  BY DEF Tick, round
<1>2. ASSUME NEW t \in Trackers
      PROVE  /\ tracker'[t] \in [errors : 0..MaxErrors, wait : 0..MaxBackoff]
             /\ tracker'[t].errors = tracker[t].errors
  <2>1. tracker[t] \in [errors : 0..MaxErrors, wait : 0..MaxBackoff]
    BY DEF Inv, TypeOK
  <2>2. tracker'[t] = [tracker[t] EXCEPT !.wait = IF @ > 0 THEN @ - 1 ELSE 0]
    BY <1>1
  <2>3. (IF tracker[t].wait > 0 THEN tracker[t].wait - 1 ELSE 0) \in 0..MaxBackoff
    BY <2>1, ScrapingAssumption
  <2>. QED  BY <2>1, <2>2, <2>3
<1>3. tracker' \in [Trackers -> [errors : 0..MaxErrors, wait : 0..MaxBackoff]]
  BY <1>1, <1>2
<1>4. age' \in [Links -> 0..Interval]
  <2>1. \A l \in Links : least(age[l] + 1, Interval) \in 0..Interval
    BY ScrapingAssumption DEF Inv, TypeOK, least
  <2>. QED  BY <1>1, <2>1
<1>5. TypeOK'
  BY <1>1, <1>3, <1>4 DEF Inv, TypeOK
<1>6. ASSUME NEW t \in Trackers PROVE Sound(t)'
  BY <1>1, <1>2, SoundStays DEF Inv, answered
<1>. QED  BY <1>1, <1>5, <1>6 DEF Inv

LEMMA RestartInv ==
  ASSUME Inv, restart
  PROVE  Inv'
<1>1. /\ EndRound
      /\ restarts < MaxRestarts /\ restarts' = restarts + 1
      /\ doubtful' = doubtful \cup {t \in Trackers : streak[t] # tracker[t].errors}
      /\ UNCHANGED <<posted, gone, tracker, age, streak>>
  BY DEF restart
<1>2. restarts' \in 0..MaxRestarts
  BY <1>1, ScrapingAssumption DEF Inv, TypeOK
<1>3. TypeOK' /\ IsFiniteSet(asking')
  BY <1>1, <1>2, EndTypes DEF Inv, TypeOK
<1>4. ASSUME NEW t \in Trackers PROVE t \notin doubtful' => streak'[t] = tracker'[t].errors
  BY <1>1
<1>. QED  BY <1>1, <1>3, <1>4, RoundOver DEF Inv

LEMMA StepInv == Inv /\ [Next]_vars => Inv'
<1>. SUFFICES ASSUME Inv, [Next]_vars PROVE Inv'
  OBVIOUS
<1>1. ASSUME UNCHANGED vars PROVE Inv'
  <2>1. TypeOK'
    BY <1>1 DEF vars, round, Inv, TypeOK
  <2>2. ASSUME NEW t \in Trackers PROVE Sound(t)'
    BY <1>1, SoundStays DEF vars, round, Inv, answered
  <2>. QED  BY <1>1, <2>1, <2>2 DEF vars, round, Inv
<1>. QED  BY <1>1, GatherInv, EnterInv, PageInv, LeaveInv, UpdateInv, ReadInv, HandleInv,
             PostInv, ClearInv, TickInv, RestartInv DEF Next, Scrape, Record

LEMMA Invariant == Spec => []Inv
BY InitInv, StepInv, PTL DEF Spec
-----------------------------------------------------------------------------
(* Trackers, links and the round in memory keep their types: n_errors and  *)
(* the back-off stay in bounds, and no more trackers are asked at a time   *)
(* than there are workers.                                                 *)
THEOREM TypeCorrect == Spec => []TypeOK
<1>1. Inv => TypeOK
  BY DEF Inv
<1>. QED  BY <1>1, Invariant, PTL

(* Between rounds n_errors is the number of rounds the tracker has failed  *)
(* in a row, but for trackers a round asked and did not live to record, or *)
(* whose back-off was cleared while a round was under way.                 *)
THEOREM FailuresCount == Spec => []CountsFailures
<1>1. Inv => CountsFailures
  <2>. SUFFICES ASSUME Inv, pc = "idle", NEW t \in Trackers \ doubtful
               PROVE  tracker[t].errors = streak[t]
    BY DEF CountsFailures
  <2>. QED  BY DEF Inv, Sound, Ordered, Counted, Outlook, is_working
<1>. QED  BY <1>1, Invariant, PTL

(* A round that records its errors gives a rest to every tracker that      *)
(* failed, other than by answering nothing but 429, and none to one that   *)
(* has done nothing but answer (handle_tracker_error).                     *)
THEOREM FailuresRest == Spec => RecordedFailureRests
<1>1. ASSUME Inv, Next, RoundEnds, pc = "counted" PROVE handle_tracker_error
  <2>1. restarts \in Nat
    BY <1>1 DEF Inv, TypeOK
  <2>. QED  BY <1>1, <2>1
            DEF Next, RoundEnds, gather_scrapable_torrents, Scrape, enter, scrape_page, leave,
                Record, update_scrape_results, asyncio_gathered, read_errors,
                post, remove, clear_tracker_backoff, Tick, restart, round
<1>2. ASSUME Inv, handle_tracker_error, NEW t \in Trackers
      PROVE  /\ failed[t] # "none" /\ t \notin limited => tracker'[t].wait > 0
             /\ answered(t) /\ failed[t] = "none" => tracker'[t].wait = 0
  <2>1. tracker'[t] = CASE is_working(t)      -> [errors |-> 0, wait |-> 0]
                        [] failed[t] # "none" -> penalty(t)
                        [] OTHER              -> tracker[t]
    BY <1>2 DEF handle_tracker_error
  <2>2. failed[t] # "none" => tracker'[t] = penalty(t)
    BY <2>1 DEF is_working
  <2>3. penalty(t).wait > 0
    BY <1>2, PenaltyType DEF Inv
  <2>. QED  BY <2>1, <2>2, <2>3 DEF is_working
<1>3. Inv /\ [Next]_vars =>
        [RoundEnds /\ pc = "counted" =>
           \A t \in Trackers :
              /\ failed[t] # "none" /\ t \notin limited => tracker'[t].wait > 0
              /\ answered(t) /\ failed[t] = "none" => tracker'[t].wait = 0]_vars
  BY <1>1, <1>2
<1>. QED  BY <1>3, Invariant, PTL DEF Spec, RecordedFailureRests

-----------------------------------------------------------------------------
(* UdpTracker, for every set of trackers, every number of pages, every     *)
(* width of the transaction ids and every number of scrapes.               *)

(* Sockets are never more than a page has had time to open, whatever was   *)
(* sent over the one that is open now was sent for the page the client is  *)
(* at, and so is the answer it holds.                                      *)
Bounded(s) ==
    s.socket <= 2 * (s.page - 1) +
        (IF s.at = "connecting" THEN 1 ELSE IF s.at = "asking" THEN 2 ELSE 0)

AtIts(s, requested) ==
    /\ s.at = "idle" => requested = {}
    /\ \A q \in requested :
          /\ q.socket <= s.socket
          /\ s.at \in {"connecting", "asking"} /\ q.socket = s.socket => q.page = s.page
    /\ s.at \in {"connecting", "asking"} /\ s.result.action = "scrape" =>
          s.result.page = s.page

Recorded(pages) ==
    \A p \in PageNumbers : pages[p].type = "numbers" => pages[p].page = p

UdpSound(c) ==
    /\ Bounded(client[c])
    /\ AtIts(client[c], requests[c])
    /\ Recorded(outcome[c])

(* The one id of the cycle that does not fit may have been drawn already.  *)
UdpCounted ==
    overflows <= _db_prefix + (IF _tracker_trans_id > MaxId THEN 1 ELSE 0)

UdpInv ==
    /\ UdpTypeOK
    /\ \A c \in Clients : UdpSound(c)
    /\ UdpCounted

LEMMA UdpInitInv == UdpInit => UdpInv
<1>. SUFFICES ASSUME UdpInit PROVE UdpInv
  OBVIOUS
<1>1. Idle \in States
  BY UdpTrackerAssumption DEF Idle, States, PageNumbers, Ids, Sockets, Replies
<1>2. NothingYet \in [PageNumbers -> Outcomes]
  BY DEF NothingYet, Unasked, Outcomes
<1>3. UdpTypeOK
  BY <1>1, <1>2, UdpTrackerAssumption DEF UdpInit, UdpTypeOK, Ids
<1>4. ASSUME NEW c \in Clients PROVE UdpSound(c)
  <2>1. client[c] = Idle /\ requests[c] = {} /\ outcome[c] = NothingYet
    BY DEF UdpInit
  <2>2. Recorded(NothingYet)
    BY DEF Recorded, NothingYet, Unasked
  <2>3. Bounded(Idle) /\ AtIts(Idle, {})
    BY DEF Bounded, AtIts, Idle
  <2>. QED  BY <2>1, <2>2, <2>3 DEF UdpSound
<1>5. UdpCounted
  BY UdpTrackerAssumption DEF UdpInit, UdpCounted
<1>. QED  BY <1>3, <1>4, <1>5 DEF UdpInv
-----------------------------------------------------------------------------
(* What a step of client c may do to the clients: c stays sound, and no    *)
(* other is touched.                                                       *)
Moves(c, s, requested, pages) ==
    /\ s \in States /\ requested \in SUBSET Datagrams /\ pages \in [PageNumbers -> Outcomes]
    /\ Bounded(s) /\ AtIts(s, requested) /\ Recorded(pages)
    /\ client' = [client EXCEPT ![c] = s]
    /\ requests' = [requests EXCEPT ![c] = requested]
    /\ outcome' = [outcome EXCEPT ![c] = pages]

Moved(c) == \E s, requested, pages : Moves(c, s, requested, pages)

LEMMA MovedSound ==
  ASSUME UdpTypeOK, \A d \in Clients : UdpSound(d), NEW c \in Clients, Moved(c)
  PROVE  /\ client' \in [Clients -> States]
         /\ requests' \in [Clients -> SUBSET Datagrams]
         /\ outcome' \in [Clients -> [PageNumbers -> Outcomes]]
         /\ \A d \in Clients : UdpSound(d)'
<1>1. PICK s, requested, pages : Moves(c, s, requested, pages)
  BY DEF Moved
<1>2. /\ client' \in [Clients -> States]
      /\ requests' \in [Clients -> SUBSET Datagrams]
      /\ outcome' \in [Clients -> [PageNumbers -> Outcomes]]
  BY <1>1 DEF Moves, UdpTypeOK
<1>3. ASSUME NEW d \in Clients PROVE UdpSound(d)'
  <2>1. CASE d = c
    <3>1. client'[d] = s /\ requests'[d] = requested /\ outcome'[d] = pages
      BY <1>1, <2>1 DEF Moves, UdpTypeOK
    <3>. QED  BY <1>1, <3>1 DEF Moves, UdpSound
  <2>2. CASE d # c
    <3>1. /\ client'[d] = client[d] /\ requests'[d] = requests[d]
          /\ outcome'[d] = outcome[d]
      BY <1>1, <2>2 DEF Moves, UdpTypeOK
    <3>. QED  BY <3>1 DEF UdpSound
  <2>. QED  BY <2>1, <2>2
<1>. QED  BY <1>2, <1>3

(* What is known of a client before it moves.                              *)
LEMMA Before ==
  ASSUME UdpTypeOK, NEW c \in Clients, UdpSound(c)
  PROVE  /\ client[c] \in States /\ requests[c] \in SUBSET Datagrams
         /\ outcome[c] \in [PageNumbers -> Outcomes]
         /\ Bounded(client[c]) /\ AtIts(client[c], requests[c]) /\ Recorded(outcome[c])
         /\ client[c].page \in Nat \ {0} /\ client[c].page <= Pages
         /\ client[c].socket \in Nat
         /\ Pages \in Nat
BY UdpTrackerAssumption DEF UdpTypeOK, UdpSound, States, PageNumbers, Sockets

(* A socket is opened: to connect, from a page, or to ask, from a page or  *)
(* once connected.                                                         *)
LEMMA Made ==
  ASSUME UdpTypeOK, NEW c \in Clients, UdpSound(c), NEW s \in States, NEW action,
         s.page = client[c].page,
         \/ s.at = "connecting" /\ client[c].at = "page" /\ action = "connect"
         \/ s.at = "asking" /\ client[c].at \in {"page", "connecting"} /\ action = "scrape",
         connection_made(c, s, action), UNCHANGED outcome
  PROVE  Moved(c)
<1>. DEFINE n == new_socket(c)
            t == [s EXCEPT !.socket = n, !.done = FALSE, !.result = NoResult]
            q == [socket |-> n, action |-> action, id |-> s.tid, page |-> s.page]
<1>1. n = client[c].socket + 1 /\ n \in Sockets
  BY Before DEF new_socket, Bounded, Sockets
<1>2. t \in States /\ q \in Datagrams
  BY <1>1 DEF States, Datagrams, Replies
<1>3. /\ t.at = s.at /\ t.page = s.page /\ t.socket = n /\ t.result = NoResult
      /\ q.socket = n /\ q.page = s.page
  BY DEF States
<1>4. client' = [client EXCEPT ![c] = t] /\ requests' = [requests EXCEPT ![c] = @ \cup {q}]
  BY DEF connection_made
<1>. HIDE DEF n, t, q
<1>5. requests' = [requests EXCEPT ![c] = requests[c] \cup {q}]
  BY <1>4
<1>6. Bounded(t)
  BY <1>1, <1>3, Before DEF Bounded
<1>7. \A r \in requests[c] : r.socket \in Nat /\ r.socket <= client[c].socket
  BY Before DEF AtIts, Datagrams, Sockets
<1>8. AtIts(t, requests[c] \cup {q})
  <2>1. \A r \in requests[c] : r.socket < n
    BY <1>1, <1>7, Before
  <2>2. \A r \in requests[c] \cup {q} :
           r.socket <= t.socket /\ (r.socket = t.socket => r.page = t.page)
    BY <1>1, <1>3, <1>7, <2>1, Before
  <2>. QED  BY <1>3, <2>2 DEF AtIts, NoResult
<1>9. outcome' = [outcome EXCEPT ![c] = outcome[c]]
  BY DEF UdpTypeOK
<1>10. Moves(c, t, requests[c] \cup {q}, outcome[c])
  BY <1>2, <1>4, <1>5, <1>6, <1>8, <1>9, Before DEF Moves
<1>. QED  BY <1>10 DEF Moved

(* A page ends, with numbers of its own or with an error.                  *)
LEMMA Ended ==
  ASSUME UdpTypeOK, NEW c \in Clients, UdpSound(c), NEW s \in States, NEW result \in Outcomes,
         s.page = client[c].page, s.socket = client[c].socket,
         result.type = "numbers" => result.page = s.page,
         end_page(c, s, result)
  PROVE  Moved(c)
<1>. DEFINE pages == [outcome[c] EXCEPT ![s.page] = result]
<1>1. outcome' = [outcome EXCEPT ![c] = pages]
  BY DEF end_page
<1>2. pages \in [PageNumbers -> Outcomes] /\ Recorded(pages)
  BY Before DEF Recorded, States
<1>. HIDE DEF pages
<1>3. CASE s.page = Pages
  <2>1. Idle \in States /\ Bounded(Idle) /\ AtIts(Idle, {})
    BY UdpTrackerAssumption
    DEF Idle, States, PageNumbers, Ids, Sockets, Replies, Bounded, AtIts
  <2>2. client' = [client EXCEPT ![c] = Idle] /\ requests' = [requests EXCEPT ![c] = {}]
    BY <1>3 DEF end_page
  <2>3. Moves(c, Idle, {}, pages)
    BY <1>1, <1>2, <2>1, <2>2 DEF Moves
  <2>. QED  BY <2>3 DEF Moved
<1>4. CASE s.page # Pages
  <2>. DEFINE t == [s EXCEPT !.at = "page", !.page = @ + 1, !.done = FALSE,
                             !.result = NoResult]
  <2>1. client' = [client EXCEPT ![c] = t] /\ UNCHANGED requests
    BY <1>4 DEF end_page
  <2>2. s.page + 1 \in PageNumbers
    BY <1>4, Before DEF PageNumbers
  <2>3. /\ t \in States
        /\ t.at = "page" /\ t.page = s.page + 1 /\ t.socket = s.socket
    BY <2>2 DEF States, Replies
  <2>. HIDE DEF t
  <2>4. Bounded(t)
    BY <2>3, Before DEF Bounded
  <2>5. AtIts(t, requests[c])
    BY <2>3, Before DEF AtIts
  <2>6. requests' = [requests EXCEPT ![c] = requests[c]]
    BY <2>1 DEF UdpTypeOK
  <2>7. Moves(c, t, requests[c], pages)
    BY <1>1, <1>2, <2>1, <2>3, <2>4, <2>5, <2>6, Before DEF Moves
  <2>. QED  BY <2>7 DEF Moved
<1>. QED  BY <1>3, <1>4
-----------------------------------------------------------------------------
LEMMA ScrapeMoves ==
  ASSUME UdpTypeOK, NEW c \in Clients, UdpSound(c), scrape(c)
  PROVE  Moved(c)
<1>. DEFINE t == [Idle EXCEPT !.at = "page"]
<1>1. /\ client' = [client EXCEPT ![c] = t] /\ requests[c] = {}
      /\ outcome' = [outcome EXCEPT ![c] = NothingYet]
  BY Before DEF scrape, AtIts
<1>2. requests' = [requests EXCEPT ![c] = {}]
  BY <1>1 DEF scrape, UdpTypeOK
<1>3. t \in States /\ Bounded(t) /\ AtIts(t, {})
  <2>1. Idle \in States
    BY UdpTrackerAssumption DEF Idle, States, PageNumbers, Ids, Sockets, Replies
  <2>2. t \in States /\ t.at = "page" /\ t.page = Idle.page /\ t.socket = Idle.socket
    BY <2>1 DEF States
  <2>3. Idle.page = 1 /\ Idle.socket = 0
    BY DEF Idle
  <2>. HIDE DEF t
  <2>. QED  BY <2>2, <2>3 DEF Bounded, AtIts
<1>4. NothingYet \in [PageNumbers -> Outcomes] /\ Recorded(NothingYet)
  BY DEF NothingYet, Unasked, Outcomes, Recorded
<1>5. Moves(c, t, {}, NothingYet)
  BY <1>1, <1>2, <1>3, <1>4 DEF Moves
<1>. QED  BY <1>5 DEF Moved

(* A step that changes neither what has been sent nor what came of it.     *)
LEMMA Touched ==
  ASSUME UdpTypeOK, NEW c \in Clients, UdpSound(c), NEW t \in States,
         client' = [client EXCEPT ![c] = t],
         t.at = client[c].at, t.page = client[c].page, t.socket = client[c].socket,
         \/ t.result = client[c].result
         \/ t.result.action = "scrape" => t.result.page = t.page,
         UNCHANGED <<requests, outcome>>
  PROVE  Moved(c)
<1>1. Bounded(t) /\ AtIts(t, requests[c])
  BY Before DEF Bounded, AtIts
<1>2. /\ requests' = [requests EXCEPT ![c] = requests[c]]
      /\ outcome' = [outcome EXCEPT ![c] = outcome[c]]
  BY DEF UdpTypeOK
<1>3. Moves(c, t, requests[c], outcome[c])
  BY <1>1, <1>2, Before DEF Moves
<1>. QED  BY <1>3 DEF Moved

LEMMA DatagramMoves ==
  ASSUME UdpTypeOK, NEW c \in Clients, UdpSound(c), datagram_received(c)
  PROVE  Moved(c)
<1>0. PICK r \in requests[c] :
         /\ r.socket = client[c].socket
         /\ \E answer \in Answers(r) :
               client' = [client EXCEPT ![c].result = answer, ![c].done = TRUE]
  BY DEF datagram_received
<1>1. PICK answer \in Answers(r) :
         client' = [client EXCEPT ![c].result = answer, ![c].done = TRUE]
  BY <1>0
<1>2. r \in Datagrams /\ r.page = client[c].page
  BY <1>0, Before DEF datagram_received, Waiting, AtIts
<1>3. answer \in Replies /\ (answer.action = "scrape" => answer.page = r.page)
  BY <1>1, <1>2 DEF Answers, Replies, Numbers, Datagrams
<1>. DEFINE t == [client[c] EXCEPT !.result = answer, !.done = TRUE]
<1>4. client' = [client EXCEPT ![c] = t]
  BY <1>1 DEF UdpTypeOK
<1>5. /\ t \in States
      /\ t.at = client[c].at /\ t.page = client[c].page /\ t.socket = client[c].socket
      /\ t.result = answer
  BY <1>3, Before DEF States
<1>. HIDE DEF t
<1>. QED  BY <1>2, <1>3, <1>4, <1>5, Touched DEF datagram_received

LEMMA ErrorMoves ==
  ASSUME UdpTypeOK, NEW c \in Clients, UdpSound(c), error_received(c) \/ minute(c)
  PROVE  Moved(c)
<1>1. CASE error_received(c)
  <2>. DEFINE t == [client[c] EXCEPT !.done = TRUE]
  <2>1. client' = [client EXCEPT ![c] = t]
    BY <1>1 DEF error_received, UdpTypeOK
  <2>2. /\ t \in States
        /\ t.at = client[c].at /\ t.page = client[c].page /\ t.socket = client[c].socket
        /\ t.result = client[c].result
    BY Before DEF States
  <2>. HIDE DEF t
  <2>. QED  BY <1>1, <2>1, <2>2, Touched DEF error_received
<1>2. CASE minute(c)
  <2>. DEFINE t == [client[c] EXCEPT !.connection = "old"]
  <2>1. client' = [client EXCEPT ![c] = t]
    BY <1>2 DEF minute, UdpTypeOK
  <2>2. /\ t \in States
        /\ t.at = client[c].at /\ t.page = client[c].page /\ t.socket = client[c].socket
        /\ t.result = client[c].result
    BY Before DEF States
  <2>. HIDE DEF t
  <2>. QED  BY <1>2, <2>1, <2>2, Touched DEF minute
<1>. QED  BY <1>1, <1>2

(* A page that is given up, with an error.                                 *)
LEMMA Failed ==
  ASSUME UdpTypeOK, NEW c \in Clients, UdpSound(c), NEW s \in States,
         s.page = client[c].page, s.socket = client[c].socket,
         NEW t \in {"connection", "timeout", "default"}, end_page(c, s, Error(t))
  PROVE  Moved(c)
<1>1. Error(t) \in Outcomes /\ Error(t).type # "numbers"
  BY DEF Error, Outcomes
<1>. QED  BY <1>1, Ended

LEMMA AskMoves ==
  ASSUME UdpTypeOK, NEW c \in Clients, UdpSound(c), NEW s \in States,
         s.page = client[c].page, s.socket = client[c].socket,
         client[c].at \in {"page", "connecting"}, udp_create_scrape_msg(c, s)
  PROVE  Moved(c)
<1>1. CASE no_endpoint(c, s)
  BY <1>1, Failed DEF no_endpoint
<1>2. CASE connection_made(c, [s EXCEPT !.at = "asking"], "scrape") /\ UNCHANGED outcome
  <2>. DEFINE t == [s EXCEPT !.at = "asking"]
  <2>1. t \in States /\ t.at = "asking" /\ t.page = s.page
    BY DEF States
  <2>. HIDE DEF t
  <2>. QED  BY <1>2, <2>1, Made DEF t
<1>. QED  BY <1>1, <1>2 DEF udp_create_scrape_msg

(* The counter stays among the ids, and one past the greatest at most.     *)
LEMMA Drawn ==
  ASSUME UdpTypeOK, UdpCounted, next
  PROVE  /\ _tracker_trans_id' \in Ids /\ _db_prefix' \in Nat
         /\ overflows' = overflows + (IF Fits(_tracker_trans_id') THEN 0 ELSE 1) => UdpCounted'
<1>1. /\ _tracker_trans_id \in Int /\ -1 <= _tracker_trans_id
      /\ _tracker_trans_id <= MaxId + 1
      /\ _db_prefix \in Nat /\ MaxId \in Nat /\ overflows \in Nat
  BY UdpTrackerAssumption DEF UdpTypeOK, Ids
<1>2. CASE _tracker_trans_id > MaxId
  <2>1. _tracker_trans_id' = 0 /\ _db_prefix' = _db_prefix + 1
    BY <1>2 DEF next
  <2>. QED  BY <1>1, <1>2, <2>1 DEF UdpCounted, Fits, Ids
<1>3. CASE ~ (_tracker_trans_id > MaxId)
  <2>1. _tracker_trans_id' = _tracker_trans_id + 1 /\ _db_prefix' = _db_prefix
    BY <1>3 DEF next
  <2>. QED  BY <1>1, <1>3, <2>1 DEF UdpCounted, Fits, Ids
<1>. QED  BY <1>2, <1>3

(* What client c does when the event loop runs it.                         *)
LEMMA RunMoves ==
  ASSUME UdpTypeOK, UdpCounted, NEW c \in Clients, UdpSound(c), Run(c)
  PROVE  /\ Moved(c)
         /\ _tracker_trans_id' \in Ids /\ _db_prefix' \in Nat
         /\ overflows' \in Nat /\ UdpCounted'
         /\ UNCHANGED scrapes
<1>1. CASE reuse_connection(c)
  <2>1. Moved(c)
    BY <1>1, AskMoves, Before DEF reuse_connection
  <2>. QED  BY <1>1, <2>1 DEF reuse_connection, counter, UdpTypeOK, UdpCounted
<1>2. CASE _initiate_connection(c)
  <2>. DEFINE s == [client[c] EXCEPT !.tid = _tracker_trans_id']
  <2>1. /\ _tracker_trans_id' \in Ids /\ _db_prefix' \in Nat
        /\ overflows' = overflows + (IF Fits(_tracker_trans_id') THEN 0 ELSE 1) => UdpCounted'
    BY <1>2, Drawn DEF _initiate_connection
  <2>2. /\ s \in States /\ s.page = client[c].page /\ s.socket = client[c].socket
        /\ s.tid = _tracker_trans_id'
    BY <2>1, Before DEF States
  <2>3. CASE Fits(s.tid)
    <3>1. overflows' = overflows
      BY <1>2, <2>3 DEF _initiate_connection
    <3>2. CASE no_endpoint(c, s)
      <4>. HIDE DEF s
      <4>1. Moved(c)
        BY <2>2, <3>2, Failed DEF no_endpoint
      <4>. QED  BY <1>2, <2>1, <2>2, <2>3, <3>1, <4>1 DEF _initiate_connection, UdpTypeOK
    <3>3. CASE connection_made(c, [s EXCEPT !.at = "connecting"], "connect")
               /\ UNCHANGED outcome
      <4>. DEFINE t == [s EXCEPT !.at = "connecting"]
      <4>1. t \in States /\ t.at = "connecting" /\ t.page = s.page
        BY <2>2 DEF States
      <4>. HIDE DEF s
      <4>2. connection_made(c, t, "connect") /\ UNCHANGED outcome
        BY <3>3
      <4>. HIDE DEF t
      <4>3. Moved(c)
        BY <1>2, <2>2, <4>1, <4>2, Made DEF _initiate_connection
      <4>. QED  BY <1>2, <2>1, <2>2, <2>3, <3>1, <4>3 DEF _initiate_connection, UdpTypeOK
    <3>. QED  BY <1>2, <2>3, <3>2, <3>3 DEF _initiate_connection
  <2>4. CASE ~ Fits(s.tid)
    <3>1. end_page(c, s, Error("default")) /\ overflows' = overflows + 1
      BY <1>2, <2>4 DEF _initiate_connection
    <3>. HIDE DEF s
    <3>2. Moved(c)
      BY <2>2, <3>1, Failed
    <3>. QED  BY <1>2, <2>1, <2>2, <2>4, <3>1, <3>2 DEF _initiate_connection, UdpTypeOK
  <2>. QED  BY <2>3, <2>4
<1>3. CASE connected(c)
  <2>. DEFINE s == [client[c] EXCEPT !.connection = "fresh"]
  <2>1. s \in States /\ s.page = client[c].page /\ s.socket = client[c].socket
    BY Before DEF States
  <2>. HIDE DEF s
  <2>2. udp_create_scrape_msg(c, s) => Moved(c)
    BY <1>3, <2>1, AskMoves DEF connected
  <2>3. ASSUME NEW t \in {"connection", "default"}, end_page(c, client[c], Error(t))
        PROVE  Moved(c)
    BY <2>3, Failed, Before
  <2>4. Moved(c)
    <3>1. CASE client[c].result.action = "connect" /\ client[c].result.id = client[c].tid
      BY <1>3, <2>2, <3>1 DEF connected, s
    <3>2. CASE ~ (client[c].result.action = "connect" /\ client[c].result.id = client[c].tid)
      BY <1>3, <2>3, <3>2 DEF connected
    <3>. QED  BY <3>1, <3>2
  <2>. QED  BY <1>3, <2>4 DEF connected, counter, UdpTypeOK, UdpCounted
<1>4. CASE page_answered(c)
  <2>. DEFINE result == _unpack_scrape_result(client[c])
  <2>1. /\ result \in Outcomes
        /\ result.type = "numbers" => result.page = client[c].page
    <3>1. CASE client[c].result.action = "scrape"
      <4>1. client[c].result.page = client[c].page
        BY <1>4, <3>1, Before DEF page_answered, AtIts
      <4>. QED  BY <3>1, <4>1, Before
           DEF _unpack_scrape_result, Error, Outcomes, States
    <3>2. CASE client[c].result.action # "scrape"
      BY <3>2 DEF _unpack_scrape_result, Error, Outcomes
    <3>. QED  BY <3>1, <3>2
  <2>2. end_page(c, client[c], result)
    BY <1>4 DEF page_answered
  <2>. HIDE DEF result
  <2>3. Moved(c)
    BY <2>1, <2>2, Ended, Before
  <2>. QED  BY <1>4, <2>3 DEF page_answered, counter, UdpTypeOK, UdpCounted
<1>5. CASE time_out(c)
  <2>1. Moved(c)
    BY <1>5, Failed, Before DEF time_out
  <2>. QED  BY <1>5, <2>1 DEF time_out, counter, UdpTypeOK, UdpCounted
<1>. QED  BY <1>1, <1>2, <1>3, <1>4, <1>5 DEF Run

LEMMA UdpStepInv == UdpInv /\ [UdpNext]_udp_vars => UdpInv'
<1>. SUFFICES ASSUME UdpInv, [UdpNext]_udp_vars PROVE UdpInv'
  OBVIOUS
<1>0. UdpTypeOK /\ UdpCounted /\ \A c \in Clients : UdpSound(c)
  BY DEF UdpInv
<1>1. ASSUME NEW c \in Clients,
             \/ scrape(c) \/ Run(c) \/ datagram_received(c) \/ error_received(c) \/ minute(c)
      PROVE  UdpInv'
  <2>1. Moved(c)
    BY <1>0, <1>1, ScrapeMoves, RunMoves, DatagramMoves, ErrorMoves
  <2>2. /\ _tracker_trans_id' \in Ids /\ _db_prefix' \in Nat
        /\ overflows' \in Nat /\ UdpCounted'
        /\ scrapes' \in 0 .. MaxScrapes
    <3>1. CASE Run(c)
      BY <1>0, <3>1, RunMoves DEF UdpTypeOK
    <3>2. CASE scrape(c)
      <4>1. scrapes' \in 0 .. MaxScrapes
        BY <1>0, <3>2, UdpTrackerAssumption DEF scrape, UdpTypeOK
      <4>. QED  BY <1>0, <3>2, <4>1 DEF scrape, counter, UdpTypeOK, UdpCounted
    <3>3. CASE datagram_received(c) \/ error_received(c) \/ minute(c)
      BY <1>0, <3>3
      DEF datagram_received, error_received, minute, counter, UdpTypeOK, UdpCounted
    <3>. QED  BY <1>1, <3>1, <3>2, <3>3
  <2>. QED  BY <1>0, <2>1, <2>2, MovedSound DEF UdpInv, UdpTypeOK
<1>2. CASE UNCHANGED udp_vars
  BY <1>0, <1>2 DEF udp_vars, counter, UdpInv, UdpTypeOK, UdpSound, UdpCounted
<1>. QED  BY <1>1, <1>2 DEF UdpNext

LEMMA UdpInvariant == UdpSpec => []UdpInv
<1>. QED  BY UdpInitInv, UdpStepInv, PTL DEF UdpSpec
-----------------------------------------------------------------------------
(* Clients, datagrams, outcomes and the counter stay within their types:   *)
(* the counter never leaves the ids by more than one, and a scrape opens   *)
(* at most two sockets for each of its pages.                              *)
THEOREM UdpTypeCorrect == UdpSpec => []UdpTypeOK
<1>1. UdpInv => UdpTypeOK
  BY DEF UdpInv
<1>. QED  BY <1>1, UdpInvariant, PTL

(* The numbers recorded for a page were sent for that page, although pages *)
(* share transaction ids and datagrams are repeated and come late: each    *)
(* request has a socket of its own.                                        *)
THEOREM NumbersAreOwn == UdpSpec => []OwnNumbers
<1>1. UdpInv => OwnNumbers
  BY DEF UdpInv, UdpSound, Recorded, OwnNumbers
<1>. QED  BY <1>1, UdpInvariant, PTL

(* Each time the counter goes through its ids, at most one page is lost to *)
(* the id that does not fit 32 bits.                                       *)
THEOREM OnePagePerCycle == UdpSpec => []OverflowLosesOnePage
<1>1. UdpInv => OverflowLosesOnePage
  BY DEF UdpInv, UdpTypeOK, UdpCounted, OverflowLosesOnePage
<1>. QED  BY <1>1, UdpInvariant, PTL
=============================================================================
