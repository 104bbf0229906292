------------------------------ MODULE Scraping ------------------------------
(***************************************************************************)
(* Scraping the trackers (services/tracker_scrape.py): the job gathers     *)
(* what is due, asks all trackers concurrently, as many at a time as there *)
(* are workers, and then records what it heard in two transactions, the    *)
(* numbers first and the errors of the trackers after.                     *)
(*                                                                         *)
(* The scheduler runs one round at a time.  Meanwhile time passes, uploads *)
(* come and go, an operator clears back-offs with the command line tool,   *)
(* and the scheduler's process may be restarted.  Time is counted in ticks.*)
(***************************************************************************)
EXTENDS Integers, FiniteSets

CONSTANTS
    Udp, Http,       \* trackers, by the protocol of their announce url
    Torrents,
    Links,           \* <<tracker, torrent>>: rows of torrent_tracker_links
    MaxScrape,       \* infohashes in one request
    Workers,         \* n_workers: trackers asked at a time
    Interval,        \* interval, in ticks
    MaxBackoff,      \* max_backoff, in ticks
    Multiplier,      \* error type -> its multiplier
    MaxErrors,       \* bound: n_errors stands for this many or more
    MaxRestarts      \* bound: restarts of the scheduler

Trackers == Udp \cup Http

(* From MaxErrors on the back-off is the longest there is.                 *)
ASSUME ScrapingAssumption ==
    /\ Udp \cap Http = {}
    /\ Links \subseteq Trackers \X Torrents
    /\ MaxScrape \in Nat \ {0} /\ Workers \in Nat \ {0}
    /\ Interval \in Nat \ {0} /\ MaxBackoff \in Nat \ {0}
    /\ "default" \in DOMAIN Multiplier
    /\ \A e \in DOMAIN Multiplier : Multiplier[e] \in Nat \ {0}
    /\ MaxErrors \in Nat /\ Interval * 2^MaxErrors >= MaxBackoff
    /\ MaxRestarts \in Nat

VARIABLES
    posted,        \* torrents of uploads that are not removed
    gone,          \* torrents of removed uploads
    tracker,       \* tracker -> n_errors and the ticks up to next_scrape_after
    age,           \* link -> ticks since last_scraped_at, Interval if more or never
    pc,            \* where the round stands
    todo,          \* tracker -> its infohashes still to be asked for
    asking,        \* trackers whose turn it is: the holders of the semaphore
    got,           \* links with an answer in this round
    failed,        \* tracker -> type of its first error in this round
    counts,        \* tracker -> n_errors as the round has read it
    restarts,
    limited,       \* history: trackers that answered this round with 429 only
    streak,        \* history: rounds the tracker has failed in a row
    doubtful       \* history: trackers a round asked and did not live to record

round == <<pc, todo, asking, got, failed, counts, limited>>
vars == <<posted, gone, tracker, age, round, restarts, streak, doubtful>>

ErrorTypes == DOMAIN Multiplier \cup {"no_response"}

TypeOK ==
    /\ posted \subseteq Torrents /\ gone \subseteq Torrents \ posted
    /\ tracker \in [Trackers -> [errors : 0..MaxErrors, wait : 0..MaxBackoff]]
    /\ age \in [Links -> 0..Interval]
    /\ pc \in {"idle", "scraping", "updated", "counted"}
    /\ todo \in [Trackers -> SUBSET Torrents]
    /\ asking \subseteq Trackers /\ Cardinality(asking) <= Workers
    /\ got \subseteq Trackers \X Torrents
    /\ failed \in [Trackers -> ErrorTypes \cup {"none"}]
    /\ counts \in [Trackers -> 0..MaxErrors]
    /\ restarts \in 0..MaxRestarts
    /\ limited \subseteq Trackers
    /\ streak \in [Trackers -> 0..MaxErrors]
    /\ doubtful \subseteq Trackers

NoRound ==
    /\ pc = "idle"
    /\ todo = [t \in Trackers |-> {}]
    /\ asking = {}
    /\ got = {}
    /\ failed = [t \in Trackers |-> "none"]
    /\ counts = [t \in Trackers |-> 0]
    /\ limited = {}

Init ==
    /\ posted = {} /\ gone = {}
    /\ tracker = [t \in Trackers |-> [errors |-> 0, wait |-> 0]]
    /\ age = [l \in Links |-> Interval]
    /\ NoRound
    /\ restarts = 0
    /\ streak = [t \in Trackers |-> 0]
    /\ doubtful = {}

least(m, n) == IF m <= n THEN m ELSE n
-----------------------------------------------------------------------------
(* Mutant of is_due: a link becomes due after the interval, and not with it*)
is_due_later(t, i) == age[t, i] > Interval /\ tracker[t].wait = 0

is_due(t, i) == age[t, i] >= Interval /\ tracker[t].wait = 0

(* A round that finds nothing to do changes nothing.                       *)
gather_scrapable_torrents ==
    LET due == [t \in Trackers |-> {i \in posted : <<t, i>> \in Links /\ is_due(t, i)}] IN
    /\ pc = "idle"
    /\ \E t \in Trackers : due[t] # {}
    /\ pc' = "scraping"
    /\ todo' = due
    /\ UNCHANGED <<posted, gone, tracker, age, asking, got, failed, counts, restarts,
                   limited, streak, doubtful>>

(* The first error of a tracker is the one that counts.                    *)
fail(t, error) ==
    failed' = IF failed[t] = "none" THEN [failed EXCEPT ![t] = error] ELSE failed

(* A tracker's turn.  Its name may not resolve, or its url not make sense. *)
enter(t) ==
    /\ pc = "scraping"
    /\ todo[t] # {} /\ t \notin asking
    /\ Cardinality(asking) < Workers
    /\ asking' = asking \cup {t}
    /\ \/ /\ limited' = limited \cup {t}
          /\ UNCHANGED <<todo, failed>>
       \/ /\ \E e \in DOMAIN Multiplier : fail(t, e)
          /\ todo' = [todo EXCEPT ![t] = {}]
          /\ UNCHANGED limited
    /\ UNCHANGED <<posted, gone, tracker, age, pc, got, counts, restarts, streak, doubtful>>

(* One page.  A UDP tracker answers for a part of the page, which may be   *)
(* cut short, or fails; an HTTP tracker may also name torrents that were   *)
(* not asked for, and it may answer 429, which is no error yet.            *)
scrape_page(t) ==
    /\ t \in asking /\ todo[t] # {}
    /\ \E page \in SUBSET todo[t] :
          /\ Cardinality(page) = least(MaxScrape, Cardinality(todo[t]))
          /\ todo' = [todo EXCEPT ![t] = @ \ page]
          /\ \/ /\ \E answer \in SUBSET (IF t \in Udp THEN page ELSE Torrents) :
                      got' = got \cup ({t} \X answer)
                /\ limited' = limited \ {t}
                /\ UNCHANGED failed
             \/ /\ \E e \in DOMAIN Multiplier : fail(t, e)
                /\ limited' = limited \ {t}
                /\ UNCHANGED got
             \/ /\ t \in Http
                /\ UNCHANGED <<got, failed, limited>>
    /\ UNCHANGED <<posted, gone, tracker, age, pc, asking, counts, restarts, streak, doubtful>>

answered(t) == {l \in got : l[1] = t} # {}

(* HTTPTrackerClient.scrape: no answer and no error is an error as well.   *)
final_error(t) ==
    IF t \in Http /\ ~ answered(t) /\ failed[t] = "none" THEN "no_response" ELSE failed[t]

(* The tracker is done with; another may have its turn.                    *)
leave(t) ==
    /\ t \in asking /\ todo[t] = {}
    /\ asking' = asking \ {t}
    /\ failed' = [failed EXCEPT ![t] = final_error(t)]
    /\ streak' = CASE final_error(t) # "none" -> [streak EXCEPT ![t] = least(@ + 1, MaxErrors)]
                   [] final_error(t) = "none" /\ answered(t) -> [streak EXCEPT ![t] = 0]
                   [] OTHER -> streak
    /\ UNCHANGED <<posted, gone, tracker, age, pc, todo, got, counts, restarts, limited, doubtful>>

asyncio_gathered == pc = "scraping" /\ asking = {} /\ \A t \in Trackers : todo[t] = {}

heard_of == {t \in Trackers : answered(t) \/ failed[t] # "none"}

EndRound ==
    /\ pc' = "idle"
    /\ todo' = [t \in Trackers |-> {}]
    /\ asking' = {}
    /\ got' = {}
    /\ failed' = [t \in Trackers |-> "none"]
    /\ counts' = [t \in Trackers |-> 0]
    /\ limited' = {}

(* The first transaction.  An answer about a removed upload finds no row.  *)
(* With no answers at all there are no values for the parameters of the    *)
(* statement: it raises, and the round ends before the errors are recorded.*)
update_scrape_results ==
    /\ asyncio_gathered
    /\ \/ /\ got # {}
          /\ age' = [l \in Links |-> IF l \in got /\ l[2] \in posted THEN 0 ELSE age[l]]
          /\ pc' = "updated"
          /\ UNCHANGED <<todo, asking, got, failed, counts, limited, doubtful>>
       \/ /\ got = {}
          /\ EndRound
          /\ doubtful' = doubtful \cup heard_of
          /\ UNCHANGED age
    /\ UNCHANGED <<posted, gone, tracker, restarts, streak>>

(* handle_tracker_error reads n_errors in a session of its own ...         *)
read_errors ==
    /\ pc = "updated"
    /\ counts' = [t \in Trackers |-> IF failed[t] # "none" THEN tracker[t].errors ELSE 0]
    /\ pc' = "counted"
    /\ UNCHANGED <<posted, gone, tracker, age, todo, asking, got, failed, restarts,
                   limited, streak, doubtful>>

multiplier(e) == Multiplier[IF e \in DOMAIN Multiplier THEN e ELSE "default"]

(* Mutant of compute_backoff: max_backoff is forgotten.                    *)
unlimited_backoff(n, e) == Interval * multiplier(e) * 2^n

compute_backoff(n, e) == least(Interval * multiplier(e) * 2^n, MaxBackoff)

(* Mutant of penalty: the failure at hand is not counted.                  *)
penalty_uncounted(t) == [errors |-> counts[t], wait |-> compute_backoff(counts[t], failed[t])]

penalty(t) ==
    LET n == least(counts[t] + 1, MaxErrors) IN
    [errors |-> n, wait |-> compute_backoff(n, failed[t])]

(* Mutant of is_working: any answer clears the tracker's record.           *)
is_working_somehow(t) == answered(t)

is_working(t) == answered(t) /\ failed[t] = "none"

(* ... and writes it in another.                                           *)
handle_tracker_error ==
    /\ pc = "counted"
    /\ tracker' = [t \in Trackers |->
           CASE is_working(t)      -> [errors |-> 0, wait |-> 0]
             [] failed[t] # "none" -> penalty(t)
             [] OTHER              -> tracker[t]]
    /\ doubtful' = doubtful \ {t \in Trackers : is_working(t)}
    /\ EndRound
    /\ UNCHANGED <<posted, gone, age, restarts, streak>>
-----------------------------------------------------------------------------
(* An upload is posted, for good until it is removed.                      *)
post(i) ==
    /\ i \notin posted \cup gone
    /\ posted' = posted \cup {i}
    /\ UNCHANGED <<gone, tracker, age, round, restarts, streak, doubtful>>

remove(i) ==
    /\ i \in posted
    /\ posted' = posted \ {i}
    /\ gone' = gone \cup {i}
    /\ UNCHANGED <<tracker, age, round, restarts, streak, doubtful>>

(* sciop trackers clear, for one tracker.                                  *)
clear_tracker_backoff(t) ==
    /\ tracker[t].errors > 0
    /\ tracker' = [tracker EXCEPT ![t] = [errors |-> 0, wait |-> 0]]
    /\ streak' = [streak EXCEPT ![t] = 0]
    /\ doubtful' = IF pc = "idle" THEN doubtful \ {t} ELSE doubtful \cup {t}
    /\ UNCHANGED <<posted, gone, age, round, restarts>>

Tick ==
    /\ \/ \E t \in Trackers : tracker[t].wait > 0
       \/ \E l \in Links : age[l] < Interval
    /\ tracker' = [t \in Trackers |->
           [tracker[t] EXCEPT !.wait = IF @ > 0 THEN @ - 1 ELSE 0]]
    /\ age' = [l \in Links |-> least(age[l] + 1, Interval)]
    /\ UNCHANGED <<posted, gone, round, restarts, streak, doubtful>>

(* The scheduler's process goes, and with it the round.                    *)
restart ==
    /\ pc # "idle"
    /\ restarts < MaxRestarts
    /\ restarts' = restarts + 1
    /\ doubtful' = doubtful \cup {t \in Trackers : streak[t] # tracker[t].errors}
    /\ EndRound
    /\ UNCHANGED <<posted, gone, tracker, age, streak>>
-----------------------------------------------------------------------------
Scrape(t) == enter(t) \/ scrape_page(t) \/ leave(t)

Record == update_scrape_results \/ read_errors \/ handle_tracker_error

Next ==
    \/ gather_scrapable_torrents
    \/ \E t \in Trackers : Scrape(t)
    \/ Record
    \/ \E i \in Torrents : post(i) \/ remove(i)
    \/ \E t \in Trackers : clear_tracker_backoff(t)
    \/ Tick
    \/ restart

(* The job runs at an interval, every request has a timeout, and time      *)
(* passes.                                                                 *)
Fairness ==
    /\ WF_vars(gather_scrapable_torrents)
    /\ \A t \in Trackers : WF_vars(Scrape(t))
    /\ WF_vars(Record)
    /\ WF_vars(Tick)

Spec == Init /\ [][Next]_vars /\ Fairness
-----------------------------------------------------------------------------
(* n_errors is the "number of sequential failures to scrape this tracker", *)
(* "set to 0 after a successful scrape" (Tracker), although it is read in  *)
(* one transaction and written in another.  A round that did not come to   *)
(* record what it heard, or a back-off cleared during a round, can put it  *)
(* wrong, and the next good round puts it right.                           *)
CountsFailures ==
    pc = "idle" =>
        \A t \in Trackers \ doubtful : tracker[t].errors = streak[t]

RoundEnds == pc # "idle" /\ pc' = "idle" /\ restarts' = restarts

(* A round that records its errors gives a rest to every tracker that      *)
(* failed, be it for one page of those it answered, and none to one that   *)
(* has done nothing but answer.  Trackers that said 429 to all they were   *)
(* asked (limited) are left out: they are given a rest as well, which the  *)
(* comment at that answer says they are not ("Don't return an error        *)
(* because that delays next scrape").                                      *)
RecordedFailureRests ==
    [][ RoundEnds /\ pc = "counted" =>
          \A t \in Trackers :
              /\ failed[t] # "none" /\ t \notin limited => tracker'[t].wait > 0
              /\ answered(t) /\ failed[t] = "none" => tracker'[t].wait = 0 ]_vars

(* No tracker is given up: as long as it has a torrent it is asked again   *)
(* and again, whatever it answers, since a back-off never exceeds          *)
(* max_backoff and a round comes to its end whatever fails in it.          *)
AskedAgain ==
    \A t \in Trackers :
        []<>(t \in asking \/ \A i \in posted : <<t, i>> \notin Links)
=============================================================================
