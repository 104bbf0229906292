----------------------------- MODULE UdpTracker -----------------------------
(***************************************************************************)
(* How UDP trackers are scraped (services/tracker_scrape.py).  A client    *)
(* asks its tracker page by page: it connects, if its connection is not    *)
(* young enough, and asks for the page, each time over a socket of its     *)
(* own.  Clients run side by side in one event loop and draw their         *)
(* transaction ids from one counter.                                       *)
(*                                                                         *)
(* The network loses, delays, repeats and reorders datagrams, and a        *)
(* tracker may answer anything.  A datagram reaches a client only through  *)
(* an open socket, from the tracker it is connected to; the operating      *)
(* system does not give out a port again while answers to it may still     *)
(* arrive.                                                                 *)
(***************************************************************************)
EXTENDS Integers, FiniteSets

CONSTANTS
    Clients,     \* one for each tracker
    Pages,       \* pages of infohashes in a scrape: 1..Pages
    MaxId,       \* the greatest transaction id that fits its 32 bits
    MaxScrapes   \* bound: scrapes begun

ASSUME UdpTrackerAssumption ==
    {Pages, MaxId, MaxScrapes} \subseteq Nat \ {0}

VARIABLES
    _tracker_trans_id, _db_prefix,   \* the counter
    client,                          \* client -> where it stands
    requests,                        \* datagrams sent, by client
    outcome,                         \* client -> page -> what came of it
    scrapes,
    \* History of the model:
    overflows                        \* pages lost to an id that does not fit

counter == <<_tracker_trans_id, _db_prefix>>
udp_vars == <<counter, client, requests, outcome, scrapes, overflows>>

PageNumbers == 1 .. Pages
Ids == -1 .. MaxId + 1
Sockets == 0 .. 2 * Pages
NoResult == [action |-> "none"]

\* What a tracker sends: numbers for all or the first torrents of a page; a
\* datagram whose action or id is not the one asked for; one too short to unpack.
Numbers == [action : {"scrape"}, id : Ids, page : PageNumbers]
Replies == {NoResult} \cup Numbers \cup [action : {"connect"}, id : Ids]
             \cup [action : {"wrong", "short"}]

\* What comes of a page: nothing yet, an error, or numbers.
Unasked == [type |-> "unasked"]
Error(t) == [type |-> t]
Outcomes == [type : {"unasked", "connection", "timeout", "default"}]
              \cup [type : {"numbers"}, page : PageNumbers]

Idle == [at |-> "idle", page |-> 1, tid |-> -1, connection |-> "none",
         socket |-> 0, done |-> FALSE, result |-> NoResult]

States ==
    [at : {"idle", "page", "connecting", "asking"}, page : PageNumbers, tid : Ids,
     connection : {"none", "fresh", "old"}, socket : Sockets, done : BOOLEAN,
     result : Replies]

Datagrams ==
    [socket : Sockets, action : {"connect", "scrape"}, id : Ids, page : PageNumbers]

UdpTypeOK ==
    /\ _tracker_trans_id \in Ids
    /\ _db_prefix \in Nat
    /\ client \in [Clients -> States]
    /\ requests \in [Clients -> SUBSET Datagrams]
    /\ outcome \in [Clients -> [PageNumbers -> Outcomes]]
    /\ scrapes \in 0 .. MaxScrapes
    /\ overflows \in Nat

NothingYet == [p \in PageNumbers |-> Unasked]

UdpInit ==
    /\ _tracker_trans_id = -1
    /\ _db_prefix = 0
    /\ client = [c \in Clients |-> Idle]
    /\ requests = [c \in Clients |-> {}]
    /\ outcome = [c \in Clients |-> NothingYet]
    /\ scrapes = 0
    /\ overflows = 0

-----------------------------------------------------------------------------
(* The counter: SciOpUDPCounter.next, which nothing interrupts.            *)

(* Mutant of next: the greatest value is found one later.                  *)
late ==
    IF _tracker_trans_id > MaxId + 1
    THEN _tracker_trans_id' = 0 /\ _db_prefix' = _db_prefix + 1
    ELSE _tracker_trans_id' = _tracker_trans_id + 1 /\ UNCHANGED _db_prefix

(* Mutant of next: past its greatest value the counter stays where it is.  *)
stuck ==
    /\ _tracker_trans_id' =
         IF _tracker_trans_id > MaxId THEN _tracker_trans_id ELSE _tracker_trans_id + 1
    /\ UNCHANGED _db_prefix

next ==
    IF _tracker_trans_id > MaxId
    THEN _tracker_trans_id' = 0 /\ _db_prefix' = _db_prefix + 1
    ELSE _tracker_trans_id' = _tracker_trans_id + 1 /\ UNCHANGED _db_prefix

Fits(id) == id <= MaxId

-----------------------------------------------------------------------------
(* Sockets and datagrams: UDPProtocolHandler, tracker_send_and_receive.    *)

(* Mutant of new_socket: a client keeps one socket for all it asks.        *)
kept_socket(c) == 1

new_socket(c) == client[c].socket + 1

\* The datagram leaves as the socket opens.
connection_made(c, s, action) ==
    /\ client' = [client EXCEPT ![c] = [s EXCEPT !.socket = new_socket(c), !.done = FALSE,
                                                 !.result = NoResult]]
    /\ requests' = [requests EXCEPT ![c] = @ \cup
          {[socket |-> new_socket(c), action |-> action, id |-> s.tid, page |-> s.page]}]

Waiting(c) == client[c].at \in {"connecting", "asking"}

Answers(r) ==
    [action : {"wrong", "short"}] \cup
    IF r.action = "connect" THEN {[action |-> "connect", id |-> r.id]}
    ELSE [action : {"scrape"}, id : {r.id}, page : {r.page}]

\* The last datagram before the client goes on is the result: setting a future
\* that is done raises in the event loop, after the result has been replaced.
datagram_received(c) ==
    /\ Waiting(c)
    /\ \E r \in requests[c] :
          /\ r.socket = client[c].socket
          /\ \E answer \in Answers(r) :
                client' = [client EXCEPT ![c].result = answer, ![c].done = TRUE]
    /\ UNCHANGED <<counter, requests, outcome, scrapes, overflows>>

\* The same for connection_lost with an exception.
error_received(c) ==
    /\ Waiting(c)
    /\ client' = [client EXCEPT ![c].done = TRUE]
    /\ UNCHANGED <<counter, requests, outcome, scrapes, overflows>>

-----------------------------------------------------------------------------
(* A scrape, page by page: scrape and _scrape_page.                        *)

scrape(c) ==
    /\ client[c].at = "idle"
    /\ scrapes < MaxScrapes
    /\ scrapes' = scrapes + 1
    /\ client' = [client EXCEPT ![c] = [Idle EXCEPT !.at = "page"]]
    /\ outcome' = [outcome EXCEPT ![c] = NothingYet]
    /\ UNCHANGED <<counter, requests, overflows>>

\* The page has its result, or its error; s is the client by then.  With the
\* last page the scrape ends, and no answer reaches it any more.
end_page(c, s, result) ==
    /\ outcome' = [outcome EXCEPT ![c][s.page] = result]
    /\ client' = [client EXCEPT ![c] =
          IF s.page = Pages THEN Idle
          ELSE [s EXCEPT !.at = "page", !.page = @ + 1, !.done = FALSE, !.result = NoResult]]
    /\ requests' = IF s.page = Pages THEN [requests EXCEPT ![c] = {}] ELSE requests

(* No socket, as when the network is unreachable.                          *)
no_endpoint(c, s) == end_page(c, s, Error("default"))

udp_create_scrape_msg(c, s) ==
    \/ /\ connection_made(c, [s EXCEPT !.at = "asking"], "scrape")
       /\ UNCHANGED outcome
    \/ no_endpoint(c, s)

\* A connection under a minute old is used again, with its transaction id.
reuse_connection(c) ==
    /\ client[c].at = "page"
    /\ client[c].connection = "fresh"
    /\ udp_create_scrape_msg(c, client[c])
    /\ UNCHANGED <<counter, scrapes, overflows>>

\* An id that does not fit its 32 bits makes struct.pack raise.
_initiate_connection(c) ==
    /\ client[c].at = "page"
    /\ client[c].connection # "fresh"
    /\ next
    /\ LET s == [client[c] EXCEPT !.tid = _tracker_trans_id'] IN
       IF Fits(s.tid)
       THEN /\ \/ /\ connection_made(c, [s EXCEPT !.at = "connecting"], "connect")
                  /\ UNCHANGED outcome
               \/ no_endpoint(c, s)
            /\ UNCHANGED overflows
       ELSE /\ end_page(c, s, Error("default"))
            /\ overflows' = overflows + 1
    /\ UNCHANGED scrapes

\* Connected: the page is asked for at once.
connected(c) ==
    LET s == client[c] IN
    /\ s.at = "connecting" /\ s.done
    /\ IF s.result.action = "connect" /\ s.result.id = s.tid
       THEN udp_create_scrape_msg(c, [s EXCEPT !.connection = "fresh"])
       ELSE end_page(c, s, Error(IF s.result.action = "short" THEN "default"
                                 ELSE "connection"))
    /\ UNCHANGED <<counter, scrapes, overflows>>

\* Any fault of the answer ends as "default": the message of the
\* ScrapeUnpackException is made by calling msg, which is no function.
_unpack_scrape_result(s) ==
    IF s.result.action = "none" THEN Error("connection")
    ELSE IF s.result.action = "scrape" /\ s.result.id = s.tid
    THEN [type |-> "numbers", page |-> s.result.page]
    ELSE Error("default")

page_answered(c) ==
    /\ client[c].at = "asking" /\ client[c].done
    /\ end_page(c, client[c], _unpack_scrape_result(client[c]))
    /\ UNCHANGED <<counter, scrapes, overflows>>

(* Mutant of time_out: only a connection is waited for with a time limit.  *)
time_out_connecting(c) ==
    /\ client[c].at = "connecting"
    /\ end_page(c, client[c], Error("timeout"))
    /\ UNCHANGED <<counter, scrapes, overflows>>

\* wait_for: the limit may even strike between the answer and its reading.
time_out(c) ==
    /\ Waiting(c)
    /\ end_page(c, client[c], Error("timeout"))
    /\ UNCHANGED <<counter, scrapes, overflows>>

\* A minute has passed since the connection was made.
minute(c) ==
    /\ client[c].connection = "fresh"
    /\ client' = [client EXCEPT ![c].connection = "old"]
    /\ UNCHANGED <<counter, requests, outcome, scrapes, overflows>>

-----------------------------------------------------------------------------
(* What the event loop runs, and what reaches it.                          *)
Run(c) ==
    \/ reuse_connection(c) \/ _initiate_connection(c)
    \/ connected(c) \/ page_answered(c) \/ time_out(c)

UdpNext ==
    \E c \in Clients :
        \/ scrape(c)
        \/ Run(c)
        \/ datagram_received(c)
        \/ error_received(c)
        \/ minute(c)

\* The event loop goes on with a client that can go on, and its timers fire.
UdpSpec == UdpInit /\ [][UdpNext]_udp_vars /\ \A c \in Clients : WF_udp_vars(Run(c))

-----------------------------------------------------------------------------
(* Properties.                                                             *)

\* Two pages of one connection are asked for under one transaction id; still
\* the numbers recorded for a page are those sent for it, and not the late or
\* repeated answer to another (_scrape_page checks the id only).
OwnNumbers ==
    \A c \in Clients : \A p \in PageNumbers :
        outcome[c][p].type = "numbers" => outcome[c][p].page = p

\* SciOpUDPCounter.next compares before it counts, so one id in each cycle does
\* not fit its field: it loses the one page of the one client that draws it.
OverflowLosesOnePage ==
    overflows <= _db_prefix + 1

\* Whatever datagrams are lost, repeated or malformed, and whatever ids come
\* up, a scrape ends, with an outcome for every page.
ScrapeEnds ==
    \A c \in Clients : client[c].at # "idle" ~>
        client[c].at = "idle" /\ \A p \in PageNumbers : outcome[c][p] # Unasked

=============================================================================
