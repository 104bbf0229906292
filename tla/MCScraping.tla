----------------------------- MODULE MCScraping -----------------------------
(* The instance of Scraping that TLC checks: one tracker of each protocol, *)
(* one worker, and pages of one torrent, so that a tracker is asked twice. *)
(* Error types differ only in their multiplier: one stands for all but     *)
(* no_response.                                                            *)
EXTENDS Scraping, TLC

CONSTANTS udp, http, t1, t2

MCUdp == {udp}
MCHttp == {http}
MCTorrents == {t1, t2}
MCLinks == {<<udp, t1>>, <<http, t1>>, <<http, t2>>}
MCMultiplier == "default" :> 1
=============================================================================
