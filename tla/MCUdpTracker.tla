--------------------------- MODULE MCUdpTracker ---------------------------
(* Two trackers, two pages of one torrent, ids of one bit, three scrapes. *)
EXTENDS UdpTracker

CONSTANTS c1, c2
=============================================================================
