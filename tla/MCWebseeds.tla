----------------------------- MODULE MCWebseeds -----------------------------
(* The instance of Webseeds that TLC checks: two urls, two handlers at a   *)
(* time, a pool of one process fewer than there are urls.                  *)
EXTENDS Webseeds

CONSTANTS u1, u2, r1, r2

MCUrls == {u1, u2}
MCRequestIds == {r1, r2}
=============================================================================
