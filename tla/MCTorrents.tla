----------------------------- MODULE MCTorrents -----------------------------
(* Torrents with two workers, two infohashes and two names.                *)
EXTENDS Torrents, TLC

CONSTANTS w1, w2, h1, h2, n1, n2, c1, c2, bare

MCWorkers == {w1, w2}
MCHashes == {h1, h2}
MCNames == {n1, n2}
MCContents == {c1, c2, bare}
MCBare == {bare}
Symmetry == Permutations(MCWorkers) \cup Permutations(MCHashes)
              \cup Permutations(MCNames) \cup Permutations({c1, c2})
=============================================================================
