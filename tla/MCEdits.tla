------------------------------ MODULE MCEdits ------------------------------
(* Edits with two workers, two columns, two urls, two tags and one part.   *)
EXTENDS Edits, TLC

CONSTANTS w1, w2, title, description, a, b, u1, u2, g1, g2, p1

MCWorkers == {w1, w2}
MCColumns == {title, description}
MCValues == {a, b}
MCUrls == {u1, u2}
MCTags == {g1, g2}
MCParts == {p1}
Symmetry == UNION {Permutations(s) :
                     s \in {MCWorkers, MCColumns, MCValues, MCUrls, MCTags}}
=============================================================================
