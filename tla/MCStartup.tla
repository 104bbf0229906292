------------------------------ MODULE MCStartup ------------------------------
(* Startup with the program's own migrations, as TLC checks it: two        *)
(* workers, and databases that were last served at chosen versions.        *)
EXTENDS Startup, Migrations

CONSTANTS w1, w2

MCWorkers == {w1, w2}
MCRevisions == revisions
MCTables == UNION {{s.table : s \in Range(r.up)} : r \in Range(revisions)}
MCSearchable == <<"accounts", "datasets", "uploads">>

MCModels ==
    <<"accounts", "friedolin", "scopes", "tags", "trackers", "site_stats", "hitcount",
      "atom_feeds", "account_scope_links", "atom_feed_entries", "datasets", "dataset_claim",
      "dataset_parts", "dataset_tag_links", "dataset_urls", "external_identifiers",
      "external_sources", "uploads", "datasets__history", "dataset_paths", "torrent_files",
      "upload_dataset_part_links", "dataset_parts__history", "dataset_tag_links__history",
      "dataset_urls__history", "external_identifiers__history", "external_sources__history",
      "uploads__history", "files_in_torrent", "torrent_tracker_links", "webseeds",
      "dataset_paths__history", "torrent_files__history", "audit_log", "reports">>

(* Without indices: the others are made with one, by index=True, or for    *)
(* every primary and foreign key of a history table.                       *)
Unindexed ==
    {"accounts", "friedolin", "scopes", "tags", "dataset_claim", "webseeds",
     "atom_feeds", "atom_feed_entries", "trackers_in_torrent"}
AllIndexed == MCTables \ Unindexed

(* Four of them: one that early migrations touch, one with full text       *)
(* search, one that is copied often and the last.                          *)
MCIndexed == {"trackers", "datasets", "torrent_files", "reports"}

Deployed(n, ws, k) == [version |-> n, workers |-> ws, commands |-> k]

(* Two workers race on a new database; one that has been built, or built   *)
(* in part, by migrations is served by one.                                *)
MCDeployments ==
    {Deployed(0, MCWorkers, 0), Deployed(0, {w1}, 2),
     Deployed(19, MCWorkers, 2), Deployed(23, MCWorkers, 2)}

NewDatabase == {Deployed(0, {w1}, 0)}
=============================================================================
