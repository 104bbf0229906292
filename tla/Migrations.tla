----------------------------- MODULE Migrations -----------------------------
(***************************************************************************)
(* The 23 migrations of the database, each as the steps its upgrade and    *)
(* its downgrade take, in their order.  A table is abstracted to the set   *)
(* of revisions whose changes it has: its columns, types, constraints and  *)
(* indices are those that these revisions gave it.  A step is              *)
(*   create   create_table and the indices made with it                    *)
(*   drop     drop_table                                                   *)
(*   alter    batch_alter_table in place: columns added, indices           *)
(*   copy     batch_alter_table that SQLite cannot do in place: a copy of  *)
(*            the table replaces it                                        *)
(*   revert, restore   the same two, taking the changes away               *)
(*   fill, sift        rows are written; a sift fails on some databases    *)
(*   search   the full text search table of a table and its triggers       *)
(***************************************************************************)
EXTENDS Sequences, Naturals

Each(op, tables, revs) ==
    [i \in 1..Len(tables) |-> [op |-> op, table |-> tables[i], revs |-> revs]]

Create(tables, rev)  == Each("create", tables, {rev})
Drop(tables)         == Each("drop", tables, {})
Alter(tables, rev)   == Each("alter", tables, {rev})
Copy(tables, rev)    == Each("copy", tables, {rev})
Revert(tables, rev)  == Each("revert", tables, {rev})
Restore(tables, rev) == Each("restore", tables, {rev})
Fill(table)          == Each("fill", <<table>>, {})
Sift(table)          == Each("sift", <<table>>, {})
-----------------------------------------------------------------------------
(* 8514cd8 initial                                                         *)
initial_accounts ==
    <<"accounts", "friedolin", "reports", "scopes", "tags", "account_scope_links">>

initial_datasets ==
    <<"datasets", "dataset_parts", "dataset_tag_links", "dataset_urls",
      "external_identifiers", "external_sources">>

initial_uploads ==
    <<"uploads", "audit_log", "dataset_paths", "torrent_files",
      "upload_dataset_part_links", "files_in_torrent", "trackers_in_torrent">>

up_8514cd8 == Create(initial_accounts \o initial_datasets \o initial_uploads, "8514cd8")

down_8514cd8 ==
    Drop(<<"trackers_in_torrent", "files_in_torrent", "upload_dataset_part_links",
           "torrent_files", "dataset_paths", "audit_log", "uploads", "external_sources",
           "external_identifiers", "dataset_urls", "dataset_tag_links", "dataset_parts",
           "datasets", "account_scope_links", "tags", "scopes", "reports", "friedolin",
           "accounts">>)

(* 8d38682 allow deletions                                                 *)
up_8d38682 ==
    Copy(<<"uploads", "datasets", "dataset_parts", "accounts", "audit_log", "dataset_parts",
           "datasets", "files_in_torrent", "trackers_in_torrent", "uploads">>, "8d38682")

down_8d38682 ==
    Restore(<<"uploads", "datasets", "dataset_parts", "uploads", "trackers_in_torrent",
              "files_in_torrent", "datasets", "dataset_parts", "audit_log", "accounts">>,
            "8d38682")

(* e8b6da6 add tracker stats: the downgrade leaves the search table.       *)
up_e8b6da6 ==
    Create(<<"trackers", "torrent_tracker_links">>, "e8b6da6")
        \o Copy(<<"uploads">>, "e8b6da6")
        \o Fill("trackers") \o Fill("torrent_tracker_links")
        \o Drop(<<"trackers_in_torrent">>)
        \o Each("search", <<"uploads">>, {})

down_e8b6da6 ==
    Revert(<<"uploads">>, "e8b6da6")
        \o Each("create", <<"trackers_in_torrent">>, {"8514cd8", "8d38682"})
        \o Fill("trackers_in_torrent")
        \o Drop(<<"torrent_tracker_links", "trackers">>)

(* 44bd2fd add rendered html fields                                        *)
up_44bd2fd ==
    Alter(<<"dataset_parts", "datasets", "uploads">>, "44bd2fd")
        \o Fill("dataset_parts") \o Fill("datasets") \o Fill("uploads")

(* Mutant of down_44bd2fd: the parts are forgotten.                        *)
down_44bd2fd_short == Restore(<<"uploads", "datasets">>, "44bd2fd")

down_44bd2fd == Restore(<<"uploads", "datasets", "dataset_parts">>, "44bd2fd")

(* a956096 increase char counts                                            *)
up_a956096 == Copy(<<"datasets", "uploads">>, "a956096")
down_a956096 == Restore(<<"uploads", "datasets">>, "a956096")

(* 83e6a7f add editing                                                     *)
history_of_datasets ==
    <<"datasets__history", "dataset_parts__history", "dataset_tag_links__history">>

history_of_references ==
    <<"dataset_urls__history", "external_identifiers__history", "external_sources__history">>

history_of_uploads == <<"uploads__history", "dataset_paths__history">>
history_of_torrents == <<"torrent_files__history", "files_in_torrent__history">>

up_83e6a7f ==
    Create(history_of_datasets \o history_of_references \o history_of_uploads
               \o history_of_torrents, "83e6a7f")

down_83e6a7f ==
    Drop(<<"files_in_torrent__history", "torrent_files__history", "dataset_paths__history",
           "uploads__history", "external_sources__history", "external_identifiers__history",
           "dataset_urls__history", "dataset_tag_links__history", "dataset_parts__history",
           "datasets__history">>)

(* a62f6bb add bittorrent source type                                      *)
up_a62f6bb == Copy(<<"datasets", "datasets__history">>, "a62f6bb")
down_a62f6bb == Restore(<<"datasets__history", "datasets">>, "a62f6bb")

(* de2fc8d add fk indices                                                  *)
indexed_of_datasets ==
    <<"account_scope_links", "audit_log", "dataset_parts", "dataset_parts__history",
      "dataset_paths", "dataset_paths__history", "dataset_tag_links",
      "dataset_tag_links__history", "dataset_urls", "dataset_urls__history", "datasets",
      "datasets__history">>

indexed_of_uploads ==
    <<"external_identifiers", "external_identifiers__history", "external_sources",
      "external_sources__history", "files_in_torrent", "files_in_torrent__history",
      "torrent_files", "torrent_files__history", "torrent_tracker_links",
      "upload_dataset_part_links", "uploads", "uploads__history">>

up_de2fc8d == Alter(indexed_of_datasets \o indexed_of_uploads, "de2fc8d")

Backwards(s) == [i \in 1..Len(s) |-> s[Len(s) + 1 - i]]
down_de2fc8d == Revert(Backwards(indexed_of_datasets \o indexed_of_uploads), "de2fc8d")

(* 3e34a34 username collate nocase: it is not undone.                      *)
up_3e34a34 == Copy(<<"accounts">>, "3e34a34")
down_3e34a34 == <<>>

(* e5376c6 drop file_in_torrent history                                    *)
up_e5376c6 == Alter(<<"files_in_torrent__history">>, "e5376c6") \o Drop(<<"files_in_torrent__history">>)

down_e5376c6 == Each("create", <<"files_in_torrent__history">>, {"83e6a7f", "de2fc8d"})

(* 8c660f7 add site stats                                                  *)
up_8c660f7 == Create(<<"site_stats">>, "8c660f7")
down_8c660f7 == Drop(<<"site_stats">>)

(* 9cd226c add no_response error                                           *)
up_9cd226c == Copy(<<"trackers">>, "9cd226c")
down_9cd226c == Restore(<<"trackers">>, "9cd226c")

(* f654097 remove padfiles: the rows stay away.                            *)
up_f654097 == Fill("files_in_torrent")
down_f654097 == <<>>

(* 0f0198c bump limits                                                     *)
up_0f0198c == Copy(<<"datasets", "datasets__history", "uploads", "uploads__history">>, "0f0198c")

down_0f0198c ==
    Restore(<<"uploads__history", "uploads", "datasets__history", "datasets">>, "0f0198c")

(* 82afde6 hit counter                                                     *)
up_82afde6 == Create(<<"hitcount">>, "82afde6")
down_82afde6 == Drop(<<"hitcount">>)

(* 0f29b9e rm tracker query params: fails where a tracker has no clean     *)
(* twin, or a torrent has both.                                            *)
up_0f29b9e == Sift("torrent_tracker_links") \o Fill("trackers")
down_0f29b9e == <<>>

(* 5560db8 create time index                                               *)
up_5560db8 ==
    Alter(<<"datasets", "datasets__history", "site_stats", "uploads", "uploads__history">>,
          "5560db8")

down_5560db8 ==
    Revert(<<"uploads__history", "uploads", "site_stats", "datasets__history", "datasets">>,
           "5560db8")

(* 246b20d add claims                                                      *)
up_246b20d == Create(<<"dataset_claim">>, "246b20d")
down_246b20d == Drop(<<"dataset_claim">>)

(* efb45cd support v2 only                                                 *)
up_efb45cd == Copy(<<"torrent_files", "torrent_files__history">>, "efb45cd")
down_efb45cd == Restore(<<"torrent_files__history", "torrent_files">>, "efb45cd")

(* 6aeff93 add webseeds: reads every torrent file, and fails where one is  *)
(* missing.                                                                *)
_move_webseeds == Sift("webseeds")
up_6aeff93 == Create(<<"webseeds">>, "6aeff93") \o Copy(<<"audit_log">>, "6aeff93") \o _move_webseeds
down_6aeff93 == Restore(<<"audit_log">>, "6aeff93") \o Drop(<<"webseeds">>)

(* d7d6663 add atom feeds                                                  *)
up_d7d6663 == Create(<<"atom_feeds", "atom_feed_entries">>, "d7d6663")
down_d7d6663 == Drop(<<"atom_feed_entries", "atom_feeds">>)

(* 99812ae rm file_in_torrent timestamps                                   *)
up_99812ae == Copy(<<"files_in_torrent">>, "99812ae")
down_99812ae == Revert(<<"files_in_torrent">>, "99812ae")

(* 624409a add reports                                                     *)
up_624409a == Copy(<<"audit_log", "reports", "datasets">>, "624409a")
down_624409a == Restore(<<"reports", "audit_log", "datasets">>, "624409a")
-----------------------------------------------------------------------------
Revision(up, down) == [up |-> up, down |-> down]

(* In the order of their down_revision.                                    *)
revisions ==
    << Revision(up_8514cd8, down_8514cd8), Revision(up_8d38682, down_8d38682),
       Revision(up_e8b6da6, down_e8b6da6), Revision(up_44bd2fd, down_44bd2fd),
       Revision(up_a956096, down_a956096), Revision(up_83e6a7f, down_83e6a7f),
       Revision(up_a62f6bb, down_a62f6bb), Revision(up_de2fc8d, down_de2fc8d),
       Revision(up_3e34a34, down_3e34a34), Revision(up_e5376c6, down_e5376c6),
       Revision(up_8c660f7, down_8c660f7), Revision(up_9cd226c, down_9cd226c),
       Revision(up_f654097, down_f654097), Revision(up_0f0198c, down_0f0198c),
       Revision(up_82afde6, down_82afde6), Revision(up_0f29b9e, down_0f29b9e),
       Revision(up_5560db8, down_5560db8), Revision(up_246b20d, down_246b20d),
       Revision(up_efb45cd, down_efb45cd), Revision(up_6aeff93, down_6aeff93),
       Revision(up_d7d6663, down_d7d6663), Revision(up_99812ae, down_99812ae),
       Revision(up_624409a, down_624409a) >>
=============================================================================
