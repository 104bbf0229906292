---------------------------- MODULE MCModeration ----------------------------
(* The instance of Moderation that TLC checks: Uma posts an upload and a   *)
(* dataset, one of them later; Adm is an admin and Rev a reviewer.  One    *)
(* report is about the upload, one about Uma.                              *)
EXTENDS Moderation, TLC

CONSTANTS Uma, Adm, Rev, upload, dataset, onUpload, onUma, r1, r2

MCScopeNames == {"review", "admin", "root", "upload", "submit"}
MCAccountIds == {Uma, Adm, Rev}
MCLinked == Uma :> {"upload"} @@ Adm :> {"admin"} @@ Rev :> {"review"}
MCItems == {upload, dataset}
MCUploads == {upload}
MCOwner == upload :> Uma @@ dataset :> Uma
MCPosted == {upload}
MCReports == {onUpload, onUma}
MCTarget == onUpload :> upload @@ onUma :> Uma
MCRequestIds == {r1, r2}

Symmetry == Permutations(MCRequestIds)
=============================================================================
