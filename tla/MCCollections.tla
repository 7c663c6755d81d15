--------------------------- MODULE MCCollections ---------------------------
(***************************************************************************)
(* Instances of Collections for TLC.                                       *)
(***************************************************************************)
EXTENDS Collections, TLC

CONSTANTS pr1, pr2, i1, i2, jan, janPost, default

TwoProcs == {pr1, pr2}
OneProc == {pr1}
TwoIds == {i1, i2}
Together == {{i1, i2}}

\* One month, with a collection of its own and one with a postfix.
OneMonth == {jan}
JanNames == {jan, janPost, default}
JanPrefixes == {<<jan, jan>>, <<janPost, jan>>}
MonthOf == i1 :> jan @@ i2 :> jan
HomeOf == i1 :> jan @@ i2 :> janPost

\* One process serves, the other one administrates; index and remove send like
\* index! and remove_by_id.
SplitOps == pr1 :> {"index!", "search", "commit", "remove_all", "live_nodes"}
            @@ pr2 :> {"index!", "remove_by_id", "commit_if_dirty", "delete_collection"}
TwoAndOne == pr1 :> 2 @@ pr2 :> 1

IndexAndCommit == pr1 :> {"index", "commit_if_dirty"}
JustTwo == pr1 :> 2
=============================================================================
