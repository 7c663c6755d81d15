----------------------------- MODULE MCProxies -----------------------------
(***************************************************************************)
(* Instances of Proxies for TLC.                                           *)
(***************************************************************************)
EXTENDS Proxies, TLC

CONSTANTS sh1, sh2, p1, p2

TwoShards == <<sh1, sh2>>
TwoKeys == {p1, p2}
Split == p1 :> sh1 @@ p2 :> sh2

EveryWrap == {"none", "retry", "silent"}

\* The calls with "!" are the others followed by a commit; remove! stands for them.
MostOps == {"index", "remove!", "remove_by_id", "remove_all", "commit",
            "commit_if_dirty", "commit_if_delete_dirty", "batch"}

\* A block that adds one document and removes another, and one that only adds.
TwoBlocks == {<< <<"index", p1>>, <<"remove", p2>> >>, << <<"index", p1>>, <<"index", p2>> >>}

AnyError == {"server", "client"}
=============================================================================
