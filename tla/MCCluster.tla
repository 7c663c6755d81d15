----------------------------- MODULE MCCluster -----------------------------
(***************************************************************************)
(* Instances of Cluster for TLC.                                           *)
(***************************************************************************)
EXTENDS Cluster, TLC

CONSTANTS ad1, ad2, c1, c2, s1, s2, s3, x1, x2, x3, x4, y1, y2

TwoAdmins == {ad1, ad2}
TwoCollections == {c1, c2}
ThreeShards == {s1, s2, s3}
ShardCollections == s1 :> c1 @@ s2 :> c1 @@ s3 :> c2
AllCores == {x1, x2, x3, x4, y1, y2}

\* Two replicas of one shard, one of each of the others; two names are left.
AtTheStart ==
    x1 :> s1 @@ x2 :> s1 @@ x3 :> s2 @@ x4 :> s3 @@ y1 :> Unused @@ y2 :> Unused

\* All shards, or one shard of c1 and not the one of c2.
SomeServings == {{s1, s2, s3}, {s2}}

\* Replicas of one shard and names that are left may be exchanged; so may admins.
ClusterSymmetry ==
    Permutations(TwoAdmins) \cup Permutations({x1, x2}) \cup Permutations({y1, y2})
=============================================================================
