----------------------------- MODULE MCSession -----------------------------
(***************************************************************************)
(* Instances of Session for TLC.                                           *)
(***************************************************************************)
EXTENDS Session, TLC

CONSTANTS s1, s2, p1, p2

AllSessions == {s1, s2}
OneSession == {s1}

\* Two ids, of one class or of two.
TwoKeys == {p1, p2}
TwoTypes == {{p1}, {p1, p2}}
OneType == {{p1}}

SessionSymmetry == Permutations({s1, s2})

AllOps == {"index", "index!", "atomic_update", "atomic_update!", "commit",
           "optimize", "commit_if_dirty", "commit_if_delete_dirty", "remove",
           "remove!", "remove_by_scope", "remove_by_scope!", "remove_by_id",
           "remove_by_id!", "remove_all", "remove_all!", "batch"}

\* The calls that delete without counting.
UncountedOps == {"remove_by_scope", "remove_by_id"}

CountedOps == AllOps \ UncountedOps

\* One call of each kind that matters to the interleaving of two sessions.
SomeOps == {"index", "remove", "remove_all!", "commit_if_dirty",
            "commit_if_delete_dirty", "batch"}
SomeBatchOps == {"index", "remove", "batch"}

\* Inside a block only documents are added, and blocks are not nested.
AddsOnly == {"index", "atomic_update"}

\* Solr applied the request, and the answer came too late.
Timeouts == {"add", "commit"} \X {"lost"}
UpdateFaults == {"prepare"} \X {"refused"} \cup {"add", "delete"} \X {"lost", "refused"}
AllFaults == UpdateFaults \cup {"commit"} \X {"lost", "refused"}
DisciplinedFaults == UpdateFaults \cup {<<"commit", "lost">>}
=============================================================================
