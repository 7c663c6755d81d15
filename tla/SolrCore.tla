------------------------------ MODULE SolrCore ------------------------------
(***************************************************************************)
(* The Solr core as the sessions of this library use it over RSolr:        *)
(* /update requests that add documents, delete documents and commit.  Solr *)
(* is not part of the repository's own code; the module says what the code *)
(* relies on.  A document is its index id and a version that grows with    *)
(* every call that indexes it; version 0 stands for "not in the index".    *)
(*                                                                         *)
(*   core     what has been applied to the index writer                    *)
(*   searcher what searches see: core as of the last commit                *)
(*   pending  per session, the kinds of updates Solr applied for it and    *)
(*            no commit has published yet (a history variable)             *)
(***************************************************************************)
EXTENDS Naturals, Sequences

CONSTANTS Sessions,  \* the Session objects that talk to this core
          Keys       \* index ids ("Post 1", "Blog 2", ...)

VARIABLES core, searcher, pending

solr == <<core, searcher, pending>>

Docs == [id : Keys, at : Nat \ {0}]

SolrTypeOK ==
    /\ core \in [Keys -> Nat]
    /\ searcher \in [Keys -> Nat]
    /\ pending \in [Sessions -> SUBSET {"add", "delete"}]

SolrInit ==
    /\ core = [k \in Keys |-> 0]
    /\ searcher = [k \in Keys |-> 0]
    /\ pending = [s \in Sessions |-> {}]

\* The positions of k's documents in one add request; the last one wins.
At(docs, k) == {i \in DOMAIN docs : docs[i].id = k}

Overwritten(docs) ==
    [k \in Keys |->
        IF At(docs, k) = {} THEN core[k]
        ELSE docs[CHOOSE i \in At(docs, k) : \A j \in At(docs, k) : j <= i].at]

SolrAdd(s, docs) ==
    /\ core' = Overwritten(docs)
    /\ pending' = IF docs = << >> THEN pending
                  ELSE [pending EXCEPT ![s] = @ \cup {"add"}]
    /\ UNCHANGED searcher

\* Deleting what is not there changes nothing a commit would have to publish.
SolrDelete(s, ids) ==
    /\ core' = [k \in Keys |-> IF k \in ids THEN 0 ELSE core[k]]
    /\ pending' = IF \E k \in ids : core[k] # 0
                  THEN [pending EXCEPT ![s] = @ \cup {"delete"}]
                  ELSE pending
    /\ UNCHANGED searcher

\* A hard commit, a soft commit and an optimize all open a new searcher; they
\* publish the updates of every session.
SolrCommit ==
    /\ searcher' = core
    /\ pending' = [s \in Sessions |-> {}]
    /\ UNCHANGED core
=============================================================================
