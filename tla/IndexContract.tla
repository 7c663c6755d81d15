--------------------------- MODULE IndexContract ---------------------------
(***************************************************************************)
(* What the public API promises (the comments of sunspot.rb), without      *)
(* sessions, stacks, counters or requests: documents handed over wait until*)
(* they are sent; the index changes only by sending or erasing; a document *)
(* that was sent or given up never comes back; and searches change only    *)
(* when a commit publishes the index as it is at that moment.              *)
(***************************************************************************)
EXTENDS Naturals

CONSTANTS Keys, Docs

VARIABLES
    index,     \* per key, the version in the index, 0 if none
    published, \* what searches see
    waiting,   \* documents handed over and not yet sent or given up
    done       \* documents sent or given up

cvars == <<index, published, waiting, done>>

Init ==
    /\ index = [k \in Keys |-> 0]
    /\ published = index
    /\ waiting = {}
    /\ done = {}

\* index, atomic_update: only documents never seen before.
Accept(D) ==
    /\ D \cap (waiting \cup done) = {}
    /\ waiting' = waiting \cup D
    /\ UNCHANGED <<index, published, done>>

\* The keys of D get one of the versions D has for them, the others keep theirs.
Written(D) ==
    {new \in [Keys -> {index[k] : k \in Keys} \cup {d.at : d \in D}] :
        \A k \in Keys : IF \E d \in D : d.id = k
                        THEN \E d \in D : d.id = k /\ new[k] = d.at
                        ELSE new[k] = index[k]}

Send(D) ==
    /\ D \subseteq waiting
    /\ waiting' = waiting \ D
    /\ done' = done \cup D
    /\ index' \in Written(D)
    /\ UNCHANGED published

\* The request failed and its sender got an exception.
GiveUp(D) ==
    /\ D \subseteq waiting
    /\ waiting' = waiting \ D
    /\ done' = done \cup D
    /\ UNCHANGED <<index, published>>

Erase(K) ==
    /\ index' = [k \in Keys |-> IF k \in K THEN 0 ELSE index[k]]
    /\ UNCHANGED <<published, waiting, done>>

Publish ==
    /\ published' = index
    /\ UNCHANGED <<index, waiting, done>>

Next ==
    \/ \E D \in SUBSET Docs : Accept(D) \/ Send(D) \/ GiveUp(D)
    \/ \E K \in SUBSET Keys : Erase(K)
    \/ Publish

Spec == Init /\ [][Next]_cvars
=============================================================================
