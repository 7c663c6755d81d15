------------------------------ MODULE Cluster ------------------------------
(***************************************************************************)
(* The maintenance part of the admin session (admin/cluster_status.rb):    *)
(* check_cluster lists the replicas that are not active and says of each   *)
(* collection whether it is recoverable; repair_all_collections replaces   *)
(* the listed replicas of the recoverable ones, one DELETEREPLICA and one  *)
(* ADDREPLICA each.  The list is kept by the admin session, may be         *)
(* persisted in a PStore file that all of them share, and is not emptied   *)
(* by a repair: any time, any number of failures and the repairs of        *)
(* another admin may lie between a check and the repair that uses it.      *)
(*                                                                         *)
(* Solr (external) keeps the replicas; a replica that is added starts      *)
(* inactive.  The counts of the report and its layout are left out.        *)
(***************************************************************************)
EXTENDS Naturals, FiniteSets

CONSTANTS
    Admins,      \* admin sessions, each used by one thread
    Store,       \* the PStore file, as an owner of a list
    Collections,
    Shards,
    CollectionOf,\* the collection of a shard
    Cores,       \* names of replicas; Solr uses none twice
    Unused,      \* place of a replica that was not created yet
    Deleted,     \* place of a replica that was deleted
    Placed,      \* the replicas at the start: the shard of each, or Unused
    Servings,    \* the sets of shards whose state may be "active"
    MaxChanges,  \* bound: replicas going up or down
    MaxRepairs,  \* bound: calls of repair_all_collections
    MaxFaults    \* bound: requests that fail for no reason of the model's

ASSUME ClusterAssumption ==
    /\ Store \notin Admins
    /\ CollectionOf \in [Shards -> Collections]
    /\ Unused \notin Shards /\ Deleted \notin Shards /\ Unused # Deleted
    /\ Placed \in [Cores -> Shards \cup {Unused}]
    /\ Servings \subseteq SUBSET Shards
    /\ MaxChanges \in Nat /\ MaxRepairs \in Nat /\ MaxFaults \in Nat

\* A cluster has so many replicas, and so many admins work at it.
ASSUME FiniteAssumption == IsFiniteSet(Cores) /\ IsFiniteSet(Admins)

VARIABLES
    place,     \* the shard of every replica
    active,    \* the replicas whose state is "active"
    serving,   \* the shards whose state is "active"
    list,      \* @replicas_not_active of every admin, and the stored one
    job,       \* per admin, the running repair, see Resting
    moves,     \* replicas that went up or down
    repairs,   \* repairs begun
    faults,    \* requests that failed for no reason of the model's
    changes,   \* history: per list, changes of the active replicas since the
               \* status it was made of, other than by its owner
    added,     \* history: the replicas a repair has added
    failed     \* history: what failed in a repair, and where

cluster == <<place, active, serving>>
bounds == <<moves, repairs, faults>>
vars == <<cluster, list, job, bounds, changes, added, failed>>

Owners == Admins \cup {Store}
Entries == [core : Cores, shard : Shards, recoverable : BOOLEAN]

\* pc: "idle", "delete" before a DELETEREPLICA, "add" before the ADDREPLICA of
\* the entry whose replica was deleted, "done" after the last one.
Resting == [pc |-> "idle", todo |-> {}, for |-> Unused]

\* A list that is made of no status is never up to date.
NoStatus == 1

Init ==
    /\ place = Placed
    /\ active \in SUBSET {x \in Cores : Placed[x] \in Shards}
    /\ serving \in Servings
    /\ list = [o \in Owners |-> {}]
    /\ job = [a \in Admins |-> Resting]
    /\ moves = 0 /\ repairs = 0 /\ faults = 0
    /\ changes = [o \in Owners |-> NoStatus]
    /\ added = {}
    /\ failed = {}

-----------------------------------------------------------------------------
(* The check.                                                              *)

ShardsOf(c) == {s \in Shards : CollectionOf[s] = c}
Replicas(s) == {x \in Cores : place[x] = s}

\* A seeded fault: it is enough that some shard is active.
RecoverableIfServing(c) == \E s \in ShardsOf(c) : s \in serving

Recoverable(c) ==
    /\ \E s \in ShardsOf(c) : s \in serving
    /\ \A s \in ShardsOf(c) : Replicas(s) \cap active # {}

\* A seeded fault: shards that are not active are passed over.
NotActiveOfServing ==
    {[core |-> x, shard |-> place[x], recoverable |-> Recoverable(CollectionOf[place[x]])] :
        x \in {y \in Cores \ active : place[y] \in serving}}

NotActive ==
    {[core |-> x, shard |-> place[x], recoverable |-> Recoverable(CollectionOf[place[x]])] :
        x \in {y \in Cores \ active : place[y] \in Shards}}

Idle(a) == job[a].pc \in {"idle", "done"}

\* A list that is replaced is as old as the status it is made of.
Lists(owners, entries, age) ==
    /\ list' = [o \in Owners |-> IF o \in owners THEN entries ELSE list[o]]
    /\ changes' = [o \in Owners |-> IF o \in owners THEN age ELSE changes[o]]

Rests(a) == job' = [job EXCEPT ![a] = Resting]

\* report_clusterstatus.
Check(a) ==
    /\ Idle(a)
    /\ Lists({a}, NotActive, 0)
    /\ Rests(a)
    /\ UNCHANGED <<cluster, bounds, added, failed>>

\* The list is emptied before the status is asked for.
CheckFails(a) ==
    /\ Idle(a)
    /\ faults < MaxFaults /\ faults' = faults + 1
    /\ Lists({a}, {}, NoStatus)
    /\ Rests(a)
    /\ UNCHANGED <<cluster, moves, repairs, added, failed>>

\* persist_solr_status; when its request fails nothing changes.
Persist(a) ==
    /\ Idle(a)
    /\ Lists({a, Store}, NotActive, 0)
    /\ Rests(a)
    /\ UNCHANGED <<cluster, bounds, added, failed>>

\* report_clusterstatus(using_persisted: true).
Restore(a) ==
    /\ Idle(a)
    /\ Lists({a}, list[Store], changes[Store])
    /\ Rests(a)
    /\ UNCHANGED <<cluster, bounds, added, failed>>

-----------------------------------------------------------------------------
(* The repair.  An error that Solr answers with counts as false and the    *)
(* repair goes on; any other one ends the repair where it is.              *)

\* A seeded fault: the loop does not see its end.
OverNever(todo) == [pc |-> "delete", todo |-> todo, for |-> Unused]

Over(todo) == [pc |-> IF todo = {} THEN "done" ELSE "delete", todo |-> todo, for |-> Unused]

RepairAll(a) ==
    /\ Idle(a)
    /\ repairs < MaxRepairs /\ repairs' = repairs + 1
    /\ job' = [job EXCEPT ![a] = Over({e \in list[a] : e.recoverable})]
    /\ UNCHANGED <<cluster, list, moves, faults, changes, added, failed>>

\* A seeded fault: the next entry comes after the deletion.
DeletedOnly(a, e) == job' = [job EXCEPT ![a] = Over(@.todo \ {e})]

\* repair_collection: the replica is added whatever became of the deletion.
DeleteThenAdd(a, e) ==
    job' = [job EXCEPT ![a] = [pc |-> "add", todo |-> @.todo \ {e}, for |-> e.shard]]

Removed(a, x) ==
    /\ place' = [place EXCEPT ![x] = Deleted]
    /\ active' = active \ {x}
    /\ changes' = [o \in Owners |-> IF o # a /\ x \in active THEN changes[o] + 1 ELSE changes[o]]

Deletion(a, e) == job[a].pc = "delete" /\ e \in job[a].todo

DeleteReplica(a, e) ==
    /\ Deletion(a, e)
    /\ place[e.core] = e.shard
    /\ Removed(a, e.core)
    /\ DeleteThenAdd(a, e)
    /\ UNCHANGED <<serving, list, bounds, added, failed>>

\* The replica is gone, or Solr refuses to delete it.
DeleteRefused(a, e) ==
    /\ Deletion(a, e)
    /\ \/ place[e.core] # e.shard /\ UNCHANGED faults
       \/ place[e.core] = e.shard /\ faults < MaxFaults /\ faults' = faults + 1
    /\ DeleteThenAdd(a, e)
    /\ failed' = failed \cup {<<"delete", e.shard>>}
    /\ UNCHANGED <<cluster, list, moves, repairs, changes, added>>

\* The answer is lost, perhaps after the deletion.
DeleteRaises(a, e) ==
    /\ Deletion(a, e)
    /\ faults < MaxFaults /\ faults' = faults + 1
    /\ \/ place[e.core] = e.shard /\ Removed(a, e.core)
       \/ UNCHANGED <<place, active, changes>>
    /\ Rests(a)
    /\ failed' = failed \cup {<<"add", e.shard>>}
    /\ UNCHANGED <<serving, list, moves, repairs, added>>

Adding(a) == job[a].pc = "add"
Continues(a) == job' = [job EXCEPT ![a] = Over(@.todo)]

AddReplica(a, x) ==
    /\ Adding(a)
    /\ place[x] = Unused
    /\ place' = [place EXCEPT ![x] = job[a].for]
    /\ added' = added \cup {x}
    /\ Continues(a)
    /\ UNCHANGED <<active, serving, list, bounds, changes, failed>>

\* The node of the lost replica is down, for one.
AddRefused(a) ==
    /\ Adding(a)
    /\ faults < MaxFaults /\ faults' = faults + 1
    /\ Continues(a)
    /\ failed' = failed \cup {<<"add", job[a].for>>}
    /\ UNCHANGED <<cluster, list, moves, repairs, changes, added>>

\* The answer is lost, perhaps after the replica was added.
AddRaises(a) ==
    /\ Adding(a)
    /\ faults < MaxFaults /\ faults' = faults + 1
    /\ \/ \E x \in Cores : /\ place[x] = Unused
                           /\ place' = [place EXCEPT ![x] = job[a].for]
                           /\ added' = added \cup {x}
       \/ UNCHANGED <<place, added>>
    /\ Rests(a)
    /\ failed' = failed \cup {<<"add", job[a].for>>}
    /\ UNCHANGED <<active, serving, list, moves, repairs, changes>>

-----------------------------------------------------------------------------
(* The cluster, and the next-state relation.                               *)

Moves(state) ==
    /\ moves < MaxChanges /\ moves' = moves + 1
    /\ active' = state
    /\ changes' = [o \in Owners |-> changes[o] + 1]
    /\ UNCHANGED <<place, serving, list, job, repairs, faults, added, failed>>

\* A node comes back, or a replica has caught up.
Up(x) == place[x] \in Shards /\ x \notin active /\ Moves(active \cup {x})
Down(x) == x \in active /\ Moves(active \ {x})

Repair(a) ==
    \/ \E e \in job[a].todo : DeleteReplica(a, e) \/ DeleteRefused(a, e) \/ DeleteRaises(a, e)
    \/ \E x \in Cores : AddReplica(a, x)
    \/ AddRefused(a) \/ AddRaises(a)

Next ==
    \/ \E a \in Admins : \/ Check(a) \/ CheckFails(a) \/ Persist(a) \/ Restore(a)
                         \/ RepairAll(a) \/ Repair(a)
    \/ \E x \in Cores : Up(x) \/ Down(x)

Spec == Init /\ [][Next]_vars

-----------------------------------------------------------------------------
(* Properties.                                                             *)

TypeOK ==
    /\ place \in [Cores -> Shards \cup {Unused, Deleted}]
    /\ active \subseteq {x \in Cores : place[x] \in Shards}
    /\ serving \subseteq Shards
    /\ list \in [Owners -> SUBSET Entries]
    /\ job \in [Admins -> [pc : {"idle", "delete", "add", "done"}, todo : SUBSET Entries,
                           for : Shards \cup {Unused}]]
    /\ \A a \in Admins : /\ job[a].pc = "delete" => job[a].todo # {}
                         /\ job[a].pc = "add" <=> job[a].for \in Shards
    /\ changes \in [Owners -> Nat]

\* analyze_collections, recoverable: a repair deletes the last active replica
\* of a shard only if since the check the replica it lists came back and
\* another one was lost, however old the list is, and whoever else repairs.
LastCopySpared ==
    \A a \in Admins : \A e \in job[a].todo :
        e.core \in active /\ Replicas(e.shard) \cap active = {e.core} => changes[a] >= 2

Quiet == \A a \in Admins : Idle(a)

\* repair_collection, failures as false: a shard ends with fewer replicas only
\* if an addition failed, or did not take place because the repair ended, and
\* with more only if a deletion was refused or the fate of an addition is not
\* known.  A repair of a list that was repaired already is such a case.
FactorKept ==
    Quiet => \A s \in Shards :
        LET before == Cardinality({x \in Cores : Placed[x] = s})
            after == Cardinality(Replicas(s))
        IN  /\ <<"add", s>> \notin failed => after >= before
            /\ {<<"add", s>>, <<"delete", s>>} \cap failed = {} => after <= before

\* repair_all_collections after the check: if nothing fails and the cluster
\* does not change in between, every replica of a recoverable collection that
\* was not active is replaced.
RepairHeals ==
    \A a \in Admins : job[a].pc = "done" /\ changes[a] = 0 /\ failed = {} =>
        \A x \in Cores \ (active \cup added) :
            place[x] \in Shards => ~Recoverable(CollectionOf[place[x]])
=============================================================================
