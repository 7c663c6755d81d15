--------------------------- MODULE ClusterProofs ---------------------------
(***************************************************************************)
(* Proofs about Cluster, for any number of admins, shards and replicas,    *)
(* any number of repairs of one list, and whatever fails.                  *)
(*                                                                         *)
(* That a repair spares the last active replica is not inductive: the list *)
(* is older than the step that uses it.  Spare counts, per entry, the two  *)
(* things that have to go wrong since the check: the listed replica came   *)
(* back, and no active replica is left in its shard that the list does not *)
(* name.  Each takes a change, and the owner's own repair causes neither,  *)
(* because it deletes listed replicas only.                                *)
(***************************************************************************)
EXTENDS Cluster, FiniteSetTheorems, TLAPS

CoresOf(o) == {e.core : e \in list[o]}

\* An active replica the list does not name.
Kept(o, s) == \E x \in active : place[x] = s /\ x \notin CoresOf(o)

Spare(o, e) ==
    /\ e.core \in active => changes[o] >= 1
    /\ ~Kept(o, e.shard) => changes[o] >= 1
    /\ e.core \in active /\ ~Kept(o, e.shard) => changes[o] >= 2

SpareInv ==
    /\ \A o \in Owners : \A e \in list[o] : e.recoverable => Spare(o, e)
    /\ \A a \in Admins : job[a].todo \subseteq {e \in list[a] : e.recoverable}

USE ClusterAssumption

-----------------------------------------------------------------------------
(* Type correctness.                                                       *)

Jobs == [pc : {"idle", "delete", "add", "done"}, todo : SUBSET Entries,
         for : Shards \cup {Unused}]

LEMMA NotActiveTyped ==
    ASSUME TypeOK
    PROVE  NotActive \subseteq Entries
<1>1. \A x \in Cores : Recoverable(CollectionOf[place[x]]) \in BOOLEAN
  BY DEF Recoverable
<1>. QED BY <1>1 DEF NotActive, Entries

\* What a job looks like after each of the steps that assign it.
JobOK(j) ==
    /\ j \in Jobs
    /\ j.pc = "delete" => j.todo # {}
    /\ j.pc = "add" <=> j.for \in Shards

LEMMA RestingOK == JobOK(Resting)
  BY DEF JobOK, Jobs, Resting

LEMMA OverOK ==
    ASSUME NEW todo \in SUBSET Entries
    PROVE  JobOK(Over(todo))
  BY DEF JobOK, Jobs, Over

LEMMA JobsTyped ==
    ASSUME TypeOK, NEW a \in Admins, NEW j, JobOK(j), job' = [job EXCEPT ![a] = j]
    PROVE  /\ job' \in [Admins -> Jobs]
           /\ \A b \in Admins : /\ job'[b].pc = "delete" => job'[b].todo # {}
                                /\ job'[b].pc = "add" <=> job'[b].for \in Shards
  BY DEF TypeOK, JobOK, Jobs

\* Its parts, for the steps to establish one by one.
ClusterTyped ==
    /\ place \in [Cores -> Shards \cup {Unused, Deleted}]
    /\ active \subseteq {x \in Cores : place[x] \in Shards}
    /\ serving \subseteq Shards

ListsTyped ==
    /\ list \in [Owners -> SUBSET Entries]
    /\ changes \in [Owners -> Nat]

JobsOK ==
    /\ job \in [Admins -> Jobs]
    /\ \A b \in Admins : /\ job[b].pc = "delete" => job[b].todo # {}
                         /\ job[b].pc = "add" <=> job[b].for \in Shards

LEMMA TypeParts == TypeOK <=> ClusterTyped /\ ListsTyped /\ JobsOK
  BY DEF TypeOK, ClusterTyped, ListsTyped, JobsOK, Jobs

LEMMA InitTyped == Init => TypeOK
<1>. SUFFICES ASSUME Init PROVE TypeOK
  OBVIOUS
<1>1. ClusterTyped
  BY DEF Init, ClusterTyped
<1>2. ListsTyped
  BY DEF Init, ListsTyped, NoStatus
<1>3. JobsOK
  BY RestingOK DEF Init, JobsOK, JobOK
<1>. QED BY <1>1, <1>2, <1>3, TypeParts

LEMMA ListsKeepType ==
    ASSUME TypeOK, NEW owners, NEW entries \in SUBSET Entries, NEW age \in Nat,
           Lists(owners, entries, age)
    PROVE  ListsTyped'
  BY DEF TypeOK, Lists, ListsTyped

LEMMA RemovedKeepsType ==
    ASSUME TypeOK, NEW a \in Admins, NEW x \in Cores, Removed(a, x)
    PROVE  /\ place' \in [Cores -> Shards \cup {Unused, Deleted}]
           /\ active' \subseteq {y \in Cores : place'[y] \in Shards}
           /\ changes' \in [Owners -> Nat]
<1>1. place' \in [Cores -> Shards \cup {Unused, Deleted}]
  BY DEF TypeOK, Removed
<1>2. ASSUME NEW y \in active' PROVE y \in Cores /\ place'[y] \in Shards
  BY <1>2 DEF TypeOK, Removed
<1>3. \A o \in Owners : changes[o] \in Nat /\ changes[o] + 1 \in Nat
  BY DEF TypeOK
<1>4. changes' \in [Owners -> Nat]
  BY <1>3 DEF Removed
<1>. QED BY <1>1, <1>2, <1>4

LEMMA StepTyped == TypeOK /\ [Next]_vars => TypeOK'
<1>. SUFFICES ASSUME TypeOK, [Next]_vars PROVE TypeOK'
  OBVIOUS
<1>t. ClusterTyped /\ ListsTyped /\ JobsOK
  BY TypeParts
<1>p. ASSUME ClusterTyped', ListsTyped', JobsOK' PROVE TypeOK'
  BY <1>p DEF TypeOK, ClusterTyped, ListsTyped, JobsOK, Jobs
<1>1. ASSUME NEW a \in Admins, Check(a) \/ CheckFails(a) \/ Persist(a) \/ Restore(a)
      PROVE  TypeOK'
  <2>1. ClusterTyped'
    BY <1>t, <1>1 DEF Check, CheckFails, Persist, Restore, cluster, ClusterTyped
  <2>2. JobsOK'
    BY <1>1, RestingOK, JobsTyped DEF Check, CheckFails, Persist, Restore, Rests, JobsOK
  <2>3. ListsTyped'
    <3>1. CASE CheckFails(a)
      BY <3>1, ListsKeepType DEF CheckFails, NoStatus
    <3>2. CASE Check(a) \/ Persist(a)
      BY <3>2, ListsKeepType, NotActiveTyped DEF Check, Persist
    <3>3. CASE Restore(a)
      <4>1. list[Store] \in SUBSET Entries /\ changes[Store] \in Nat
        BY DEF TypeOK, Owners
      <4>. QED BY <3>3, <4>1, ListsKeepType DEF Restore
    <3>. QED BY <1>1, <3>1, <3>2, <3>3
  <2>. QED BY <2>1, <2>2, <2>3, <1>p
<1>2. ASSUME NEW a \in Admins, RepairAll(a) PROVE TypeOK'
  <2>1. ClusterTyped' /\ ListsTyped'
    BY <1>t, <1>2 DEF RepairAll, cluster, ClusterTyped, ListsTyped
  <2> DEFINE todo == {e \in list[a] : e.recoverable}
             j == Over(todo)
  <2>2. todo \in SUBSET Entries
    BY DEF TypeOK, Owners
  <2>3. job' = [job EXCEPT ![a] = j]
    BY <1>2 DEF RepairAll
  <2> HIDE DEF todo
  <2>4. JobOK(j)
    BY <2>2, OverOK
  <2> HIDE DEF j
  <2>5. JobsOK'
    BY <2>3, <2>4, JobsTyped DEF JobsOK
  <2>. QED BY <2>1, <2>5, <1>p
<1>3. ASSUME NEW a \in Admins, NEW e \in job[a].todo,
             DeleteReplica(a, e) \/ DeleteRefused(a, e) \/ DeleteRaises(a, e)
      PROVE  TypeOK'
  <2>1. e \in Entries /\ e.core \in Cores /\ e.shard \in Shards
    BY DEF TypeOK, Entries
  <2>2. ClusterTyped' /\ ListsTyped'
    <3>1. CASE Removed(a, e.core) /\ UNCHANGED <<serving, list>>
      BY <1>t, <2>1, <3>1, RemovedKeepsType DEF ClusterTyped, ListsTyped
    <3>2. CASE UNCHANGED <<place, active, serving, list, changes>>
      BY <1>t, <3>2 DEF ClusterTyped, ListsTyped
    <3>. QED BY <1>3, <3>1, <3>2 DEF DeleteReplica, DeleteRefused, DeleteRaises, cluster
  <2>3. JobsOK'
    <3> DEFINE j == [pc |-> "add", todo |-> job[a].todo \ {e}, for |-> e.shard]
    <3>1. JobOK(j)
      BY <2>1 DEF TypeOK, JobOK, Jobs
    <3>2. job' = [job EXCEPT ![a] = j] \/ job' = [job EXCEPT ![a] = Resting]
      BY <1>3 DEF DeleteReplica, DeleteRefused, DeleteRaises, DeleteThenAdd, Rests, TypeOK
    <3> HIDE DEF j
    <3>. QED BY <3>1, <3>2, RestingOK, JobsTyped DEF JobsOK
  <2>. QED BY <2>2, <2>3, <1>p
<1>4. ASSUME NEW a \in Admins,
             (\E x \in Cores : AddReplica(a, x)) \/ AddRefused(a) \/ AddRaises(a)
      PROVE  TypeOK'
  <2>1. job[a].for \in Shards
    BY <1>4 DEF AddReplica, AddRefused, AddRaises, Adding, TypeOK
  <2>2. ListsTyped'
    BY <1>t, <1>4 DEF AddReplica, AddRefused, AddRaises, cluster, ListsTyped
  <2>3. ClusterTyped'
    <3>1. CASE \E x \in Cores : /\ place[x] = Unused
                                /\ place' = [place EXCEPT ![x] = job[a].for]
                                /\ UNCHANGED <<active, serving>>
      <4>1. PICK x \in Cores : /\ place[x] = Unused
                               /\ place' = [place EXCEPT ![x] = job[a].for]
                               /\ UNCHANGED <<active, serving>>
        BY <3>1
      <4>2. place' \in [Cores -> Shards \cup {Unused, Deleted}]
        BY <2>1, <4>1 DEF TypeOK
      <4>3. ASSUME NEW y \in active PROVE y \in Cores /\ place'[y] \in Shards
        BY <2>1, <4>1, <4>3 DEF TypeOK
      <4>. QED BY <1>t, <4>1, <4>2, <4>3 DEF ClusterTyped
    <3>2. CASE UNCHANGED <<place, active, serving>>
      BY <1>t, <3>2 DEF ClusterTyped
    <3>. QED BY <1>4, <3>1, <3>2 DEF AddReplica, AddRefused, AddRaises, cluster
  <2>4. JobsOK'
    <3>1. JobOK(Over(job[a].todo))
      BY OverOK DEF TypeOK
    <3>2. \/ job' = [job EXCEPT ![a] = Over(job[a].todo)]
          \/ job' = [job EXCEPT ![a] = Resting]
      BY <1>4 DEF AddReplica, AddRefused, AddRaises, Continues, Rests, TypeOK
    <3>. QED BY <3>1, <3>2, RestingOK, JobsTyped DEF JobsOK
  <2>. QED BY <2>2, <2>3, <2>4, <1>p
<1>5. ASSUME NEW x \in Cores, Up(x) \/ Down(x) PROVE TypeOK'
  <2>1. ClusterTyped' /\ JobsOK'
    BY <1>t, <1>5 DEF Up, Down, Moves, ClusterTyped, JobsOK
  <2>2. \A o \in Owners : changes[o] + 1 \in Nat
    BY DEF TypeOK
  <2>3. ListsTyped'
    BY <1>t, <1>5, <2>2 DEF Up, Down, Moves, ListsTyped
  <2>. QED BY <2>1, <2>3, <1>p
<1>6. CASE UNCHANGED vars
  BY <1>6 DEF TypeOK, vars, cluster
<1>. QED BY <1>1, <1>2, <1>3, <1>4, <1>5, <1>6 DEF Next, Repair

\* Cluster, TypeOK: the lists, the jobs and the cluster keep their types, an
\* active replica is placed, and a repair that goes on has something to do.
THEOREM TypeCorrect == Spec => []TypeOK
<1>. QED BY InitTyped, StepTyped, PTL DEF Spec

-----------------------------------------------------------------------------
(* The repair spares the last active replica.                              *)

ListSpare == \A o \in Owners : \A e \in list[o] : e.recoverable => Spare(o, e)
TodoListed == \A a \in Admins : job[a].todo \subseteq {e \in list[a] : e.recoverable}

\* The premise of the claim: the check lists inactive replicas, and each shard
\* of a recoverable collection has an active one, which the check lists not.
LEMMA CheckedIsSpare ==
    ASSUME TypeOK, NEW e \in NotActive, e.recoverable
    PROVE  /\ e.core \notin active
           /\ \E x \in active : place[x] = e.shard /\ x \notin {f.core : f \in NotActive}
<1>1. PICK y \in Cores \ active :
        /\ place[y] \in Shards
        /\ e = [core |-> y, shard |-> place[y], recoverable |-> Recoverable(CollectionOf[place[y]])]
  BY DEF NotActive
<1>2. place[y] \in ShardsOf(CollectionOf[place[y]])
  BY <1>1 DEF ShardsOf
<1>3. Recoverable(CollectionOf[place[y]])
  BY <1>1
<1>4. PICK x : x \in Replicas(place[y]) \cap active
  BY <1>2, <1>3 DEF Recoverable
<1>5. \A f \in NotActive : f.core \notin active
  BY DEF NotActive
<1>. QED BY <1>1, <1>4, <1>5 DEF Replicas

\* Nothing a list depends on gets worse, or a change is counted for it.
LEMMA SpareKept ==
    ASSUME NEW o \in Owners, NEW e, changes[o] \in Nat, changes'[o] \in Nat, Spare(o, e),
           \/ /\ changes'[o] = changes[o]
              /\ e.core \in active' => e.core \in active
              /\ Kept(o, e.shard) => Kept(o, e.shard)'
           \/ /\ changes'[o] = changes[o] + 1
              /\ \/ e.core \in active' => e.core \in active
                 \/ Kept(o, e.shard) => Kept(o, e.shard)'
    PROVE  Spare(o, e)'
  BY DEF Spare

LEMMA MovesSpare ==
    ASSUME TypeOK, TypeOK', SpareInv, NEW x \in Cores, Up(x) \/ Down(x)
    PROVE  SpareInv'
<1>1. /\ UNCHANGED <<place, list, job>>
      /\ changes' = [o \in Owners |-> changes[o] + 1]
      /\ active \subseteq active' \/ active' \subseteq active
  BY DEF Up, Down, Moves
<1>2. ASSUME NEW o \in Owners, NEW e \in list[o], e.recoverable PROVE Spare(o, e)'
  <2>1. Spare(o, e) /\ changes[o] \in Nat /\ changes'[o] \in Nat
    BY <1>2 DEF SpareInv, TypeOK
  <2>2. changes'[o] = changes[o] + 1
    BY <1>1
  <2>3. active \subseteq active' => (Kept(o, e.shard) => Kept(o, e.shard)')
    BY <1>1 DEF Kept, CoresOf
  <2>. QED BY <1>1, <2>1, <2>2, <2>3, SpareKept
<1>. QED BY <1>1, <1>2 DEF SpareInv

\* What a deletion, of a replica the owner's list names, leaves.
LEMMA RemovedSpares ==
    ASSUME TypeOK, TypeOK', SpareInv, NEW a \in Admins, NEW d \in job[a].todo,
           Removed(a, d.core), UNCHANGED list
    PROVE  ListSpare'
<1>1. d.core \in CoresOf(a) /\ d.core \in Cores
  BY DEF SpareInv, CoresOf, TypeOK, Owners, Entries
<1>2. SUFFICES ASSUME NEW o \in Owners, NEW e \in list[o], e.recoverable PROVE Spare(o, e)'
  BY DEF ListSpare
<1>3. Spare(o, e) /\ changes[o] \in Nat /\ changes'[o] \in Nat
  BY <1>2 DEF SpareInv, TypeOK
<1>4. e.core \in active' => e.core \in active
  BY DEF Removed
<1>5. CASE o # a /\ d.core \in active
  BY <1>3, <1>4, <1>5, SpareKept DEF Removed
<1>6. CASE o = a \/ d.core \notin active
  <2>1. changes'[o] = changes[o]
    BY <1>6 DEF Removed
  <2>2. ASSUME NEW x \in active, place[x] = e.shard, x \notin CoresOf(o)
        PROVE  x \in active' /\ place'[x] = e.shard
    <3>1. x # d.core
      BY <1>1, <1>6, <2>2
    <3>. QED BY <1>1, <2>2, <3>1 DEF Removed, TypeOK
  <2>3. CoresOf(o)' = CoresOf(o)
    BY DEF CoresOf
  <2>4. Kept(o, e.shard) => Kept(o, e.shard)'
    BY <2>2, <2>3 DEF Kept
  <2>. QED BY <1>3, <1>4, <2>1, <2>4, SpareKept
<1>. QED BY <1>5, <1>6

\* No step but those that replace a list, move a replica or delete one.
LEMMA NothingLost ==
    ASSUME TypeOK, TypeOK', SpareInv, UNCHANGED <<active, list, changes>>,
           \A x \in active : place'[x] = place[x]
    PROVE  ListSpare'
<1>1. SUFFICES ASSUME NEW o \in Owners, NEW e \in list[o], e.recoverable PROVE Spare(o, e)'
  BY DEF ListSpare
<1>2. Spare(o, e) /\ changes[o] \in Nat /\ changes'[o] \in Nat
  BY <1>1 DEF SpareInv, TypeOK
<1>3. Kept(o, e.shard) => Kept(o, e.shard)'
  BY DEF Kept, CoresOf
<1>. QED BY <1>2, <1>3, SpareKept

\* A repair of a that goes on has less left to do.
LEMMA TodoShrinks ==
    ASSUME TypeOK, SpareInv, NEW a \in Admins, UNCHANGED list,
           \A b \in Admins : job'[b].todo \subseteq job[b].todo
    PROVE  TodoListed'
  BY DEF SpareInv, TodoListed

LEMMA CheckSpares ==
    ASSUME TypeOK, TypeOK', SpareInv, NEW a \in Admins,
           Check(a) \/ CheckFails(a) \/ Persist(a) \/ Restore(a)
    PROVE  SpareInv'
<1>1. /\ UNCHANGED <<place, active>> /\ Rests(a)
  BY DEF Check, CheckFails, Persist, Restore, cluster
<1>2. PICK owners \in SUBSET Owners :
        /\ a \in owners /\ owners \subseteq {a, Store}
        /\ \/ Lists(owners, NotActive, 0)
           \/ Lists(owners, {}, NoStatus)
           \/ Lists(owners, list[Store], changes[Store])
  BY DEF Check, CheckFails, Persist, Restore, Owners
<1>3. ListSpare'
  <2>1. SUFFICES ASSUME NEW o \in Owners, NEW e \in list'[o], e.recoverable
                 PROVE  Spare(o, e)'
    BY DEF ListSpare
  <2>2. CASE o \notin owners
    <3>1. list'[o] = list[o] /\ changes'[o] = changes[o]
      BY <1>2, <2>2 DEF Lists
    <3>2. Spare(o, e)
      BY <2>1, <3>1 DEF SpareInv
    <3>. QED BY <1>1, <3>1, <3>2 DEF Spare, Kept, CoresOf
  <2>3. CASE o \in owners /\ Lists(owners, NotActive, 0)
    <3>1. list'[o] = NotActive /\ changes'[o] = 0
      BY <2>3 DEF Lists
    <3>2. /\ e.core \notin active
          /\ \E x \in active : place[x] = e.shard /\ x \notin {f.core : f \in NotActive}
      BY <2>1, <3>1, CheckedIsSpare
    <3>3. Kept(o, e.shard)'
      BY <1>1, <3>1, <3>2 DEF Kept, CoresOf
    <3>. QED BY <1>1, <3>2, <3>3 DEF Spare
  <2>4. CASE o \in owners /\ Lists(owners, {}, NoStatus)
    BY <2>1, <2>4 DEF Lists
  <2>5. CASE o \in owners /\ Lists(owners, list[Store], changes[Store])
    <3>1. list'[o] = list[Store] /\ changes'[o] = changes[Store]
      BY <2>5 DEF Lists
    <3>2. Spare(Store, e)
      BY <2>1, <3>1 DEF SpareInv, Owners
    <3>. QED BY <1>1, <3>1, <3>2 DEF Spare, Kept, CoresOf
  <2>. QED BY <1>2, <2>2, <2>3, <2>4, <2>5
<1>4. TodoListed'
  <2>1. SUFFICES ASSUME NEW b \in Admins
                 PROVE  job'[b].todo \subseteq {e \in list'[b] : e.recoverable}
    BY DEF TodoListed
  <2>2. CASE b = a
    BY <1>1, <2>2 DEF Rests, Resting, TypeOK
  <2>3. CASE b # a
    <3>1. b \notin owners /\ b \in Owners
      BY <1>2, <2>3 DEF Owners
    <3>2. list'[b] = list[b] /\ job'[b] = job[b]
      BY <1>1, <1>2, <2>3, <3>1 DEF Lists, Rests, TypeOK
    <3>. QED BY <3>2 DEF SpareInv
  <2>. QED BY <2>2, <2>3
<1>. QED BY <1>3, <1>4 DEF SpareInv, ListSpare, TodoListed

LEMMA RepairAllSpares ==
    ASSUME TypeOK, TypeOK', SpareInv, NEW a \in Admins, RepairAll(a)
    PROVE  SpareInv'
<1>1. UNCHANGED <<place, active, list, changes>>
  BY DEF RepairAll, cluster
<1>2. ListSpare'
  BY <1>1, NothingLost
<1>3. TodoListed'
  <2> DEFINE todo == {e \in list[a] : e.recoverable}
  <2>1. job' = [job EXCEPT ![a] = Over(todo)] /\ Over(todo).todo = todo
    BY DEF RepairAll, Over
  <2>. QED BY <1>1, <2>1 DEF TodoListed, SpareInv, TypeOK
<1>. QED BY <1>2, <1>3 DEF SpareInv, ListSpare, TodoListed

LEMMA DeletionSpares ==
    ASSUME TypeOK, TypeOK', SpareInv, NEW a \in Admins, NEW e \in job[a].todo,
           DeleteReplica(a, e) \/ DeleteRefused(a, e) \/ DeleteRaises(a, e)
    PROVE  SpareInv'
<1>1. ListSpare'
  <2>1. CASE Removed(a, e.core) /\ UNCHANGED list
    BY <2>1, RemovedSpares
  <2>2. CASE UNCHANGED <<place, active, list, changes>>
    BY <2>2, NothingLost
  <2>. QED BY <2>1, <2>2 DEF DeleteReplica, DeleteRefused, DeleteRaises, cluster
<1>2. TodoListed'
  <2>1. /\ UNCHANGED list
        /\ DeleteThenAdd(a, e) \/ Rests(a)
    BY DEF DeleteReplica, DeleteRefused, DeleteRaises
  <2>2. \A b \in Admins : job'[b].todo \subseteq job[b].todo
    BY <2>1 DEF DeleteThenAdd, Rests, Resting, TypeOK
  <2>. QED BY <2>1, <2>2, TodoShrinks
<1>. QED BY <1>1, <1>2 DEF SpareInv, ListSpare, TodoListed

LEMMA AdditionSpares ==
    ASSUME TypeOK, TypeOK', SpareInv, NEW a \in Admins,
           (\E x \in Cores : AddReplica(a, x)) \/ AddRefused(a) \/ AddRaises(a)
    PROVE  SpareInv'
<1>1. /\ UNCHANGED <<active, list, changes>>
      /\ Continues(a) \/ Rests(a)
      /\ \/ UNCHANGED place
         \/ \E x \in Cores : place[x] = Unused /\ place' = [place EXCEPT ![x] = job[a].for]
  BY DEF AddReplica, AddRefused, AddRaises, cluster
<1>2. \A x \in active : place'[x] = place[x]
  BY <1>1 DEF TypeOK
<1>3. ListSpare'
  BY <1>1, <1>2, NothingLost
<1>4. \A b \in Admins : job'[b].todo \subseteq job[b].todo
  BY <1>1 DEF Continues, Over, Rests, Resting, TypeOK
<1>5. TodoListed'
  BY <1>1, <1>4, TodoShrinks
<1>. QED BY <1>3, <1>5 DEF SpareInv, ListSpare, TodoListed

LEMMA SpareStep == TypeOK /\ SpareInv /\ [Next]_vars => SpareInv'
<1>. SUFFICES ASSUME TypeOK, SpareInv, [Next]_vars PROVE SpareInv'
  OBVIOUS
<1>t. TypeOK'
  BY StepTyped
<1>1. CASE UNCHANGED vars
  BY <1>1 DEF vars, cluster, SpareInv, Spare, Kept, CoresOf
<1>2. ASSUME NEW x \in Cores, Up(x) \/ Down(x) PROVE SpareInv'
  BY <1>t, <1>2, MovesSpare
<1>3. ASSUME NEW a \in Admins, Check(a) \/ CheckFails(a) \/ Persist(a) \/ Restore(a)
      PROVE  SpareInv'
  BY <1>t, <1>3, CheckSpares
<1>4. ASSUME NEW a \in Admins, RepairAll(a) PROVE SpareInv'
  BY <1>t, <1>4, RepairAllSpares
<1>5. ASSUME NEW a \in Admins, Repair(a) PROVE SpareInv'
  BY <1>t, <1>5, DeletionSpares, AdditionSpares DEF Repair
<1>. QED BY <1>1, <1>2, <1>3, <1>4, <1>5 DEF Next

LEMMA SpareStart == Init => SpareInv
  BY DEF Init, SpareInv, Resting

LEMMA SpareEnough == TypeOK /\ SpareInv => LastCopySpared
<1>. SUFFICES ASSUME TypeOK, SpareInv, NEW a \in Admins, NEW e \in job[a].todo,
                     e.core \in active, Replicas(e.shard) \cap active = {e.core}
              PROVE  changes[a] >= 2
  BY DEF LastCopySpared
<1>1. e \in list[a] /\ e.recoverable /\ a \in Owners
  BY DEF SpareInv, Owners
<1>2. e.core \in CoresOf(a)
  BY <1>1 DEF CoresOf
<1>3. ~Kept(a, e.shard)
  BY <1>2 DEF Kept, Replicas, TypeOK
<1>. QED BY <1>1, <1>3 DEF SpareInv, Spare

\* Cluster, LastCopySpared: repair_all_collections deletes the last active
\* replica of a shard only if the cluster changed twice since the check.
THEOREM RepairsSpare == Spec => []LastCopySpared
<1>1. TypeOK /\ SpareInv /\ [Next]_vars => (TypeOK /\ SpareInv)'
  BY StepTyped, SpareStep
<1>2. Init => TypeOK /\ SpareInv
  BY InitTyped, SpareStart
<1>. QED BY <1>1, <1>2, SpareEnough, PTL DEF Spec

-----------------------------------------------------------------------------
(* A repair keeps the number of replicas.                                  *)

\* The repairs that have deleted a replica of s and are to add one.
Adders(s) == {a \in Admins : job[a].pc = "add" /\ job[a].for = s}

AtStart(s) == Cardinality({x \in Cores : Placed[x] = s})
InAll(s) == Cardinality(Replicas(s)) + Cardinality(Adders(s))

\* Until something fails the repairs owe what is missing.
Balanced(s) ==
    /\ <<"add", s>> \notin failed => InAll(s) >= AtStart(s)
    /\ {<<"add", s>>, <<"delete", s>>} \cap failed = {} => InAll(s) <= AtStart(s)

FactorInv == \A s \in Shards : Balanced(s)

LEMMA CountsFinite ==
    ASSUME NEW s
    PROVE  /\ IsFiniteSet(Replicas(s)) /\ Cardinality(Replicas(s)) \in Nat
           /\ IsFiniteSet(Adders(s)) /\ Cardinality(Adders(s)) \in Nat
           /\ AtStart(s) \in Nat
<1>1. Replicas(s) \in SUBSET Cores /\ Adders(s) \in SUBSET Admins
      /\ {x \in Cores : Placed[x] = s} \in SUBSET Cores
  BY DEF Replicas, Adders
<1>2. /\ IsFiniteSet(Replicas(s)) /\ IsFiniteSet(Adders(s))
      /\ IsFiniteSet({x \in Cores : Placed[x] = s})
  BY <1>1, FiniteAssumption, FS_Subset
<1>. QED BY <1>2, FS_CardinalityType DEF AtStart

\* What a step may do to the counts of a shard: nothing, a deletion that is
\* owed an addition, that addition, or a failure.
CountsSame(s) ==
    Replicas(s)' = Replicas(s) /\ Adders(s)' = Adders(s) /\ failed \subseteq failed'

Owes(s) ==
    /\ \E x \in Replicas(s) : Replicas(s)' = Replicas(s) \ {x}
    /\ \E a \in Admins \ Adders(s) : Adders(s)' = Adders(s) \cup {a}
    /\ failed' = failed

Pays(s) ==
    /\ \E x \in Cores \ Replicas(s) : Replicas(s)' = Replicas(s) \cup {x}
    /\ \E a \in Adders(s) : Adders(s)' = Adders(s) \ {a}
    /\ failed' = failed

Refuses(s) ==
    /\ Replicas(s)' = Replicas(s)
    /\ \E a \in Admins \ Adders(s) : Adders(s)' = Adders(s) \cup {a}
    /\ failed' = failed \cup {<<"delete", s>>}

Counted(s) == CountsSame(s) \/ Owes(s) \/ Pays(s) \/ Refuses(s) \/ <<"add", s>> \in failed'

LEMMA CountedKeeps ==
    ASSUME NEW s \in Shards, Balanced(s), Counted(s)
    PROVE  Balanced(s)'
<1> DEFINE r == Cardinality(Replicas(s))
           n == Cardinality(Adders(s))
<1>1. r \in Nat /\ n \in Nat /\ AtStart(s) \in Nat
      /\ IsFiniteSet(Replicas(s)) /\ IsFiniteSet(Adders(s))
  BY CountsFinite
<1>2. AtStart(s)' = AtStart(s)
  BY DEF AtStart
<1>3. InAll(s) = r + n /\ InAll(s)' = Cardinality(Replicas(s)') + Cardinality(Adders(s)')
  BY DEF InAll
<1>4. CASE CountsSame(s)
  BY <1>2, <1>3, <1>4 DEF CountsSame, Balanced
<1>5. CASE Owes(s)
  <2>1. Cardinality(Replicas(s)') = r - 1
    BY <1>1, <1>5, FS_RemoveElement DEF Owes
  <2>2. Cardinality(Adders(s)') = n + 1
    BY <1>1, <1>5, FS_AddElement DEF Owes
  <2> HIDE DEF r, n
  <2>3. InAll(s)' = InAll(s)
    BY <1>1, <1>3, <2>1, <2>2
  <2>. QED BY <1>2, <1>5, <2>3 DEF Owes, Balanced
<1>6. CASE Pays(s)
  <2>1. Cardinality(Replicas(s)') = r + 1
    BY <1>1, <1>6, FS_AddElement DEF Pays
  <2>2. Cardinality(Adders(s)') = n - 1
    BY <1>1, <1>6, FS_RemoveElement DEF Pays
  <2> HIDE DEF r, n
  <2>3. InAll(s)' = InAll(s)
    BY <1>1, <1>3, <2>1, <2>2
  <2>. QED BY <1>2, <1>6, <2>3 DEF Pays, Balanced
<1>7. CASE Refuses(s)
  <2>1. Cardinality(Replicas(s)') = r
    BY <1>7 DEF Refuses
  <2>2. Cardinality(Adders(s)') = n + 1
    BY <1>1, <1>7, FS_AddElement DEF Refuses
  <2>3. <<"add", s>> \notin failed' => <<"add", s>> \notin failed
    BY <1>7 DEF Refuses
  <2> HIDE DEF r, n
  <2>4. InAll(s)' = InAll(s) + 1 /\ InAll(s) \in Nat
    BY <1>1, <1>3, <2>1, <2>2
  <2>5. InAll(s) >= AtStart(s) => InAll(s)' >= AtStart(s)
    BY <1>1, <2>4
  <2>6. <<"delete", s>> \in failed'
    BY <1>7 DEF Refuses
  <2>. QED BY <1>2, <2>3, <2>5, <2>6 DEF Balanced
<1>8. CASE <<"add", s>> \in failed'
  BY <1>8 DEF Balanced
<1>. QED BY <1>4, <1>5, <1>6, <1>7, <1>8 DEF Counted

\* The jobs that a step does not assign count as before.
LEMMA AddersOf ==
    ASSUME TypeOK, NEW a \in Admins, NEW j, job' = [job EXCEPT ![a] = j], NEW s
    PROVE  /\ j.pc = "add" /\ j.for = s => Adders(s)' = Adders(s) \cup {a}
           /\ ~ (j.pc = "add" /\ j.for = s) => Adders(s)' = Adders(s) \ {a}
  BY DEF Adders, TypeOK

LEMMA DeletionCounted ==
    ASSUME TypeOK, NEW a \in Admins, NEW e \in job[a].todo,
           DeleteReplica(a, e) \/ DeleteRefused(a, e) \/ DeleteRaises(a, e),
           NEW s \in Shards
    PROVE  Counted(s)
<1>1. job[a].pc = "delete" /\ e \in Entries /\ e.core \in Cores /\ e.shard \in Shards
  BY DEF DeleteReplica, DeleteRefused, DeleteRaises, Deletion, TypeOK, Entries
<1>2. a \notin Adders(s)
  BY <1>1 DEF Adders
<1>3. CASE s # e.shard
  <2>1. Adders(s)' = Adders(s)
    <3> DEFINE j == [pc |-> "add", todo |-> job[a].todo \ {e}, for |-> e.shard]
    <3>1. job' = [job EXCEPT ![a] = j] \/ job' = [job EXCEPT ![a] = Resting]
      BY DEF DeleteReplica, DeleteRefused, DeleteRaises, DeleteThenAdd, Rests, TypeOK
    <3>2. j.for = e.shard /\ Resting.pc = "idle"
      BY DEF Resting
    <3> HIDE DEF j
    <3>3. Adders(s)' = Adders(s) \ {a}
      BY <1>3, <3>1, <3>2, AddersOf
    <3>. QED BY <1>2, <3>3
  <2>2. Replicas(s)' = Replicas(s)
    <3>1. CASE place[e.core] = e.shard /\ Removed(a, e.core)
      BY <1>1, <1>3, <3>1 DEF Replicas, Removed, TypeOK
    <3>2. CASE UNCHANGED place
      BY <3>2 DEF Replicas
    <3>. QED BY <3>1, <3>2 DEF DeleteReplica, DeleteRefused, DeleteRaises, cluster
  <2>3. failed \subseteq failed'
    BY DEF DeleteReplica, DeleteRefused, DeleteRaises
  <2>. QED BY <2>1, <2>2, <2>3 DEF Counted, CountsSame
<1>4. CASE s = e.shard /\ ~ DeleteRaises(a, e)
  <2>1. Adders(s)' = Adders(s) \cup {a}
    <3> DEFINE j == [pc |-> "add", todo |-> job[a].todo \ {e}, for |-> e.shard]
    <3>1. job' = [job EXCEPT ![a] = j]
      BY <1>4 DEF DeleteReplica, DeleteRefused, DeleteThenAdd, TypeOK
    <3>2. j.pc = "add" /\ j.for = s
      BY <1>4
    <3> HIDE DEF j
    <3>. QED BY <3>1, <3>2, AddersOf
  <2>2. CASE DeleteReplica(a, e)
    <3>1. e.core \in Replicas(s) /\ Replicas(s)' = Replicas(s) \ {e.core}
      BY <1>1, <1>4, <2>2 DEF DeleteReplica, Removed, Replicas, TypeOK
    <3>. QED BY <1>2, <2>1, <2>2, <3>1 DEF DeleteReplica, Counted, Owes
  <2>3. CASE DeleteRefused(a, e)
    <3>1. Replicas(s)' = Replicas(s) /\ failed' = failed \cup {<<"delete", s>>}
      BY <1>4, <2>3 DEF DeleteRefused, cluster, Replicas
    <3>. QED BY <1>2, <2>1, <3>1 DEF Counted, Refuses
  <2>. QED BY <1>4, <2>2, <2>3
<1>5. CASE s = e.shard /\ DeleteRaises(a, e)
  BY <1>5 DEF DeleteRaises, Counted
<1>. QED BY <1>3, <1>4, <1>5

LEMMA AdditionCounted ==
    ASSUME TypeOK, NEW a \in Admins,
           (\E x \in Cores : AddReplica(a, x)) \/ AddRefused(a) \/ AddRaises(a),
           NEW s \in Shards
    PROVE  Counted(s)
<1>1. job[a].pc = "add" /\ job[a].for \in Shards
  BY DEF AddReplica, AddRefused, AddRaises, Adding, TypeOK
<1>2. Adders(s)' = Adders(s) \ {a}
  <2>1. job' = [job EXCEPT ![a] = Over(job[a].todo)] \/ job' = [job EXCEPT ![a] = Resting]
    BY DEF AddReplica, AddRefused, AddRaises, Continues, Rests, TypeOK
  <2>2. Over(job[a].todo).pc # "add" /\ Resting.pc # "add"
    BY DEF Over, Resting
  <2>. QED BY <2>1, <2>2, AddersOf
<1>3. failed \subseteq failed'
  BY DEF AddReplica, AddRefused, AddRaises
<1>4. CASE s # job[a].for
  <2>1. Adders(s)' = Adders(s)
    <3>1. a \notin Adders(s)
      BY <1>4 DEF Adders
    <3>. QED BY <1>2, <3>1
  <2>2. Replicas(s)' = Replicas(s)
    <3>1. \/ UNCHANGED place
          \/ \E x \in Cores : place[x] = Unused /\ place' = [place EXCEPT ![x] = job[a].for]
      BY DEF AddReplica, AddRefused, AddRaises, cluster
    <3>. QED BY <1>4, <3>1 DEF Replicas, TypeOK
  <2>. QED BY <1>3, <2>1, <2>2 DEF Counted, CountsSame
<1>5. CASE s = job[a].for /\ \E x \in Cores : AddReplica(a, x)
  <2>1. PICK x \in Cores : AddReplica(a, x)
    BY <1>5
  <2>2. x \notin Replicas(s) /\ Replicas(s)' = Replicas(s) \cup {x}
    BY <1>5, <2>1 DEF AddReplica, Replicas, TypeOK
  <2>3. a \in Adders(s)
    BY <1>1, <1>5 DEF Adders
  <2>. QED BY <1>2, <2>1, <2>2, <2>3 DEF AddReplica, Counted, Pays
<1>6. CASE s = job[a].for /\ (AddRefused(a) \/ AddRaises(a))
  BY <1>6 DEF AddRefused, AddRaises, Counted
<1>. QED BY <1>4, <1>5, <1>6

\* A call that is no repair leaves the replicas; it waits for none.
LEMMA CheckCounted ==
    ASSUME TypeOK, NEW a \in Admins, NEW s \in Shards,
           Check(a) \/ CheckFails(a) \/ Persist(a) \/ Restore(a) \/ RepairAll(a)
    PROVE  CountsSame(s)
<1>1. UNCHANGED <<place, failed>> /\ Idle(a)
  BY DEF Check, CheckFails, Persist, Restore, RepairAll, cluster
<1>2. \/ job' = [job EXCEPT ![a] = Resting]
      \/ job' = [job EXCEPT ![a] = Over({e \in list[a] : e.recoverable})]
  BY DEF Check, CheckFails, Persist, Restore, RepairAll, Rests
<1>3. \A todo : Over(todo).pc # "add" /\ Resting.pc # "add"
  BY DEF Over, Resting
<1>4. Adders(s)' = Adders(s) \ {a}
  BY <1>2, <1>3, AddersOf
<1>5. a \notin Adders(s)
  BY <1>1 DEF Idle, Adders
<1>. QED BY <1>1, <1>4, <1>5 DEF CountsSame, Replicas

LEMMA FactorStep == TypeOK /\ FactorInv /\ [Next]_vars => FactorInv'
<1> SUFFICES ASSUME TypeOK, FactorInv, [Next]_vars, NEW s \in Shards
             PROVE  Counted(s)
  BY CountedKeeps DEF FactorInv
<1>1. ASSUME NEW a \in Admins,
             Check(a) \/ CheckFails(a) \/ Persist(a) \/ Restore(a) \/ RepairAll(a)
      PROVE  Counted(s)
  BY <1>1, CheckCounted DEF Counted
<1>2. ASSUME NEW a \in Admins, Repair(a)
      PROVE  Counted(s)
  BY <1>2, DeletionCounted, AdditionCounted DEF Repair
<1>3. ASSUME NEW x \in Cores, Up(x) \/ Down(x)
      PROVE  Counted(s)
  BY <1>3 DEF Up, Down, Moves, Counted, CountsSame, Replicas, Adders
<1>4. CASE UNCHANGED vars
  BY <1>4 DEF vars, cluster, Counted, CountsSame, Replicas, Adders
<1>. QED BY <1>1, <1>2, <1>3, <1>4 DEF Next

LEMMA FactorStart == Init => FactorInv
<1> SUFFICES ASSUME Init, NEW s \in Shards
             PROVE  Balanced(s)
  BY DEF FactorInv
<1>1. Replicas(s) = {x \in Cores : Placed[x] = s} /\ Adders(s) = {}
  BY DEF Init, Replicas, Adders, Resting
<1>2. AtStart(s) \in Nat /\ Cardinality(Adders(s)) = 0
  BY <1>1, CountsFinite, FS_EmptySet
<1>3. InAll(s) = AtStart(s)
  BY <1>1, <1>2 DEF InAll, AtStart
<1>. QED BY <1>2, <1>3 DEF Balanced

LEMMA FactorEnough == FactorInv => FactorKept
<1> SUFFICES ASSUME FactorInv, Quiet, NEW s \in Shards
             PROVE  /\ <<"add", s>> \notin failed => Cardinality(Replicas(s)) >= AtStart(s)
                    /\ {<<"add", s>>, <<"delete", s>>} \cap failed = {}
                          => Cardinality(Replicas(s)) <= AtStart(s)
  BY DEF FactorKept, AtStart
<1>1. Adders(s) = {}
  BY DEF Quiet, Idle, Adders
<1>2. InAll(s) = Cardinality(Replicas(s))
  BY <1>1, CountsFinite, FS_EmptySet DEF InAll
<1>. QED BY <1>2 DEF FactorInv, Balanced

\* Cluster, FactorKept: when no repair runs, a shard has lost replicas only if
\* an addition failed or was not made, and has gained some only if besides a
\* deletion was refused, however many admins repair from however old lists.
THEOREM RepairsKeepFactor == Spec => []FactorKept
BY FactorStart, FactorStep, FactorEnough, TypeCorrect, PTL DEF Spec

-----------------------------------------------------------------------------
(* The repair heals.                                                       *)

\* The replicas that a check would have a repair replace.
Broken(x) ==
    /\ x \in Cores \ (active \cup added)
    /\ place[x] \in Shards
    /\ Recoverable(CollectionOf[place[x]])

HealInv ==
    /\ \A o \in Owners : changes[o] = 0 =>
          \A x : Broken(x) => \E e \in list[o] : e.core = x /\ e.recoverable
    /\ \A a \in Admins : job[a].pc # "idle" /\ changes[a] = 0 /\ failed = {} =>
          \A x : Broken(x) => \E e \in job[a].todo : e.core = x
    /\ \A a \in Admins : job[a].pc = "done" => job[a].todo = {}

ListsHeal ==
    \A o \in Owners : changes[o] = 0 =>
        \A x : Broken(x) => \E e \in list[o] : e.core = x /\ e.recoverable

JobHeals(a) ==
    /\ job[a].pc # "idle" /\ changes[a] = 0 /\ failed = {} =>
           \A x : Broken(x) => \E e \in job[a].todo : e.core = x
    /\ job[a].pc = "done" => job[a].todo = {}

LEMMA HealParts == HealInv <=> ListsHeal /\ \A a \in Admins : JobHeals(a)
  BY DEF HealInv, ListsHeal, JobHeals

\* Where no replica gets active, a broken one was broken before: those that
\* are added do not count, and deletions make no collection recoverable.
Fades ==
    /\ active' \subseteq active /\ added \subseteq added' /\ serving' = serving
    /\ \A x \in Cores : place'[x] \in Shards => place'[x] = place[x] \/ x \in added' \ active'
    /\ \A x \in active \ active' : place'[x] \notin Shards

LEMMA BrokenBefore ==
    ASSUME TypeOK, TypeOK', Fades, NEW x, Broken(x)'
    PROVE  Broken(x) /\ place'[x] = place[x]
<1>1. x \in Cores /\ x \notin active' /\ x \notin added' /\ place'[x] \in Shards
  BY DEF Broken
<1>2. place'[x] = place[x] /\ x \notin active /\ x \notin added
  BY <1>1 DEF Fades
<1> PICK c : c = CollectionOf[place[x]]
  OBVIOUS
<1>3. Recoverable(c)'
  BY <1>2 DEF Broken
<1>4. ASSUME NEW s \in ShardsOf(c)
      PROVE  Replicas(s) \cap active # {}
  <2>1. PICK y \in Cores : place'[y] = s /\ y \in active'
    BY <1>3, <1>4 DEF Recoverable, Replicas, ShardsOf
  <2>2. s \in Shards
    BY <1>4 DEF ShardsOf
  <2>3. place[y] = s /\ y \in active
    BY <2>1, <2>2 DEF Fades
  <2>. QED BY <2>1, <2>3 DEF Replicas
<1>5. \E s \in ShardsOf(c) : s \in serving
  BY <1>3 DEF Recoverable, ShardsOf, Fades
<1>. QED BY <1>1, <1>2, <1>4, <1>5 DEF Broken, Recoverable

\* changes grows, but for the lists that are replaced.
LEMMA ListsHealKept ==
    ASSUME TypeOK, TypeOK', ListsHeal, Fades, UNCHANGED list,
           \A o \in Owners : changes'[o] = 0 => changes[o] = 0
    PROVE  ListsHeal'
<1> SUFFICES ASSUME NEW o \in Owners, changes'[o] = 0, NEW x, Broken(x)'
             PROVE  \E e \in list'[o] : e.core = x /\ e.recoverable
  BY DEF ListsHeal
<1>1. Broken(x) /\ changes[o] = 0
  BY BrokenBefore
<1>. QED BY <1>1 DEF ListsHeal

\* An admin that the step is not of.
LEMMA JobHealsKept ==
    ASSUME TypeOK, TypeOK', NEW b \in Admins, JobHeals(b), Fades, job'[b] = job[b],
           changes'[b] = 0 => changes[b] = 0, failed \subseteq failed'
    PROVE  JobHeals(b)'
<1>1. job'[b].pc = "done" => job'[b].todo = {}
  BY DEF JobHeals
<1>2. ASSUME job'[b].pc # "idle", changes'[b] = 0, failed' = {}, NEW x, Broken(x)'
      PROVE  \E e \in job'[b].todo : e.core = x
  <2>1. Broken(x)
    BY <1>2, BrokenBefore
  <2>. QED BY <1>2, <2>1 DEF JobHeals
<1>. QED BY <1>1, <1>2 DEF JobHeals

LEMMA CheckHeals ==
    ASSUME TypeOK, TypeOK', ListsHeal, \A b \in Admins : JobHeals(b), NEW a \in Admins,
           Check(a) \/ CheckFails(a) \/ Persist(a) \/ Restore(a)
    PROVE  ListsHeal' /\ \A b \in Admins : JobHeals(b)'
<1>1. UNCHANGED <<place, active, serving, added, failed>> /\ Rests(a)
  BY DEF Check, CheckFails, Persist, Restore, cluster
<1>2. PICK owners \in SUBSET Owners :
        /\ a \in owners /\ owners \subseteq {a, Store}
        /\ \/ Lists(owners, NotActive, 0)
           \/ Lists(owners, {}, NoStatus)
           \/ Lists(owners, list[Store], changes[Store])
  BY DEF Check, CheckFails, Persist, Restore, Owners
<1>3. \A x : Broken(x)' <=> Broken(x)
  BY <1>1 DEF Broken, Recoverable, Replicas, ShardsOf
<1>4. ASSUME NEW o \in Owners, changes'[o] = 0, NEW x, Broken(x)
      PROVE  \E e \in list'[o] : e.core = x /\ e.recoverable
  <2>1. CASE o \notin owners
    <3>1. list'[o] = list[o] /\ changes'[o] = changes[o]
      BY <1>2, <2>1 DEF Lists
    <3>. QED BY <1>4, <3>1 DEF ListsHeal
  <2>2. CASE o \in owners /\ Lists(owners, NotActive, 0)
    <3> DEFINE e == [core |-> x, shard |-> place[x],
                     recoverable |-> Recoverable(CollectionOf[place[x]])]
    <3>1. list'[o] = NotActive
      BY <2>2 DEF Lists
    <3>2. e \in NotActive /\ e.core = x /\ e.recoverable
      BY <1>4 DEF Broken, NotActive
    <3> HIDE DEF e
    <3>. QED BY <3>1, <3>2
  <2>3. CASE o \in owners /\ Lists(owners, {}, NoStatus)
    BY <1>4, <2>3 DEF Lists, NoStatus
  <2>4. CASE o \in owners /\ Lists(owners, list[Store], changes[Store])
    <3>1. list'[o] = list[Store] /\ changes'[o] = changes[Store] /\ Store \in Owners
      BY <2>4 DEF Lists, Owners
    <3>. QED BY <1>4, <3>1 DEF ListsHeal
  <2>. QED BY <1>2, <2>1, <2>2, <2>3, <2>4
<1>5. ListsHeal'
  BY <1>3, <1>4 DEF ListsHeal
<1>6. ASSUME NEW b \in Admins
      PROVE  JobHeals(b)'
  <2>1. CASE b = a
    <3>1. job'[b].pc = "idle"
      BY <1>1, <2>1 DEF Rests, Resting, TypeOK
    <3>. QED BY <3>1 DEF JobHeals
  <2>2. CASE b # a
    <3>1. b \notin owners /\ b \in Owners
      BY <1>2, <2>2 DEF Owners
    <3>2. changes'[b] = changes[b] /\ job'[b] = job[b]
      BY <1>1, <1>2, <2>2, <3>1 DEF Lists, Rests, TypeOK
    <3>3. JobHeals(b)
      OBVIOUS
    <3>. QED BY <1>1, <1>3, <3>2, <3>3 DEF JobHeals
  <2>. QED BY <2>1, <2>2
<1>. QED BY <1>5, <1>6

LEMMA RepairAllHeals ==
    ASSUME TypeOK, TypeOK', ListsHeal, \A b \in Admins : JobHeals(b), NEW a \in Admins,
           RepairAll(a)
    PROVE  ListsHeal' /\ \A b \in Admins : JobHeals(b)'
<1>1. UNCHANGED <<place, active, serving, added, failed, list, changes>>
  BY DEF RepairAll, cluster
<1>2. \A x : Broken(x)' <=> Broken(x)
  BY <1>1 DEF Broken, Recoverable, Replicas, ShardsOf
<1>3. ListsHeal'
  BY <1>1, <1>2 DEF ListsHeal
<1>4. ASSUME NEW b \in Admins
      PROVE  JobHeals(b)'
  <2>1. CASE b = a
    <3> DEFINE todo == {e \in list[a] : e.recoverable}
    <3>1. job'[b] = Over(todo)
      BY <2>1 DEF RepairAll, TypeOK
    <3>2. Over(todo).todo = todo /\ (Over(todo).pc = "done" => todo = {})
      BY DEF Over
    <3>3. a \in Owners
      BY DEF Owners
    <3>4. changes[a] = 0 => \A x : Broken(x) => \E e \in todo : e.core = x
      BY <3>3 DEF ListsHeal
    <3> HIDE DEF todo
    <3>. QED BY <1>1, <1>2, <2>1, <3>1, <3>2, <3>4 DEF JobHeals
  <2>2. CASE b # a
    <3>1. job'[b] = job[b]
      BY <2>2 DEF RepairAll, TypeOK
    <3>2. JobHeals(b)
      OBVIOUS
    <3>. QED BY <1>1, <1>2, <3>1, <3>2 DEF JobHeals
  <2>. QED BY <2>1, <2>2
<1>. QED BY <1>3, <1>4

LEMMA DeletionHeals ==
    ASSUME TypeOK, TypeOK', ListsHeal, \A b \in Admins : JobHeals(b), NEW a \in Admins,
           NEW e \in job[a].todo,
           DeleteReplica(a, e) \/ DeleteRefused(a, e) \/ DeleteRaises(a, e)
    PROVE  ListsHeal' /\ \A b \in Admins : JobHeals(b)'
<1>1. /\ UNCHANGED <<serving, list, added>> /\ failed \subseteq failed'
      /\ Removed(a, e.core) \/ UNCHANGED <<place, active, changes>>
      /\ DeleteThenAdd(a, e) \/ Rests(a)
  BY DEF DeleteReplica, DeleteRefused, DeleteRaises, cluster
<1>2. e.core \in Cores /\ job[a].pc = "delete"
  BY DEF DeleteReplica, DeleteRefused, DeleteRaises, Deletion, TypeOK, Entries
<1>3. Fades
  <2>1. CASE Removed(a, e.core)
    <3>1. \A x \in Cores : place'[x] = IF x = e.core THEN Deleted ELSE place[x]
      BY <2>1 DEF Removed, TypeOK
    <3>2. active' = active \ {e.core}
      BY <2>1 DEF Removed
    <3>. QED BY <1>1, <1>2, <3>1, <3>2 DEF Fades
  <2>2. CASE UNCHANGED <<place, active, changes>>
    BY <1>1, <2>2 DEF Fades
  <2>. QED BY <1>1, <2>1, <2>2
<1>4. \A o \in Owners : changes'[o] = 0 => changes[o] = 0
  <2>1. \A o \in Owners : changes[o] \in Nat
    BY DEF TypeOK
  <2>. QED BY <1>1, <2>1 DEF Removed
<1>5. ListsHeal'
  BY <1>1, <1>3, <1>4, ListsHealKept
<1>6. ASSUME NEW b \in Admins
      PROVE  JobHeals(b)'
  <2>1. CASE b # a
    <3>1. job'[b] = job[b]
      BY <1>1, <2>1 DEF DeleteThenAdd, Rests, TypeOK
    <3>2. b \in Owners /\ JobHeals(b)
      BY DEF Owners
    <3>. QED BY <1>1, <1>3, <1>4, <3>1, <3>2, JobHealsKept
  <2>2. CASE b = a /\ DeleteReplica(a, e)
    <3>1. job'[a] = [pc |-> "add", todo |-> job[a].todo \ {e}, for |-> e.shard]
      BY <2>2 DEF DeleteReplica, DeleteThenAdd, TypeOK
    <3>2. ASSUME changes'[a] = 0, failed' = {}, NEW x, Broken(x)'
          PROVE  \E f \in job[a].todo \ {e} : f.core = x
      <4>1. Broken(x) /\ changes[a] = 0 /\ failed = {}
        BY <1>1, <1>3, <1>4, <3>2, BrokenBefore DEF Owners
      <4>2. PICK f \in job[a].todo : f.core = x
        BY <1>2, <4>1 DEF JobHeals
      <4>3. place'[e.core] \notin Shards
        BY <1>2, <2>2 DEF DeleteReplica, Removed, TypeOK
      <4>4. x # e.core
        BY <3>2, <4>3 DEF Broken
      <4>. QED BY <4>2, <4>4
    <3>. QED BY <2>2, <3>1, <3>2 DEF JobHeals
  <2>3. CASE b = a /\ (DeleteRefused(a, e) \/ DeleteRaises(a, e))
    <3>1. failed' # {}
      BY <2>3 DEF DeleteRefused, DeleteRaises
    <3>2. job'[a].pc # "done"
      BY <1>1 DEF DeleteThenAdd, Rests, Resting, TypeOK
    <3>. QED BY <2>3, <3>1, <3>2 DEF JobHeals
  <2>. QED BY <2>1, <2>2, <2>3
<1>. QED BY <1>5, <1>6

LEMMA AdditionHeals ==
    ASSUME TypeOK, TypeOK', ListsHeal, \A b \in Admins : JobHeals(b), NEW a \in Admins,
           (\E x \in Cores : AddReplica(a, x)) \/ AddRefused(a) \/ AddRaises(a)
    PROVE  ListsHeal' /\ \A b \in Admins : JobHeals(b)'
<1>1. /\ UNCHANGED <<active, serving, list, changes>> /\ failed \subseteq failed'
      /\ Continues(a) \/ Rests(a)
      /\ \/ UNCHANGED <<place, added>>
         \/ \E x \in Cores : /\ place[x] = Unused
                             /\ place' = [place EXCEPT ![x] = job[a].for]
                             /\ added' = added \cup {x}
  BY DEF AddReplica, AddRefused, AddRaises, cluster
<1>2. Fades
  <2>1. CASE UNCHANGED <<place, added>>
    BY <1>1, <2>1 DEF Fades
  <2>2. CASE \E x \in Cores : /\ place[x] = Unused
                             /\ place' = [place EXCEPT ![x] = job[a].for]
                             /\ added' = added \cup {x}
    <3>1. PICK x \in Cores : /\ place[x] = Unused
                            /\ place' = [place EXCEPT ![x] = job[a].for]
                            /\ added' = added \cup {x}
      BY <2>2
    <3>2. x \notin active
      BY <3>1 DEF TypeOK
    <3>3. \A y \in Cores : y # x => place'[y] = place[y]
      BY <3>1 DEF TypeOK
    <3>. QED BY <1>1, <3>1, <3>2, <3>3 DEF Fades
  <2>. QED BY <1>1, <2>1, <2>2
<1>3. ListsHeal'
  BY <1>1, <1>2, ListsHealKept
<1>4. ASSUME NEW b \in Admins
      PROVE  JobHeals(b)'
  <2>1. CASE b # a
    <3>1. job'[b] = job[b] /\ JobHeals(b)
      BY <1>1, <2>1 DEF Continues, Rests, TypeOK
    <3>. QED BY <1>1, <1>2, <3>1, JobHealsKept
  <2>2. CASE b = a /\ Continues(a)
    <3>1. job'[a] = Over(job[a].todo)
      BY <2>2 DEF Continues, TypeOK
    <3>2. Over(job[a].todo).todo = job[a].todo
          /\ (Over(job[a].todo).pc = "done" => job[a].todo = {})
      BY DEF Over
    <3>3. job[a].pc # "idle"
      BY DEF AddReplica, AddRefused, AddRaises, Adding
    <3>4. ASSUME changes'[a] = 0, failed' = {}, NEW x, Broken(x)'
          PROVE  \E f \in job[a].todo : f.core = x
      <4>1. Broken(x) /\ changes[a] = 0 /\ failed = {}
        BY <1>1, <1>2, <3>4, BrokenBefore
      <4>. QED BY <3>3, <4>1 DEF JobHeals
    <3>. QED BY <2>2, <3>1, <3>2, <3>4 DEF JobHeals
  <2>3. CASE b = a /\ Rests(a)
    BY <2>3 DEF Rests, Resting, JobHeals, TypeOK
  <2>. QED BY <1>1, <2>1, <2>2, <2>3
<1>. QED BY <1>3, <1>4

LEMMA MovesHeal ==
    ASSUME TypeOK, TypeOK', \A b \in Admins : JobHeals(b),
           NEW x \in Cores, Up(x) \/ Down(x)
    PROVE  ListsHeal' /\ \A b \in Admins : JobHeals(b)'
<1>1. ASSUME NEW o \in Owners
      PROVE  changes'[o] # 0
  BY DEF Up, Down, Moves, TypeOK
<1>2. \A b \in Admins : b \in Owners
  BY DEF Owners
<1>3. job' = job
  BY DEF Up, Down, Moves
<1>. QED BY <1>1, <1>2, <1>3 DEF ListsHeal, JobHeals

LEMMA HealStep == TypeOK /\ HealInv /\ [Next]_vars => HealInv'
<1> SUFFICES ASSUME TypeOK, HealInv, [Next]_vars
             PROVE  HealInv'
  OBVIOUS
<1>t. TypeOK' /\ ListsHeal /\ \A b \in Admins : JobHeals(b)
  BY StepTyped, HealParts
<1> SUFFICES ListsHeal' /\ \A b \in Admins : JobHeals(b)'
  BY DEF HealInv, ListsHeal, JobHeals
<1>1. ASSUME NEW a \in Admins, Check(a) \/ CheckFails(a) \/ Persist(a) \/ Restore(a)
      PROVE  ListsHeal' /\ \A b \in Admins : JobHeals(b)'
  BY <1>t, <1>1, CheckHeals
<1>2. ASSUME NEW a \in Admins, RepairAll(a)
      PROVE  ListsHeal' /\ \A b \in Admins : JobHeals(b)'
  BY <1>t, <1>2, RepairAllHeals
<1>3. ASSUME NEW a \in Admins, Repair(a)
      PROVE  ListsHeal' /\ \A b \in Admins : JobHeals(b)'
  BY <1>t, <1>3, DeletionHeals, AdditionHeals DEF Repair
<1>4. ASSUME NEW x \in Cores, Up(x) \/ Down(x)
      PROVE  ListsHeal' /\ \A b \in Admins : JobHeals(b)'
  BY <1>t, <1>4, MovesHeal
<1>5. CASE UNCHANGED vars
  BY <1>t, <1>5
     DEF vars, cluster, ListsHeal, JobHeals, Broken, Recoverable, Replicas, ShardsOf
<1>. QED BY <1>1, <1>2, <1>3, <1>4, <1>5 DEF Next

LEMMA HealStart == Init => HealInv
  BY DEF Init, HealInv, NoStatus, Resting

\* Cluster, RepairHeals: a repair that ends with nothing failed, on a cluster
\* that did not change since its check, leaves no replica of a recoverable
\* collection that is not active, but for those that were added: every one was
\* on the list, and on it as recoverable.
THEOREM RepairsHeal == Spec => []RepairHeals
<1>1. HealInv => RepairHeals
  BY DEF HealInv, RepairHeals, Broken
<1>. QED BY <1>1, HealStart, HealStep, TypeCorrect, PTL DEF Spec
=============================================================================
