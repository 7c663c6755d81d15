--------------------------- MODULE RecordsProofs ---------------------------
(***************************************************************************)
(* Theorems about Records, for any number of writers and rows.  With       *)
(* callbacks inside the transaction the row lock keeps the index in step   *)
(* with the rows; every state is well formed; what a request changed is    *)
(* published when one ends; and the index follows a record nobody else has *)
(* to do with.  Cleaning removes nothing that has a row, no document is a  *)
(* phantom, and a job that ended has repaired the rows nobody touched.     *)
(***************************************************************************)
EXTENDS Records, SortingProofs, SequenceTheorems

\* The columns whose changes need not be indexed are not part of the document.
IgnoredIrrelevant == \A c \in Configs : c.ignored \subseteq {"other"}

\* A writer's record has these fields and no other.
Record(r) == DOMAIN r = {"pc", "id", "obj", "new", "gone", "marks", "draft", "wrote",
                         "due", "failed", "alone", "ended"}

InTransaction(r) == r.pc \in {"in", "callback"}

\* What the index holds for a record after its callback.
Acted(r) == IF Removes(r) THEN 0 ELSE r.obj.at

\* Inside a transaction the index is as the row was written, or will be when
\* the callback of the last write has run.
DraftFollows(r) ==
    r.id \in Ids \ spoilt =>
        /\ r.pc = "in" => core[r.id] = Expected(r.draft)
        /\ r.pc = "callback" => Expected(r.draft) = Acted(r)

\* A row that no transaction holds is followed by the index.
FreeFollows ==
    \A i \in Ids \ spoilt :
        (\A w \in Writers : ~Holds(w, i)) => core[i] = Expected(db[i])

\* A transaction is open exactly while its writer holds its row, alone.
HoldersAlone ==
    /\ \A w \in Writers : run[w].wrote \in BOOLEAN /\ (run[w].wrote <=> InTransaction(run[w]))
    /\ \A v, w \in Writers : Holds(v, run[w].id) /\ run[w].wrote => v = w

Locked ==
    /\ task.pc = "idle"
    /\ DOMAIN db = Ids
    /\ run = [w \in Writers |-> run[w]]
    /\ \A w \in Writers : Record(run[w])
    /\ HoldersAlone
    /\ FreeFollows
    /\ \A w \in Writers : DraftFollows(run[w])

LockInv ==
    /\ config \in Configs
    /\ tasks \in Nat
    /\ config.after = "save" /\ tasks = 0 => Locked

-----------------------------------------------------------------------------
(* What the steps of a writer do to its record and to the index.           *)

\* A step of one writer keeps the invariant when it touches nothing but its own
\* row, and when it releases or holds the row in the right state.
LEMMA LockMoves ==
    ASSUME Locked, NEW w \in Writers, NEW q, Record(q),
           run' = [run EXCEPT ![w] = q],
           task'.pc = "idle", DOMAIN db' = Ids, spoilt \subseteq spoilt',
           q.wrote \in BOOLEAN, q.wrote <=> InTransaction(q),
           q.wrote => q.id = run[w].id /\ \A v \in Writers \ {w} : ~Holds(v, run[w].id),
           \A i \in Ids : i # run[w].id => core'[i] = core[i] /\ db'[i] = db[i],
           \A v \in Writers \ {w} : Holds(v, run[w].id) => core' = core,
           run[w].id \in Ids \ spoilt' /\ ~q.wrote
               /\ (\A v \in Writers \ {w} : ~Holds(v, run[w].id))
               => core'[run[w].id] = Expected(db'[run[w].id]),
           q.wrote /\ q.id \in Ids \ spoilt' =>
               /\ q.pc = "in" => core'[q.id] = Expected(q.draft)
               /\ q.pc = "callback" => Expected(q.draft) = Acted(q)
    PROVE  Locked'
<1>1. /\ run'[w] = q
      /\ \A v \in Writers \ {w} : run'[v] = run[v]
      /\ run' = [v \in Writers |-> run'[v]]
  BY DEF Locked
<1>2. \A v \in Writers : Record(run'[v])
  BY <1>1 DEF Locked
<1>3. \A v \in Writers \ {w}, i \in Ids : Holds(v, i)' <=> Holds(v, i)
  BY <1>1 DEF Holds
<1>4. HoldersAlone'
  <2>1. \A v \in Writers : run'[v].wrote \in BOOLEAN /\ (run'[v].wrote <=> InTransaction(run'[v]))
    BY <1>1 DEF Locked, HoldersAlone
  <2>2. ASSUME NEW u \in Writers, NEW v \in Writers,
               run'[u].id = run'[v].id, run'[u].wrote, run'[v].wrote
        PROVE  u = v
    <3>1. CASE u = w /\ v = w
      BY <3>1
    <3>2. CASE u = w /\ v # w
      BY <1>1, <2>2, <3>2 DEF Holds
    <3>3. CASE u # w /\ v = w
      BY <1>1, <2>2, <3>3 DEF Holds
    <3>4. CASE u # w /\ v # w
      BY <1>1, <2>2, <3>4 DEF Locked, HoldersAlone, Holds
    <3>. QED BY <3>1, <3>2, <3>3, <3>4
  <2>. QED BY <2>1, <2>2 DEF HoldersAlone, Holds
<1>5. FreeFollows'
  <2> SUFFICES ASSUME NEW i \in Ids \ spoilt', \A v \in Writers : ~Holds(v, i)'
               PROVE  core'[i] = Expected(db'[i])
    BY DEF FreeFollows, Expected, Exists
  <2>1. CASE i = run[w].id
    <3>1. \A v \in Writers \ {w} : ~Holds(v, i)
      BY <1>3
    <3>2. ~q.wrote
      BY <1>1, <2>1 DEF Holds
    <3>. QED BY <2>1, <3>1, <3>2
  <2>2. CASE i # run[w].id
    <3>1. \A v \in Writers : ~Holds(v, i)
      BY <1>3, <2>2 DEF Holds
    <3>. QED BY <2>2, <3>1 DEF Locked, FreeFollows
  <2>. QED BY <2>1, <2>2
<1>6. ASSUME NEW v \in Writers
      PROVE  DraftFollows(run[v])'
  <2>1. CASE v = w
    <3>1. CASE q.wrote
      BY <1>1, <2>1, <3>1 DEF DraftFollows, Acted, Removes, Expected, Exists
    <3>2. CASE ~q.wrote
      BY <1>1, <2>1, <3>2 DEF DraftFollows, InTransaction
    <3>. QED BY <3>1, <3>2
  <2>2. CASE v # w
    <3>1. run'[v] = run[v] /\ DraftFollows(run[v])
      BY <1>1, <2>2 DEF Locked
    <3>2. CASE ~InTransaction(run[v])
      BY <3>1, <3>2 DEF DraftFollows, InTransaction
    <3>3. CASE InTransaction(run[v])
      <4>1. Holds(v, run[v].id)
        BY <3>3 DEF Locked, HoldersAlone, Holds
      <4>2. run[v].id \in Ids => core'[run[v].id] = core[run[v].id]
        BY <2>2, <4>1
      <4>. QED BY <3>1, <4>2 DEF DraftFollows, Acted, Removes, Expected, Exists
    <3>. QED BY <3>2, <3>3
  <2>. QED BY <2>1, <2>2
<1>. QED BY <1>1, <1>2, <1>4, <1>5, <1>6 DEF Locked

\* The record of a new request, and of one that is over, holds nothing.
LEMMA IdleReleases ==
    ASSUME NEW ended
    PROVE  /\ Record(Idle(ended)) /\ Idle(ended).wrote = FALSE /\ ~InTransaction(Idle(ended))
  BY DEF Record, Idle, InTransaction

LEMMA RollbackReleases ==
    ASSUME NEW r
    PROVE  /\ Record(RolledBack(r)) /\ RolledBack(r).wrote = FALSE
           /\ ~InTransaction(RolledBack(r))
  BY DEF Record, Idle, RolledBack, InTransaction

\* An open transaction is one that wrote the row, and it is the only one.
LEMMA HolderOf ==
    ASSUME Locked, NEW w \in Writers
    PROVE  /\ Record(run[w]) /\ run[w].wrote \in BOOLEAN
           /\ run[w].wrote <=> InTransaction(run[w])
           /\ run[w].wrote => \A v \in Writers \ {w} : ~Holds(v, run[w].id)
  BY DEF Locked, HoldersAlone

\* What the first write of a transaction starts from.
LEMMA OpenedRecord ==
    ASSUME Locked, NEW w \in Writers, Opened(w).pc = "in"
    PROVE  /\ Record(Opened(w)) /\ run[w].pc \in {"in", "out"}
           /\ Opened(w).id = run[w].id /\ Opened(w).wrote = run[w].wrote
           /\ Opened(w).gone = run[w].gone /\ Opened(w).draft = run[w].draft
  BY DEF Opened, Locked, Record

\* The marks say what the index should hold for the saved record.
LEMMA MarksRight ==
    ASSUME IgnoredIrrelevant, config \in Configs, NEW new, NEW obj, NEW change
    PROVE  LET marks == Marks(new, obj, change) IN
           /\ marks = {} => "content" \notin change /\ "visible" \notin change
           /\ marks # {} =>
                Expected(obj) = IF "index" \notin marks /\ "remove" \in marks THEN 0 ELSE obj.at
<1>1. config.ignored \subseteq {"other"}
  BY DEF IgnoredIrrelevant
<1>2. CASE ~obj.ok
  BY <1>2 DEF Marks, Indexable, Expected
<1>3. CASE obj.ok /\ (new \/ config.ignored = {} \/ change \ config.ignored # {})
  <2>1. Marks(new, obj, change) = {"index"}
    BY <1>3 DEF Marks, Indexable
  <2>. QED BY <1>3, <2>1 DEF Expected, Exists
<1>4. CASE obj.ok /\ ~(new \/ config.ignored = {} \/ change \ config.ignored # {})
  <2>1. Marks(new, obj, change) = {}
    BY <1>4 DEF Marks, Indexable
  <2>2. change \subseteq {"other"}
    BY <1>1, <1>4
  <2>. QED BY <2>1, <2>2
<1>. QED BY <1>2, <1>3, <1>4

LEMMA SaveLocks ==
    ASSUME IgnoredIrrelevant, config \in Configs, config.after = "save", tasks = 0,
           Locked, NEW w \in Writers, NEW change, Save(w, change)
    PROVE  Locked'
<1> DEFINE r == Opened(w)
           obj == Changed(r.obj, change)
           row == IF r.new THEN obj ELSE Updated(RowOf(w), obj, change)
           marks == Marks(r.new, obj, change)
           q == [r EXCEPT !.pc = IF config.after = "save" /\ marks # {} THEN "callback" ELSE "in",
                          !.obj = obj, !.new = FALSE, !.marks = marks,
                          !.draft = row, !.wrote = TRUE, !.due = @ \/ marks # {}]
<1>1. /\ r.pc = "in" /\ ~r.gone
      /\ \A v \in Writers \ {w} : ~Holds(v, r.id)
      /\ run' = [run EXCEPT ![w] = q]
      /\ spoilt' = IF marks # {} /\ row # obj THEN spoilt \cup {r.id} ELSE spoilt
      /\ task' = task /\ db' = db /\ core' = core
  BY DEF Save, Becomes, Touches, solr
<1>2. /\ Record(r) /\ r.id = run[w].id /\ r.wrote = run[w].wrote
      /\ run[w].pc \in {"in", "out"} /\ r.draft = run[w].draft
  BY <1>1, OpenedRecord
<1>3. /\ Record(q) /\ q.wrote = TRUE /\ q.id = run[w].id /\ q.draft = row /\ q.obj = obj
      /\ q.marks = marks /\ q.gone = r.gone
      /\ q.pc = IF marks # {} THEN "callback" ELSE "in"
  <2> HIDE DEF r, obj, row, marks
  <2>. QED BY <1>2 DEF Record
<1> HIDE DEF q
<1>4. ASSUME q.id \in Ids \ spoilt'
      PROVE  /\ q.pc = "in" => core[q.id] = Expected(q.draft)
             /\ q.pc = "callback" => Expected(q.draft) = Acted(q)
  <2>1. CASE marks = {}
    <3>1. "content" \notin change /\ "visible" \notin change
      BY <2>1, MarksRight
    <3>2. core[q.id] = Expected(RowOf(w))
      <4>1. q.id \in Ids \ spoilt
        BY <1>1, <1>4
      <4>2. CASE run[w].wrote
        <5>1. run[w].pc = "in"
          BY <1>2, <4>2, HolderOf DEF InTransaction
        <5>. QED BY <1>3, <4>1, <4>2, <5>1 DEF Locked, DraftFollows, RowOf
      <4>3. CASE ~run[w].wrote
        <5>1. \A v \in Writers : ~Holds(v, q.id)
          BY <1>1, <1>2, <1>3, <4>3 DEF Holds
        <5>. QED BY <1>3, <4>1, <4>3, <5>1 DEF Locked, FreeFollows, RowOf
      <4>. QED BY <4>2, <4>3
    <3>3. ~r.new
      BY <2>1 DEF Marks
    <3>4. Expected(row) = Expected(RowOf(w))
      BY <3>1, <3>3 DEF Updated, Expected, Exists
    <3>. QED BY <1>3, <2>1, <3>2, <3>4
  <2>2. CASE marks # {}
    <3>1. row = obj
      BY <1>1, <1>2, <1>3, <1>4, <2>2
    <3>2. Expected(obj) = IF "index" \notin marks /\ "remove" \in marks THEN 0 ELSE obj.at
      BY <2>2, MarksRight
    <3>3. Expected(obj) = Acted(q)
      BY <1>1, <1>3, <3>2 DEF Acted, Removes
    <3>. QED BY <1>3, <2>2, <3>1, <3>3
  <2>. QED BY <2>1, <2>2
<1>5. spoilt \subseteq spoilt'
  BY <1>1
<1>6. InTransaction(q)
  BY <1>3 DEF InTransaction
<1>7. task'.pc = "idle" /\ DOMAIN db' = Ids
  BY <1>1 DEF Locked
<1> HIDE DEF r, obj, row, marks
<1>. QED BY <1>1, <1>2, <1>3, <1>4, <1>5, <1>6, <1>7, LockMoves

LEMMA DestroyLocks ==
    ASSUME config.after = "save", tasks = 0, Locked, NEW w \in Writers, Destroy(w)
    PROVE  Locked'
<1> DEFINE r == Opened(w)
           q == [r EXCEPT !.pc = IF config.after = "save" THEN "callback" ELSE "in",
                          !.gone = TRUE, !.draft = NoRow, !.wrote = TRUE, !.due = TRUE]
<1>1. /\ r.pc = "in"
      /\ \A v \in Writers \ {w} : ~Holds(v, r.id)
      /\ run' = [run EXCEPT ![w] = q]
      /\ spoilt' = spoilt /\ task' = task /\ db' = db /\ core' = core
  BY DEF Destroy, Becomes, Touches, solr, history
<1>2. Record(r) /\ r.id = run[w].id
  BY <1>1, OpenedRecord
<1>3. /\ Record(q) /\ q.wrote = TRUE /\ q.id = run[w].id /\ q.draft = NoRow
      /\ q.gone = TRUE /\ q.pc = "callback"
  <2> HIDE DEF r
  <2>. QED BY <1>2 DEF Record
<1> HIDE DEF q
<1>4. Expected(q.draft) = Acted(q)
  BY <1>3 DEF Expected, Exists, NoRow, Acted, Removes
<1>5. InTransaction(q)
  BY <1>3 DEF InTransaction
<1>6. task'.pc = "idle" /\ DOMAIN db' = Ids
  BY <1>1 DEF Locked
<1> HIDE DEF r
<1>. QED BY <1>1, <1>2, <1>3, <1>4, <1>5, <1>6, LockMoves

\* Adding one document.
LEMMA OneDocument ==
    ASSUME NEW s, NEW id, NEW at, Core!SolrAdd(s, <<[id |-> id, at |-> at]>>), NEW i \in Ids
    PROVE  core'[i] = IF i = id THEN at ELSE core[i]
<1> DEFINE docs == <<[id |-> id, at |-> at]>>
<1>1. DOMAIN docs = {1} /\ docs[1].id = id /\ docs[1].at = at
  OBVIOUS
<1>2. core'[i] = IF Core!At(docs, i) = {} THEN core[i]
                 ELSE docs[CHOOSE n \in Core!At(docs, i) : \A m \in Core!At(docs, i) : m <= n].at
  BY DEF Core!SolrAdd, Core!Overwritten
<1> HIDE DEF docs
<1>3. CASE i = id
  <2>1. Core!At(docs, i) = {1}
    BY <1>1, <1>3 DEF Core!At
  <2>2. (CHOOSE n \in {1} : \A m \in {1} : m <= n) = 1
    OBVIOUS
  <2>. QED BY <1>1, <1>2, <1>3, <2>1, <2>2
<1>4. CASE i # id
  <2>1. Core!At(docs, i) = {}
    BY <1>1, <1>4 DEF Core!At
  <2>. QED BY <1>2, <1>4, <2>1
<1>. QED BY <1>3, <1>4

\* The request of a callback touches one row, and does there what the record
\* asks for when it goes well.
LEMMA CallbackIndexes ==
    ASSUME NEW w \in Writers, NEW outcome, Callback(w, outcome), NEW i \in Ids
    PROVE  /\ i # run[w].id => core'[i] = core[i]
           /\ i = run[w].id /\ outcome = "ok" => core'[i] = Acted(run[w])
<1> DEFINE r == run[w]
<1>1. CASE Removes(r)
  <2>1. \/ core' = core /\ outcome # "ok"
        \/ core' = [k \in Ids |-> IF k \in {r.id} THEN 0 ELSE core[k]]
    BY <1>1 DEF Callback, Sends, solr, Core!SolrDelete
  <2>. QED BY <1>1, <2>1 DEF Acted
<1>2. CASE ~Removes(r)
  <2>1. \/ core' = core /\ outcome # "ok"
        \/ Core!SolrAdd(w, <<[id |-> r.id, at |-> r.obj.at]>>)
    BY <1>2 DEF Callback, Sends, solr
  <2>2. CASE Core!SolrAdd(w, <<[id |-> r.id, at |-> r.obj.at]>>)
    <3>1. core'[i] = IF i = r.id THEN r.obj.at ELSE core[i]
      BY <2>2, OneDocument
    <3>. QED BY <1>2, <3>1 DEF Acted
  <2>. QED BY <2>1, <2>2
<1>. QED BY <1>1, <1>2

LEMMA CallbackLocks ==
    ASSUME config.after = "save", Locked, NEW w \in Writers, NEW outcome, Callback(w, outcome)
    PROVE  Locked'
<1> DEFINE r == run[w]
           failed == [r EXCEPT !.failed = TRUE]
<1>1. /\ r.pc = "callback" /\ task' = task /\ db' = db
      /\ spoilt' = IF outcome # "ok" THEN spoilt \cup {r.id} ELSE spoilt
  BY DEF Callback
<1>2. /\ Record(r) /\ r.wrote = TRUE /\ \A v \in Writers \ {w} : ~Holds(v, r.id)
  BY <1>1, HolderOf DEF InTransaction
<1>3. task'.pc = "idle" /\ DOMAIN db' = Ids /\ spoilt \subseteq spoilt'
  BY <1>1 DEF Locked
<1>4. \A i \in Ids : i # r.id => core'[i] = core[i] /\ db'[i] = db[i]
  BY <1>1, CallbackIndexes
<1>5. CASE outcome = "ok"
  <2> DEFINE q == [Unmarked(r) EXCEPT !.pc = "in"]
  <2>1. run' = [run EXCEPT ![w] = q]
    BY <1>5 DEF Callback, Becomes
  <2>2. Record(q) /\ q.wrote = TRUE /\ q.id = r.id /\ q.draft = r.draft /\ q.pc = "in"
    <3> HIDE DEF r
    <3>. QED BY <1>2 DEF Record, Unmarked
  <2>3. r.id \in Ids \ spoilt' => core'[r.id] = Expected(r.draft)
    <3>1. r.id \in Ids \ spoilt => Expected(r.draft) = Acted(r)
      BY <1>1 DEF Locked, DraftFollows
    <3>. QED BY <1>1, <1>5, <3>1, CallbackIndexes
  <2>4. InTransaction(q)
    BY <2>2 DEF InTransaction
  <2> HIDE DEF q
  <2>. QED BY <1>2, <1>3, <1>4, <2>1, <2>2, <2>3, <2>4, LockMoves
<1>6. CASE outcome # "ok"
  <2>1. r.id \notin Ids \ spoilt'
    BY <1>1, <1>6
  <2>2. \/ run' = [run EXCEPT ![w] = [failed EXCEPT !.pc = "in"]]
        \/ run' = [run EXCEPT ![w] = RolledBack(failed)]
    BY <1>6 DEF Callback, CallbackRaises, Becomes
  <2>3. CASE run' = [run EXCEPT ![w] = [failed EXCEPT !.pc = "in"]]
    <3> DEFINE q == [failed EXCEPT !.pc = "in"]
    <3>1. Record(q) /\ q.wrote = TRUE /\ q.id = r.id /\ q.pc = "in"
      <4> HIDE DEF r
      <4>. QED BY <1>2 DEF Record
    <3>2. InTransaction(q)
      BY <3>1 DEF InTransaction
    <3> HIDE DEF q, failed
    <3>. QED BY <1>2, <1>3, <1>4, <2>1, <2>3, <3>1, <3>2, LockMoves DEF q
  <2>4. CASE run' = [run EXCEPT ![w] = RolledBack(failed)]
    <3> DEFINE q == RolledBack(failed)
    <3>1. Record(q) /\ q.wrote = FALSE /\ ~InTransaction(q)
      BY RollbackReleases
    <3> HIDE DEF q, failed
    <3>. QED BY <1>2, <1>3, <1>4, <2>1, <2>4, <3>1, LockMoves DEF q
  <2>. QED BY <2>2, <2>3, <2>4
<1>. QED BY <1>5, <1>6

\* The commit of a transaction makes its draft the row, and lets go of it.
LEMMA CommitLocks ==
    ASSUME config.after = "save", Locked, NEW w \in Writers, CommitTransaction(w)
    PROVE  Locked'
<1> DEFINE r == run[w]
<1>1. /\ r.pc = "in" /\ task' = task /\ core' = core /\ spoilt' = spoilt
      /\ db' = [db EXCEPT ![r.id] = RowOf(w)]
  BY DEF CommitTransaction, solr
<1>2. /\ Record(r) /\ r.wrote = TRUE
  BY <1>1, HolderOf DEF InTransaction
<1>3. PICK runs \in BOOLEAN : run' = [run EXCEPT ![w] = Committed(r, runs)]
  BY DEF CommitTransaction, Becomes
<1> DEFINE q == Committed(r, runs)
<1>4. Record(q) /\ q.wrote = FALSE /\ q.pc = "out"
  <2> HIDE DEF r
  <2>. QED BY <1>2 DEF Record, Committed
<1>5. ~InTransaction(q)
  BY <1>4 DEF InTransaction
<1>6. /\ task'.pc = "idle" /\ DOMAIN db' = Ids
      /\ \A i \in Ids : i # r.id => db'[i] = db[i]
  BY <1>1 DEF Locked
<1>7. r.id \in Ids \ spoilt => core[r.id] = Expected(db'[r.id])
  <2> SUFFICES ASSUME r.id \in Ids \ spoilt PROVE core[r.id] = Expected(db'[r.id])
    OBVIOUS
  <2>1. db'[r.id] = r.draft
    BY <1>1, <1>2 DEF Locked, RowOf
  <2>2. core[r.id] = Expected(r.draft)
    BY <1>1 DEF Locked, DraftFollows
  <2>. QED BY <2>1, <2>2
<1> HIDE DEF q
<1>. QED BY <1>1, <1>3, <1>4, <1>5, <1>6, <1>7, LockMoves DEF q

\* A rollback lets go of a row whose index is not as the row any more.
LEMMA RollbackLocks ==
    ASSUME config.after = "save", Locked, NEW w \in Writers, Rollback(w)
    PROVE  Locked'
<1> DEFINE r == run[w]
           q == RolledBack(r)
<1>1. /\ r.pc = "in" /\ task' = task /\ core' = core /\ db' = db
      /\ run' = [run EXCEPT ![w] = q]
      /\ spoilt' = IF r.wrote THEN spoilt \cup {r.id} ELSE spoilt
  BY DEF Rollback, Becomes, solr
<1>2. r.wrote = TRUE
  BY <1>1, HolderOf DEF InTransaction
<1>3. Record(q) /\ q.wrote = FALSE /\ ~InTransaction(q)
  BY RollbackReleases
<1>4. task'.pc = "idle" /\ DOMAIN db' = Ids /\ spoilt \subseteq spoilt' /\ r.id \notin Ids \ spoilt'
  BY <1>1, <1>2 DEF Locked
<1> HIDE DEF q
<1>. QED BY <1>1, <1>3, <1>4, LockMoves

\* The end of a request changes neither rows nor the index.
LEMMA EndLocks ==
    ASSUME Locked, NEW w \in Writers,
           ActionRaises(w) \/ \E outcome \in Outcomes : EndRequest(w, outcome)
    PROVE  Locked'
<1> DEFINE r == run[w]
<1>1. /\ r.pc \in {"out", "over"} /\ task' = task /\ db' = db /\ spoilt' = spoilt
      /\ core' = core
  BY DEF ActionRaises, EndRequest, solr, history, Core!SolrCommit
<1>2. PICK ended : run' = [run EXCEPT ![w] = Idle(ended)]
  BY DEF ActionRaises, EndRequest, Becomes
<1> DEFINE q == Idle(ended)
<1>3. Record(q) /\ q.wrote = FALSE /\ ~InTransaction(q)
  BY IdleReleases
<1>4. ~r.wrote
  BY <1>1, HolderOf DEF InTransaction
<1>5. r.id \in Ids \ spoilt /\ (\A v \in Writers \ {w} : ~Holds(v, r.id))
         => core[r.id] = Expected(db[r.id])
  <2> SUFFICES ASSUME r.id \in Ids \ spoilt, \A v \in Writers \ {w} : ~Holds(v, r.id)
               PROVE  core[r.id] = Expected(db[r.id])
    OBVIOUS
  <2>1. \A v \in Writers : ~Holds(v, r.id)
    BY <1>4 DEF Holds
  <2>. QED BY <2>1 DEF Locked, FreeFollows
<1>6. task'.pc = "idle" /\ DOMAIN db' = Ids
  BY <1>1 DEF Locked
<1> HIDE DEF q
<1>. QED BY <1>1, <1>2, <1>3, <1>5, <1>6, LockMoves DEF q

\* A request that takes a record holds nothing yet, and changes nobody's hold.
LEMMA TakesLocks ==
    ASSUME Locked, NEW w \in Writers, run[w].pc = "idle", NEW i, NEW obj, NEW new,
           Takes(w, i, obj, new), task' = task, db' = db, core' = core, spoilt' = spoilt
    PROVE  Locked'
<1> DEFINE alone == task.pc = "idle" /\ \A v \in Writers \ {w} : run[v].id # i
           q == [Idle("orderly") EXCEPT !.pc = "out", !.id = i, !.obj = obj,
                                        !.new = new, !.alone = alone]
<1>1. run' = [Shared(w, i) EXCEPT ![w] = q]
  BY DEF Takes
<1>2. Record(q) /\ q.wrote = FALSE /\ q.pc = "out"
  <2> HIDE DEF alone
  <2>. QED BY DEF Record, Idle
<1>3. run'[w] = q /\ run' = [v \in Writers |-> run'[v]]
  BY <1>1 DEF Shared
<1>4. ~run[w].wrote
  BY HolderOf DEF InTransaction
<1>5. ASSUME NEW v \in Writers \ {w}
      PROVE  /\ Record(run'[v]) /\ run'[v].pc = run[v].pc /\ run'[v].id = run[v].id
             /\ run'[v].wrote = run[v].wrote /\ run'[v].draft = run[v].draft
             /\ run'[v].gone = run[v].gone /\ run'[v].marks = run[v].marks
             /\ run'[v].obj = run[v].obj
  <2>1. run'[v] = run[v] \/ run'[v] = [run[v] EXCEPT !.alone = FALSE]
    BY <1>1 DEF Shared
  <2>2. Record(run[v])
    BY DEF Locked
  <2>. QED BY <2>1, <2>2 DEF Record
<1> HIDE DEF q
<1>6. \A v \in Writers, n \in Ids : Holds(v, n)' <=> Holds(v, n)
  BY <1>2, <1>3, <1>4, <1>5 DEF Holds
<1>7. HoldersAlone'
  <2>1. \A v \in Writers : run'[v].wrote \in BOOLEAN /\ (run'[v].wrote <=> InTransaction(run'[v]))
    BY <1>2, <1>3, <1>5 DEF Locked, HoldersAlone, InTransaction
  <2>2. ASSUME NEW u \in Writers, NEW v \in Writers,
               run'[u].id = run'[v].id, run'[u].wrote, run'[v].wrote
        PROVE  u = v
    <3>1. u # w /\ v # w
      BY <1>2, <1>3, <2>2
    <3>. QED BY <1>5, <2>2, <3>1 DEF Locked, HoldersAlone, Holds
  <2>. QED BY <2>1, <2>2 DEF HoldersAlone, Holds
<1>8. FreeFollows'
  BY <1>6 DEF Locked, FreeFollows, Expected, Exists
<1>9. ASSUME NEW v \in Writers
      PROVE  DraftFollows(run[v])'
  <2>1. CASE v = w
    BY <1>2, <1>3, <2>1 DEF DraftFollows
  <2>2. CASE v # w
    <3>1. DraftFollows(run[v])
      BY DEF Locked
    <3>. QED BY <1>5, <2>2, <3>1 DEF DraftFollows, Acted, Removes, Expected, Exists
  <2>. QED BY <2>1, <2>2
<1>. QED BY <1>2, <1>3, <1>5, <1>7, <1>8, <1>9 DEF Locked

-----------------------------------------------------------------------------
(* The invariant.                                                          *)

LEMMA WriterLocks ==
    ASSUME IgnoredIrrelevant, config \in Configs, config.after = "save", tasks = 0,
           Locked, NEW w \in Writers, Writer(w)
    PROVE  Locked'
<1>1. ASSUME NEW i \in Ids, Load(w, i)
      PROVE  Locked'
  BY <1>1, TakesLocks DEF Load, solr, history
<1>2. ASSUME NEW i \in Ids, Build(w, i)
      PROVE  Locked'
  <2>1. PICK ok \in BOOLEAN : Takes(w, i, [at |-> 0, ok |-> ok], TRUE)
    BY <1>2 DEF Build
  <2>. QED BY <1>2, <2>1, TakesLocks DEF Build, solr, history
<1>3. ASSUME NEW change \in (SUBSET Columns) \ {{}}, Save(w, change)
      PROVE  Locked'
  BY <1>3, SaveLocks
<1>4. ASSUME Destroy(w)
      PROVE  Locked'
  BY <1>4, DestroyLocks
<1>5. ASSUME NEW outcome \in Outcomes, Callback(w, outcome)
      PROVE  Locked'
  BY <1>5, CallbackLocks
<1>6. ASSUME CommitTransaction(w)
      PROVE  Locked'
  BY <1>6, CommitLocks
<1>7. ASSUME Rollback(w)
      PROVE  Locked'
  BY <1>7, RollbackLocks
<1>8. ASSUME ActionRaises(w) \/ \E outcome \in Outcomes : EndRequest(w, outcome)
      PROVE  Locked'
  BY <1>8, EndLocks
<1>. QED BY <1>1, <1>2, <1>3, <1>4, <1>5, <1>6, <1>7, <1>8 DEF Writer

\* While no task has been started only writers take steps, and no step changes
\* the configuration or takes a started task back.
LEMMA TasksOnlyStart ==
    ASSUME tasks \in Nat, [Next]_vars
    PROVE  /\ config' = config /\ tasks' \in Nat
           /\ tasks' = 0 => tasks = 0
           /\ tasks' = 0 /\ task.pc = "idle" =>
                UNCHANGED vars \/ \E w \in Writers : Writer(w)
<1>1. ASSUME NEW w \in Writers, Writer(w)
      PROVE  config' = config /\ tasks' = tasks
  BY <1>1 DEF Writer, Load, Build, Save, Destroy, Callback, EndRequest, CommitTransaction,
              Rollback, ActionRaises
<1>2. ASSUME TaskStep
      PROVE  /\ config' = config /\ (tasks' = tasks \/ tasks' = tasks + 1)
             /\ task.pc = "idle" => tasks' = tasks + 1
  BY <1>2 DEF TaskStep, StartTask, Wipe, SendBatch, CommitBatch, EndReindex,
              RemoveOrphan, ReadBatch, ReadPage, SelectOrphans, EndClean, TaskKilled, TaskCommits
<1>3. CASE UNCHANGED vars
  BY <1>3 DEF vars
<1>. QED BY <1>1, <1>2, <1>3 DEF Next

LEMMA LockInvInductive == IgnoredIrrelevant => (Spec => []LockInv)
<1> SUFFICES ASSUME IgnoredIrrelevant PROVE Spec => []LockInv
  OBVIOUS
<1>1. Init => LockInv
  <2> SUFFICES ASSUME Init PROVE LockInv
    OBVIOUS
  <2>1. \A w \in Writers : run[w] = Idle("orderly")
    BY DEF Init
  <2>2. HoldersAlone
    <3>1. \A w \in Writers : run[w].wrote = FALSE /\ ~InTransaction(run[w])
      BY <2>1, IdleReleases
    <3>. QED BY <3>1 DEF HoldersAlone, Holds
  <2>3. FreeFollows
    BY DEF FreeFollows, Init
  <2>4. \A w \in Writers : Record(run[w]) /\ DraftFollows(run[w])
    BY <2>1 DEF Record, Idle, DraftFollows
  <2>. QED BY <2>2, <2>3, <2>4 DEF LockInv, Locked, Init, Resting
<1>2. LockInv /\ [Next]_vars => LockInv'
  <2> SUFFICES ASSUME LockInv, [Next]_vars PROVE LockInv'
    OBVIOUS
  <2>1. /\ config' = config /\ tasks' \in Nat /\ config \in Configs /\ tasks \in Nat
    BY TasksOnlyStart DEF LockInv
  <2>2. ASSUME config.after = "save", tasks' = 0
        PROVE  Locked'
    <3>1. tasks = 0
      BY <2>1, <2>2, TasksOnlyStart
    <3>2. Locked
      BY <2>2, <3>1 DEF LockInv
    <3>3. UNCHANGED vars \/ \E w \in Writers : Writer(w)
      BY <2>1, <2>2, <3>2, TasksOnlyStart DEF Locked
    <3>4. CASE UNCHANGED vars
      BY <3>2, <3>4 DEF vars, solr, history, Locked, HoldersAlone, Holds, FreeFollows,
                        DraftFollows, Expected, Exists, Acted, Removes
    <3>5. ASSUME NEW w \in Writers, Writer(w)
          PROVE  Locked'
      BY <2>1, <2>2, <3>1, <3>2, <3>5, WriterLocks
    <3>. QED BY <3>3, <3>4, <3>5
  <2>. QED BY <2>1, <2>2 DEF LockInv
<1>. QED BY <1>1, <1>2, PTL DEF Spec

\* searchable.rb with after_save callbacks: as long as no task runs, and unless
\* ignored columns are part of the document, the index is as the row whenever no
\* transaction is open on the row, however many writers there are and whatever
\* they do, except where a transaction was rolled back, a request failed, or a
\* stale record was saved.
THEOREM RowLockKeepsIndex == IgnoredIrrelevant => (Spec => []LockedFollows)
<1> SUFFICES ASSUME IgnoredIrrelevant PROVE Spec => []LockedFollows
  OBVIOUS
<1>1. LockInv => LockedFollows
  BY DEF LockInv, LockedFollows, Locked, FreeFollows
<1>. QED BY <1>1, LockInvInductive, PTL

-----------------------------------------------------------------------------
(* Well-formed states.                                                     *)

\* The record of the task has these fields and no other.
IsTask(t) == DOMAIN t = {"pc", "job", "last", "batch", "found", "page", "shown", "skipped",
                         "touched", "ended"}

Requests ==
    [pc : {"idle", "out", "in", "callback", "over"}, id : Ids \cup {0},
     obj : Rows, new : BOOLEAN, gone : BOOLEAN,
     marks : SUBSET {"index", "remove"}, draft : Rows, wrote : BOOLEAN,
     due : BOOLEAN, failed : BOOLEAN, alone : BOOLEAN,
     ended : {"orderly", "raised"}]

\* A request with a record: the record is built before its first write only.
Sound(r) ==
    /\ r \in Requests
    /\ r.pc \in {"out", "in", "callback"} => r.id \in Ids /\ (r.new \/ Exists(r.obj))
    /\ r.new => r.pc = "out"

WorldTyped ==
    /\ config \in Configs
    /\ db \in [Ids -> Rows]
    /\ counted \in [Sessions -> SUBSET {"add", "delete"}]
    /\ clock \in Nat
    /\ used \subseteq Ids
    /\ spoilt \subseteq Ids

RunTyped == run = [w \in Writers |-> run[w]] /\ \A w \in Writers : Sound(run[w])

TaskOK(t) ==
    /\ IsTask(t)
    /\ t.batch \in Seq(Core!Docs)
    /\ t.found \subseteq Ids
    /\ t.touched \subseteq Ids

TypeInv == WorldTyped /\ Core!SolrTypeOK /\ RunTyped /\ TaskOK(task)

LEMMA TypeEnough == TypeInv => TypeOK
<1> SUFFICES ASSUME TypeInv PROVE TypeOK
  OBVIOUS
<1>1. run \in [Writers -> Requests] /\ \A w \in Writers : Sound(run[w])
  BY DEF TypeInv, RunTyped, Sound
<1>. QED BY <1>1 DEF TypeInv, WorldTyped, TaskOK, TypeOK, Requests, Sound

-----------------------------------------------------------------------------
(* Values.                                                                 *)

LEMMA IdleSound ==
    ASSUME NEW ended \in {"orderly", "raised"}
    PROVE  Sound(Idle(ended))
  BY DEF Idle, Sound, Requests, Rows, NoRow

LEMMA RolledBackSound ==
    ASSUME NEW r
    PROVE  Sound(RolledBack(r))
  BY DEF RolledBack, Idle, Sound, Requests, Rows, NoRow

LEMMA BecomesTyped ==
    ASSUME RunTyped, NEW w \in Writers, NEW q, Sound(q), Becomes(w, q)
    PROVE  RunTyped'
<1>1. run' = [v \in Writers |-> IF v = w THEN q ELSE run[v]]
  BY DEF RunTyped, Becomes
<1>. QED BY <1>1 DEF RunTyped, Sound, Requests, Exists

LEMMA TakesTyped ==
    ASSUME RunTyped, NEW w \in Writers, NEW i \in Ids, NEW obj \in Rows, NEW new \in BOOLEAN,
           new \/ Exists(obj), Takes(w, i, obj, new)
    PROVE  RunTyped'
<1> DEFINE alone == task.pc = "idle" /\ \A v \in Writers \ {w} : run[v].id # i
           q == [Idle("orderly") EXCEPT !.pc = "out", !.id = i, !.obj = obj,
                                        !.new = new, !.alone = alone]
<1>1. run' = [Shared(w, i) EXCEPT ![w] = q]
  BY DEF Takes
<1>2. Sound(q)
  <2>1. alone \in BOOLEAN
    OBVIOUS
  <2> HIDE DEF alone
  <2>. QED BY <2>1 DEF Idle, Sound, Requests, Rows, NoRow
<1> HIDE DEF q
<1>3. run' = [v \in Writers |-> run'[v]] /\ run'[w] = q
  BY <1>1 DEF Shared
<1>4. ASSUME NEW v \in Writers \ {w}
      PROVE  Sound(run'[v])
  <2>1. run'[v] = run[v] \/ run'[v] = [run[v] EXCEPT !.alone = FALSE]
    BY <1>1 DEF Shared
  <2>2. Sound(run[v])
    BY DEF RunTyped
  <2>. QED BY <2>1, <2>2 DEF Sound, Requests
<1>5. \A v \in Writers : Sound(run'[v])
  BY <1>2, <1>3, <1>4
<1>. QED BY <1>3, <1>5 DEF RunTyped, Sound, Requests, Exists

LEMMA AddTyped ==
    ASSUME Core!SolrTypeOK, NEW s, NEW docs \in Seq(Core!Docs), Core!SolrAdd(s, docs)
    PROVE  Core!SolrTypeOK'
<1>1. core' \in [Ids -> Nat]
  <2>1. ASSUME NEW k \in Ids, Core!At(docs, k) # {}
        PROVE  docs[CHOOSE i \in Core!At(docs, k) : \A j \in Core!At(docs, k) : j <= i].at \in Nat
    <3> DEFINE P(i) == \A j \in Core!At(docs, k) : j <= i
    <3>1. Core!At(docs, k) \subseteq 0 .. Len(docs) /\ Len(docs) \in Nat
      BY LenProperties DEF Core!At
    <3>2. \E i \in Core!At(docs, k) : P(i)
      BY <2>1, <3>1, GreatestExists
    <3>3. PICK i \in Core!At(docs, k) : i = CHOOSE m \in Core!At(docs, k) : P(m)
      BY <3>2
    <3>4. docs[i] \in Core!Docs
      BY ElementOfSeq DEF Core!At
    <3>. QED BY <3>3, <3>4 DEF Core!Docs
  <2>. QED BY <2>1 DEF Core!SolrAdd, Core!Overwritten, Core!SolrTypeOK
<1>. QED BY <1>1 DEF Core!SolrAdd, Core!SolrTypeOK

LEMMA DeleteTyped ==
    ASSUME Core!SolrTypeOK, NEW s, NEW ids, Core!SolrDelete(s, ids)
    PROVE  Core!SolrTypeOK'
  BY DEF Core!SolrDelete, Core!SolrTypeOK

LEMMA PublishTyped ==
    ASSUME Core!SolrTypeOK, Core!SolrCommit
    PROVE  Core!SolrTypeOK'
  BY DEF Core!SolrCommit, Core!SolrTypeOK

-----------------------------------------------------------------------------
(* The steps of a writer.                                                  *)

LEMMA TouchesTyped ==
    ASSUME TaskOK(task), NEW i \in Ids, Touches(i)
    PROVE  TaskOK(task')
<1>1. CASE tasks = 0
  BY <1>1 DEF Touches
<1>2. CASE tasks # 0
  BY <1>2 DEF Touches, TaskOK, IsTask
<1>. QED BY <1>1, <1>2

LEMMA OpenedTyped ==
    ASSUME NEW w \in Writers, Sound(run[w]), Opened(w).pc = "in"
    PROVE  /\ Opened(w) \in Requests
           /\ Opened(w).id = run[w].id /\ Opened(w).id \in Ids
           /\ Opened(w).obj = run[w].obj /\ Opened(w).new = run[w].new
           /\ Opened(w).new \/ Exists(Opened(w).obj)
  BY DEF Opened, Sound, Requests

LEMMA RowOfTyped ==
    ASSUME db \in [Ids -> Rows], NEW w \in Writers, Sound(run[w]), run[w].id \in Ids
    PROVE  RowOf(w) \in Rows
  BY DEF RowOf, Sound, Requests

LEMMA SaveTyped ==
    ASSUME TypeInv, NEW w \in Writers, NEW change \in (SUBSET Columns) \ {{}}, Save(w, change)
    PROVE  TypeInv'
<1> DEFINE r == Opened(w)
           obj == Changed(r.obj, change)
           row == IF r.new THEN obj ELSE Updated(RowOf(w), obj, change)
           marks == Marks(r.new, obj, change)
           q == [r EXCEPT
               !.pc = IF config.after = "save" /\ marks # {} THEN "callback" ELSE "in",
               !.obj = obj, !.new = FALSE, !.marks = marks,
               !.draft = row, !.wrote = TRUE, !.due = @ \/ marks # {}]
<1>1. /\ r.pc = "in" /\ Becomes(w, q) /\ Touches(r.id)
      /\ r.new => "content" \in change
      /\ clock' \in {clock, clock + 1} /\ spoilt' \in {spoilt, spoilt \cup {r.id}}
      /\ UNCHANGED <<config, db, core, searcher, pending, counted, used>>
  BY DEF Save, solr
<1>2. Sound(run[w])
  BY DEF TypeInv, RunTyped
<1>3. /\ r \in Requests /\ r.id = run[w].id /\ r.id \in Ids /\ (r.new \/ Exists(r.obj))
  BY <1>1, <1>2, OpenedTyped
<1> HIDE DEF r
<1>4. obj \in Rows /\ Exists(obj)
  <2>1. r.obj \in Rows /\ clock \in Nat
    BY <1>3 DEF Requests, TypeInv, WorldTyped
  <2>2. obj.at = IF "content" \in change THEN clock + 1 ELSE r.obj.at
    BY DEF Changed
  <2>3. obj.at \in Nat /\ obj.at # 0
    BY <1>1, <1>3, <2>1, <2>2 DEF Rows, Exists
  <2>. QED BY <2>1, <2>3 DEF Changed, Rows, Exists
<1>5. row \in Rows
  <2>1. run[w].id \in Ids /\ db \in [Ids -> Rows]
    BY <1>3 DEF TypeInv, WorldTyped
  <2>2. RowOf(w) \in Rows
    BY <1>2, <2>1, RowOfTyped
  <2> HIDE DEF obj
  <2>. QED BY <1>4, <2>2 DEF Updated, Rows, Exists
<1>6. marks \in SUBSET {"index", "remove"}
  BY DEF Marks
<1> HIDE DEF obj, row, marks
<1>7. Sound(q)
  <2>1. r.gone \in BOOLEAN /\ r.due \in BOOLEAN
    BY <1>3 DEF Requests
  <2>2. q \in Requests
    BY <1>3, <1>4, <1>5, <1>6, <2>1 DEF Requests
  <2>3. q.id = r.id /\ q.new = FALSE /\ q.obj = obj
    BY <1>3 DEF Requests
  <2>. QED BY <1>3, <1>4, <2>2, <2>3 DEF Sound
<1> HIDE DEF q
<1>8. RunTyped'
  BY <1>1, <1>7, BecomesTyped DEF TypeInv
<1>9. TaskOK(task')
  BY <1>1, <1>3, TouchesTyped DEF TypeInv
<1>. QED BY <1>1, <1>3, <1>8, <1>9 DEF TypeInv, WorldTyped, Core!SolrTypeOK, TaskOK, IsTask

LEMMA DestroyTyped ==
    ASSUME TypeInv, NEW w \in Writers, Destroy(w)
    PROVE  TypeInv'
<1> DEFINE r == Opened(w)
           q == [r EXCEPT !.pc = IF config.after = "save" THEN "callback" ELSE "in",
                          !.gone = TRUE, !.draft = NoRow, !.wrote = TRUE, !.due = TRUE]
<1>1. /\ r.pc = "in" /\ ~r.new /\ Becomes(w, q) /\ Touches(r.id)
      /\ UNCHANGED <<config, db, core, searcher, pending, counted, used, clock, spoilt>>
  BY DEF Destroy, solr, history
<1>2. Sound(run[w])
  BY DEF TypeInv, RunTyped
<1>3. /\ r \in Requests /\ r.id \in Ids /\ (r.new \/ Exists(r.obj))
  BY <1>1, <1>2, OpenedTyped
<1> HIDE DEF r
<1>4. Sound(q)
  <2>1. q \in Requests
    BY <1>3 DEF Requests, NoRow, Rows
  <2>2. q.id = r.id /\ q.new = r.new /\ q.obj = r.obj
    BY <1>3 DEF Requests
  <2>. QED BY <1>1, <1>3, <2>1, <2>2 DEF Sound
<1> HIDE DEF q
<1>5. RunTyped' /\ TaskOK(task')
  BY <1>1, <1>3, <1>4, BecomesTyped, TouchesTyped DEF TypeInv
<1>. QED BY <1>1, <1>5 DEF TypeInv, WorldTyped, Core!SolrTypeOK, TaskOK, IsTask

LEMMA CallbackTyped ==
    ASSUME TypeInv, NEW w \in Writers, NEW outcome, Callback(w, outcome)
    PROVE  TypeInv'
<1> DEFINE r == run[w]
           doc == [id |-> r.id, at |-> r.obj.at]
<1>1. /\ r.pc = "callback" /\ Sound(r)
      /\ spoilt' \in {spoilt, spoilt \cup {r.id}}
      /\ UNCHANGED <<config, db, task, used, clock>>
  BY DEF Callback, TypeInv, RunTyped
<1>2. r.id \in Ids /\ ~r.new /\ Exists(r.obj) /\ r \in Requests
  BY <1>1 DEF Sound
<1>3. counted' \in [Sessions -> SUBSET {"add", "delete"}]
  <2>1. \E kinds \in SUBSET {"add", "delete"} : counted' = [counted EXCEPT ![w] = @ \cup kinds]
    BY DEF Callback, Sends
  <2>. QED BY <2>1 DEF TypeInv, WorldTyped
<1>4. Core!SolrTypeOK'
  <2>1. \/ UNCHANGED <<core, searcher, pending>>
        \/ Core!SolrDelete(w, {r.id})
        \/ Core!SolrAdd(w, <<doc>>)
    BY DEF Callback, Sends, solr
  <2>2. CASE UNCHANGED <<core, searcher, pending>>
    BY <2>2 DEF TypeInv, Core!SolrTypeOK
  <2>3. CASE Core!SolrDelete(w, {r.id})
    BY <2>3, DeleteTyped DEF TypeInv
  <2>4. CASE Core!SolrAdd(w, <<doc>>)
    <3>1. doc \in Core!Docs
      BY <1>2 DEF Core!Docs, Requests, Rows, Exists
    <3>2. <<doc>> \in Seq(Core!Docs)
      BY <3>1
    <3> HIDE DEF doc
    <3>. QED BY <2>4, <3>2, AddTyped DEF TypeInv
  <2>. QED BY <2>1, <2>2, <2>3, <2>4
<1>5. \E q : Becomes(w, q) /\ Sound(q)
  <2> DEFINE failed == [r EXCEPT !.failed = TRUE]
  <2>1. \/ \E pc \in {"in", "out"} : \/ Becomes(w, [Unmarked(r) EXCEPT !.pc = pc])
                                   \/ Becomes(w, [failed EXCEPT !.pc = pc])
        \/ Becomes(w, RolledBack(failed))
    BY DEF Callback, CallbackRaises
  <2>2. \A pc \in {"in", "out"} : Sound([Unmarked(r) EXCEPT !.pc = pc])
    <3> HIDE DEF r
    <3>. QED BY <1>2 DEF Unmarked, Sound, Requests
  <2>3. \A pc \in {"in", "out"} : Sound([failed EXCEPT !.pc = pc])
    <3> HIDE DEF r
    <3>. QED BY <1>2 DEF Sound, Requests
  <2>. QED BY <2>1, <2>2, <2>3, RolledBackSound
<1>6. RunTyped'
  BY <1>5, BecomesTyped DEF TypeInv
<1> HIDE DEF r
<1>. QED BY <1>1, <1>2, <1>3, <1>4, <1>6 DEF TypeInv, WorldTyped, TaskOK, IsTask

LEMMA CommitTyped ==
    ASSUME TypeInv, NEW w \in Writers, CommitTransaction(w)
    PROVE  TypeInv'
<1> DEFINE r == run[w]
<1>1. /\ r.pc = "in" /\ Sound(r) /\ db' = [db EXCEPT ![r.id] = RowOf(w)]
      /\ UNCHANGED <<config, core, searcher, pending, counted, task, used, clock, spoilt>>
  BY DEF CommitTransaction, solr, TypeInv, RunTyped
<1>2. r.id \in Ids /\ ~r.new /\ Exists(r.obj) /\ r \in Requests
  BY <1>1 DEF Sound
<1>3. db' \in [Ids -> Rows]
  BY <1>1, <1>2, RowOfTyped DEF TypeInv, WorldTyped
<1>4. PICK runs \in BOOLEAN : Becomes(w, Committed(r, runs))
  BY DEF CommitTransaction
<1>5. Sound(Committed(r, runs))
  <2> HIDE DEF r
  <2>. QED BY <1>2 DEF Committed, Sound, Requests
<1>6. RunTyped'
  BY <1>4, <1>5, BecomesTyped DEF TypeInv
<1> HIDE DEF r
<1>. QED BY <1>1, <1>3, <1>6 DEF TypeInv, WorldTyped, TaskOK, IsTask, Core!SolrTypeOK

LEMMA EndTyped ==
    ASSUME TypeInv, NEW w \in Writers,
           Rollback(w) \/ ActionRaises(w) \/ \E outcome \in Outcomes : EndRequest(w, outcome)
    PROVE  TypeInv'
<1>1. UNCHANGED <<config, db, task, used, clock>>
  BY DEF Rollback, ActionRaises, EndRequest
<1>2. counted' \in [Sessions -> SUBSET {"add", "delete"}]
  BY DEF Rollback, ActionRaises, EndRequest, TypeInv, WorldTyped
<1>3. spoilt' \subseteq Ids
  <2>1. spoilt' = spoilt \/ (spoilt' = spoilt \cup {run[w].id} /\ run[w].pc = "in")
    BY DEF Rollback, ActionRaises, EndRequest, history
  <2>. QED BY <2>1 DEF TypeInv, WorldTyped, RunTyped, Sound
<1>4. Core!SolrTypeOK'
  <2>1. UNCHANGED <<core, searcher, pending>> \/ Core!SolrCommit
    BY DEF Rollback, ActionRaises, EndRequest, solr
  <2>. QED BY <2>1, PublishTyped DEF TypeInv, Core!SolrTypeOK
<1>5. RunTyped'
  <2>1. Becomes(w, RolledBack(run[w])) \/ Becomes(w, Idle("orderly")) \/ Becomes(w, Idle("raised"))
    BY DEF Rollback, ActionRaises, EndRequest
  <2>2. Sound(Idle("orderly")) /\ Sound(Idle("raised")) /\ Sound(RolledBack(run[w]))
    BY IdleSound, RolledBackSound
  <2>. QED BY <2>1, <2>2, BecomesTyped DEF TypeInv
<1>. QED BY <1>1, <1>2, <1>3, <1>4, <1>5 DEF TypeInv, WorldTyped, TaskOK, IsTask

LEMMA BeginTyped ==
    ASSUME TypeInv, NEW w \in Writers, NEW i \in Ids, Load(w, i) \/ Build(w, i)
    PROVE  TypeInv'
<1>1. /\ used' \in {used, used \cup {i}}
      /\ UNCHANGED <<config, db, core, searcher, pending, counted, task, clock, spoilt>>
  BY DEF Load, Build, solr, history
<1>2. RunTyped'
  <2>1. CASE Load(w, i)
    BY <2>1, TakesTyped DEF Load, TypeInv, WorldTyped
  <2>2. CASE Build(w, i)
    <3>1. PICK ok \in BOOLEAN : Takes(w, i, [at |-> 0, ok |-> ok], TRUE)
      BY <2>2 DEF Build
    <3>2. [at |-> 0, ok |-> ok] \in Rows
      BY DEF Rows
    <3>. QED BY <3>1, <3>2, TakesTyped DEF TypeInv
  <2>. QED BY <2>1, <2>2
<1>. QED BY <1>1, <1>2 DEF TypeInv, WorldTyped, TaskOK, IsTask, Core!SolrTypeOK

-----------------------------------------------------------------------------
(* The steps of the task.                                                  *)

\* The documents of a batch: the indexable rows of it, as they are.
LEMMA DocumentsOf ==
    ASSUME NEW ids \in SUBSET Ids, IsFiniteSet(ids)
    PROVE  /\ \E n \in Nat : DOMAIN Documents(ids) = 1 .. n
           /\ Documents(ids) = [n \in DOMAIN Documents(ids) |->
                   [id |-> Documents(ids)[n].id, at |-> db[Documents(ids)[n].id].at]]
           /\ \A n \in DOMAIN Documents(ids) :
                  Documents(ids)[n].id \in ids /\ Indexable(db[Documents(ids)[n].id])
           /\ \A i \in ids : Indexable(db[i]) =>
                  \E n \in DOMAIN Documents(ids) : Documents(ids)[n].id = i
<1> DEFINE S == {i \in ids : Indexable(db[i])}
           list == SetToSeq(S)
           docs == Documents(ids)
<1>1. IsFiniteSet(S)
  BY FS_Subset
<1> HIDE DEF S
<1>2. ExistsBijection(1 .. Cardinality(S), S) /\ Cardinality(S) \in Nat
  BY <1>1, FS_CardinalityType
<1>3. \E f \in [1 .. Cardinality(S) -> S] : IsInjective(f)
  BY <1>2 DEF ExistsBijection, Bijection, Injection, IsInjective
<1>4. list \in [1 .. Cardinality(S) -> S] /\ IsInjective(list)
  BY <1>3 DEF SetToSeq
<1> HIDE DEF list
<1>5. list \in Surjection(1 .. Cardinality(S), S)
  <2>1. list \in Injection(1 .. Cardinality(S), S)
    BY <1>4 DEF Injection, IsInjective
  <2>2. IsFiniteSet(1 .. Cardinality(S)) /\ Cardinality(1 .. Cardinality(S)) = Cardinality(S)
    BY <1>2, FS_Interval
  <2>. QED BY <1>1, <2>1, <2>2, FS_Injection
<1>6. docs = [n \in DOMAIN list |-> [id |-> list[n], at |-> db[list[n]].at]]
  BY DEF Documents, S, list
<1> HIDE DEF docs
<1>7. DOMAIN docs = 1 .. Cardinality(S)
      /\ \A n \in DOMAIN docs : docs[n] = [id |-> list[n], at |-> db[list[n]].at]
  BY <1>4, <1>6
<1>8. \A n \in DOMAIN docs : docs[n].id = list[n] /\ list[n] \in S
  BY <1>4, <1>7
<1>9. \A i \in S : \E n \in DOMAIN docs : docs[n].id = i
  BY <1>5, <1>7, <1>8 DEF Surjection
<1>10. docs = [n \in DOMAIN docs |-> [id |-> docs[n].id, at |-> db[docs[n].id].at]]
  BY <1>6, <1>7, <1>8
<1>. QED BY <1>2, <1>7, <1>8, <1>9, <1>10 DEF S, docs

LEMMA BatchTyped ==
    ASSUME db \in [Ids -> Rows], NEW ids \in SUBSET Ids, IsFiniteSet(ids),
           \A i \in ids : Exists(db[i])
    PROVE  Documents(ids) \in Seq(Core!Docs)
<1> DEFINE docs == Documents(ids)
<1>1. /\ \E n \in Nat : DOMAIN docs = 1 .. n
      /\ docs = [n \in DOMAIN docs |-> [id |-> docs[n].id, at |-> db[docs[n].id].at]]
      /\ \A n \in DOMAIN docs : docs[n].id \in ids
  BY DocumentsOf
<1> HIDE DEF docs
<1>2. \A n \in DOMAIN docs : docs[n] \in Core!Docs
  BY <1>1 DEF Core!Docs, Rows, Exists
<1>. QED BY <1>1, <1>2 DEF docs

LEMMA OverTyped ==
    ASSUME TaskOK(task), NEW job
    PROVE  TaskOK(TaskOver(job))
  BY DEF TaskOver, Resting, TaskOK, IsTask

LEMMA ProceedsTyped ==
    ASSUME TaskOK(task), NEW next, TaskOK(next), NEW outcome, Proceeds(outcome, next)
    PROVE  TaskOK(task')
<1>1. \/ task' = next
      \/ task' = [next EXCEPT !.skipped = TRUE]
      \/ task' = TaskOver("failed")
  BY DEF Proceeds, Does
<1>2. CASE task' = [next EXCEPT !.skipped = TRUE]
  BY <1>2 DEF TaskOK, IsTask
<1>. QED BY <1>1, <1>2, OverTyped

LEMMA StartTyped ==
    ASSUME TypeInv, NEW job, StartTask(job)
    PROVE  TypeInv'
<1>1. /\ run' = [w \in Writers |-> [run[w] EXCEPT !.alone = FALSE]]
      /\ UNCHANGED <<config, db, core, searcher, pending, counted, used, clock, spoilt>>
  BY DEF StartTask, solr, history
<1>2. TaskOK(task')
  <2> DEFINE touched == {run[w].id : w \in {v \in Writers : run[v].pc \in {"in", "callback"}}}
                        \cup {i \in Ids : job = "clean" /\ core[i] # searcher[i]}
  <2>1. touched \subseteq Ids
    BY DEF TypeInv, RunTyped, Sound
  <2>2. task' = [Resting EXCEPT
           !.pc = IF job = "clean" THEN "page" ELSE "wipe", !.job = job, !.page = 1,
           !.touched = touched]
    BY DEF StartTask, Does
  <2> HIDE DEF touched
  <2>. QED BY <2>1, <2>2 DEF TaskOK, IsTask, Resting
<1>3. RunTyped'
  <2>1. ASSUME NEW v \in Writers
        PROVE  Sound(run'[v])
    <3>1. Sound(run[v])
      BY DEF TypeInv, RunTyped
    <3>. QED BY <1>1, <3>1 DEF Sound, Requests
  <2>. QED BY <1>1, <2>1 DEF RunTyped, Sound, Requests, Exists
<1>. QED BY <1>1, <1>2, <1>3 DEF TypeInv, WorldTyped, Core!SolrTypeOK, TaskOK, IsTask

LEMMA RebuildTyped ==
    ASSUME TypeInv, NEW o, Wipe(o) \/ SendBatch(o) \/ CommitBatch(o) \/ EndReindex(o)
    PROVE  TypeInv'
<1>1. UNCHANGED <<config, db, run, used, clock, spoilt>>
  BY DEF Wipe, SendBatch, CommitBatch, EndReindex, TaskCommits, history
<1>2. Core!SolrTypeOK'
  <2>1. \/ UNCHANGED <<core, searcher, pending>>
        \/ Core!SolrDelete(Task, Ids)
        \/ Core!SolrAdd(Task, task.batch)
        \/ Core!SolrCommit
    BY DEF Wipe, SendBatch, CommitBatch, EndReindex, TaskCommits, Sends, solr
  <2>2. CASE UNCHANGED <<core, searcher, pending>>
    BY <2>2 DEF TypeInv, Core!SolrTypeOK
  <2>. QED BY <2>1, <2>2, AddTyped, DeleteTyped, PublishTyped DEF TypeInv, TaskOK
<1>3. counted' \in [Sessions -> SUBSET {"add", "delete"}]
  BY DEF Wipe, SendBatch, CommitBatch, EndReindex, TaskCommits, Sends, TypeInv, WorldTyped
<1>4. TaskOK(task')
  <2> DEFINE nexts == {[task EXCEPT !.pc = "read"], TaskOver("rake"),
                       [task EXCEPT !.pc = "commit", !.batch = << >>],
                       [task EXCEPT !.pc = "read", !.batch = << >>]}
  <2>1. task' = TaskOver("reindex") \/ \E next \in nexts : Proceeds(o, next)
    BY DEF Wipe, SendBatch, CommitBatch, EndReindex, TaskCommits, Does
  <2>2. \A next \in nexts : TaskOK(next)
    <3>1. \A pc \in {"read", "commit"} : TaskOK([task EXCEPT !.pc = pc, !.batch = << >>])
      BY DEF TypeInv, TaskOK, IsTask
    <3>2. TaskOK([task EXCEPT !.pc = "read"])
      BY DEF TypeInv, TaskOK, IsTask
    <3>. QED BY <3>1, <3>2, OverTyped DEF TypeInv
  <2> HIDE DEF nexts
  <2>. QED BY <2>1, <2>2, OverTyped, ProceedsTyped DEF TypeInv
<1>. QED BY <1>1, <1>2, <1>3, <1>4 DEF TypeInv, WorldTyped, RunTyped, Sound, Requests, Exists

LEMMA ReadTyped ==
    ASSUME IsFiniteSet(Ids), TypeInv, ReadBatch
    PROVE  TypeInv'
<1> DEFINE ids == NextRows(task.last)
           list == Documents(ids)
<1>1. /\ UNCHANGED <<config, db, core, searcher, pending, counted, run, used, clock, spoilt>>
      /\ \/ task' = [task EXCEPT !.pc = "last"]
         \/ task' = [task EXCEPT !.pc = "send", !.batch = list,
                                 !.last = CHOOSE i \in ids : \A j \in ids : j <= i]
  BY DEF ReadBatch, Does, solr, history
<1>2. ids \in SUBSET Ids /\ \A i \in ids : Exists(db[i])
  BY DEF NextRows
<1>3. IsFiniteSet(ids)
  BY <1>2, FS_Subset
<1> HIDE DEF ids
<1>4. list \in Seq(Core!Docs)
  BY <1>2, <1>3, BatchTyped DEF TypeInv, WorldTyped
<1> HIDE DEF list
<1>5. TaskOK(task')
  BY <1>1, <1>4 DEF TypeInv, TaskOK, IsTask
<1>. QED BY <1>1, <1>5 DEF TypeInv, WorldTyped, Core!SolrTypeOK, RunTyped, Sound, Requests, Exists

LEMMA CleaningTyped ==
    ASSUME TypeInv, \/ ReadPage \/ SelectOrphans \/ EndClean \/ TaskKilled
                    \/ \E i \in Ids, o \in Outcomes : RemoveOrphan(i, o)
    PROVE  TypeInv'
<1>1. UNCHANGED <<config, db, run, used, clock, spoilt>>
  BY DEF ReadPage, SelectOrphans, EndClean, TaskKilled, RemoveOrphan, history
<1>2. Core!SolrTypeOK' /\ counted' \in [Sessions -> SUBSET {"add", "delete"}]
  <2>1. CASE ReadPage \/ SelectOrphans \/ EndClean \/ TaskKilled
    BY <2>1 DEF ReadPage, SelectOrphans, EndClean, TaskKilled, solr, TypeInv, WorldTyped,
                Core!SolrTypeOK
  <2>2. ASSUME NEW i \in Ids, NEW o, RemoveOrphan(i, o)
        PROVE  Core!SolrTypeOK' /\ counted' \in [Sessions -> SUBSET {"add", "delete"}]
    <3>1. /\ counted' = [counted EXCEPT ![Task] = @ \cup {"delete"}]
          /\ UNCHANGED <<core, searcher, pending>> \/ Core!SolrDelete(Task, {i})
      BY <2>2 DEF RemoveOrphan, Sends, solr
    <3>2. CASE UNCHANGED <<core, searcher, pending>>
      BY <3>1, <3>2 DEF TypeInv, WorldTyped, Core!SolrTypeOK
    <3>3. CASE Core!SolrDelete(Task, {i})
      BY <3>1, <3>3, DeleteTyped DEF TypeInv, WorldTyped
    <3>. QED BY <3>1, <3>2, <3>3
  <2>. QED BY <2>1, <2>2
<1>3. TaskOK(task')
  <2>1. CASE ReadPage
    <3> DEFINE page == PageOf(task.page)
    <3>1. page \subseteq Ids
      BY DEF PageOf, Published
    <3>2. task' = [task EXCEPT
             !.pc = IF page = {} THEN "select" ELSE "page",
             !.page = @ + 1, !.found = @ \cup page,
             !.shown = IF task.page = 1 THEN Published ELSE @,
             !.skipped = @ \/ (task.page > 1 /\ Published # task.shown)]
      BY <2>1 DEF ReadPage, Does
    <3> HIDE DEF page
    <3>. QED BY <3>1, <3>2 DEF TypeInv, TaskOK, IsTask
  <2>2. CASE SelectOrphans
    BY <2>2 DEF SelectOrphans, Does, TypeInv, TaskOK, IsTask
  <2>3. CASE EndClean \/ TaskKilled
    BY <2>3, OverTyped DEF EndClean, TaskKilled, Does, TypeInv
  <2>4. ASSUME NEW i \in Ids, NEW o, RemoveOrphan(i, o)
        PROVE  TaskOK(task')
    <3>1. task' = [task EXCEPT !.found = @ \ {i}] \/ task' = TaskOver("failed")
      BY <2>4 DEF RemoveOrphan, Does
    <3>2. CASE task' = [task EXCEPT !.found = @ \ {i}]
      BY <3>2 DEF TypeInv, TaskOK, IsTask
    <3>. QED BY <3>1, <3>2, OverTyped DEF TypeInv
  <2>. QED BY <2>1, <2>2, <2>3, <2>4
<1>. QED BY <1>1, <1>2, <1>3 DEF TypeInv, WorldTyped, RunTyped, Sound, Requests, Exists

-----------------------------------------------------------------------------
(* The invariant.                                                          *)

LEMMA TypeStep ==
    ASSUME IsFiniteSet(Ids), TypeInv, [Next]_vars
    PROVE  TypeInv'
<1>1. ASSUME NEW w \in Writers, Writer(w)
      PROVE  TypeInv'
  BY <1>1, BeginTyped, SaveTyped, DestroyTyped, CallbackTyped, CommitTyped, EndTyped DEF Writer
<1>2. ASSUME TaskStep
      PROVE  TypeInv'
  BY <1>2, StartTyped, RebuildTyped, ReadTyped, CleaningTyped DEF TaskStep
<1>3. CASE UNCHANGED vars
  BY <1>3 DEF vars, solr, history, TypeInv, WorldTyped, Core!SolrTypeOK, RunTyped, Sound, Requests,
              Exists, TaskOK, IsTask
<1>. QED BY <1>1, <1>2, <1>3 DEF Next

LEMMA TypeStart == Init => TypeInv
<1> SUFFICES ASSUME Init PROVE TypeInv
  OBVIOUS
<1>1. WorldTyped
  <2>1. db \in [Ids -> Rows]
    <3>1. NoRow \in Rows /\ [at |-> 1, ok |-> TRUE] \in Rows
      BY DEF NoRow, Rows
    <3>. QED BY <3>1 DEF Init
  <2>2. counted \in [Sessions -> SUBSET {"add", "delete"}]
    BY DEF Init
  <2>. QED BY <2>1, <2>2 DEF Init, WorldTyped
<1>2. Core!SolrTypeOK
  BY <1>1 DEF Init, Core!SolrTypeOK, Expected, WorldTyped, Rows
<1>3. RunTyped
  BY IdleSound DEF Init, RunTyped
<1>4. TaskOK(task)
  BY DEF Init, TaskOK, IsTask, Resting
<1>. QED BY <1>1, <1>2, <1>3, <1>4 DEF TypeInv

LEMMA TypeInductive == IsFiniteSet(Ids) => (Spec => []TypeInv)
<1> SUFFICES ASSUME IsFiniteSet(Ids) PROVE Spec => []TypeInv
  OBVIOUS
<1>. QED BY TypeStart, TypeStep, PTL DEF Spec

\* Every state is well formed, for any number of writers and rows: a record
\* that is being used has an id, and is new or has a version; documents have
\* ids and versions.
THEOREM TypeCorrect == IsFiniteSet(Ids) => (Spec => []TypeOK)
<1> SUFFICES ASSUME IsFiniteSet(Ids) PROVE Spec => []TypeOK
  OBVIOUS
<1>. QED BY TypeInductive, TypeEnough, PTL

-----------------------------------------------------------------------------
(* What the steps of a writer make of its record.                          *)

LEMMA SaveShape ==
    ASSUME TypeInv, NEW w \in Writers, NEW change, Save(w, change)
    PROVE  /\ run[w].pc \in {"out", "in"} /\ run[w].id \in Ids /\ run[w].gone = FALSE
           /\ run' = [run EXCEPT ![w] = run'[w]]
           /\ run'[w].id = run[w].id
           /\ run'[w].obj = Changed(run[w].obj, change)
           /\ run'[w].new = FALSE
           /\ run'[w].gone = FALSE
           /\ run'[w].marks = Marks(run[w].new, run'[w].obj, change)
           /\ run'[w].draft = IF run[w].new THEN run'[w].obj
                              ELSE Updated(RowOf(w), run'[w].obj, change)
           /\ run'[w].wrote = TRUE
           /\ run'[w].pc = IF config.after = "save" /\ run'[w].marks # {} THEN "callback" ELSE "in"
           /\ run'[w].due => (run[w].pc = "in" /\ run[w].due) \/ run'[w].marks # {}
           /\ run[w].pc = "in" /\ run[w].failed => run'[w].failed
           /\ run'[w].alone = run[w].alone
           /\ run'[w].marks # {} /\ run'[w].draft # run'[w].obj => run[w].id \in spoilt'
<1> DEFINE r == Opened(w)
           obj == Changed(r.obj, change)
           row == IF r.new THEN obj ELSE Updated(RowOf(w), obj, change)
           marks == Marks(r.new, obj, change)
           q == [r EXCEPT
               !.pc = IF config.after = "save" /\ marks # {} THEN "callback" ELSE "in",
               !.obj = obj, !.new = FALSE, !.marks = marks,
               !.draft = row, !.wrote = TRUE, !.due = @ \/ marks # {}]
<1>1. /\ r.pc = "in" /\ ~r.gone /\ run' = [run EXCEPT ![w] = q]
      /\ marks # {} /\ row # obj => r.id \in spoilt'
  BY DEF Save, Becomes
<1>2. Sound(run[w]) /\ run = [v \in Writers |-> run[v]]
  BY DEF TypeInv, RunTyped
<1>3. /\ r \in Requests /\ r.id = run[w].id /\ r.id \in Ids /\ r.obj = run[w].obj
      /\ r.new = run[w].new
  BY <1>1, <1>2, OpenedTyped
<1>4. /\ run[w].pc \in {"out", "in"} /\ r.gone = run[w].gone /\ r.alone = run[w].alone
      /\ r.due = (run[w].pc = "in" /\ run[w].due)
      /\ r.failed = (run[w].pc = "in" /\ run[w].failed)
  BY <1>1, <1>2 DEF Opened, Sound, Requests
<1> HIDE DEF r
<1>5. /\ r.gone = FALSE /\ r.due \in BOOLEAN /\ r.failed \in BOOLEAN
  BY <1>1, <1>3 DEF Requests
<1>6. run'[w] = q
  BY <1>1, <1>2
<1>7. obj = Changed(run[w].obj, change) /\ marks = Marks(run[w].new, obj, change)
      /\ row = IF run[w].new THEN obj ELSE Updated(RowOf(w), obj, change)
  BY <1>3
<1> HIDE DEF obj, row, marks
<1>8. /\ q.id = r.id /\ q.obj = obj /\ q.new = FALSE /\ q.gone = FALSE /\ q.marks = marks
      /\ q.draft = row /\ q.wrote = TRUE
      /\ q.pc = IF config.after = "save" /\ marks # {} THEN "callback" ELSE "in"
      /\ q.due = (r.due \/ marks # {})
      /\ q.failed = r.failed /\ q.alone = r.alone
  BY <1>3, <1>5 DEF Requests
<1> HIDE DEF q
<1>9. run' = [run EXCEPT ![w] = run'[w]]
  BY <1>1, <1>6
<1>10. run'[w].marks # {} /\ run'[w].draft # run'[w].obj => run[w].id \in spoilt'
  BY <1>1, <1>3, <1>6, <1>8
<1>11. /\ run'[w].due => (run[w].pc = "in" /\ run[w].due) \/ run'[w].marks # {}
       /\ run[w].pc = "in" /\ run[w].failed => run'[w].failed
  BY <1>4, <1>5, <1>6, <1>8
<1>. QED BY <1>3, <1>4, <1>5, <1>6, <1>7, <1>8, <1>9, <1>10, <1>11

LEMMA DestroyShape ==
    ASSUME TypeInv, NEW w \in Writers, Destroy(w)
    PROVE  /\ run[w].pc \in {"out", "in"} /\ run[w].id \in Ids /\ run[w].new = FALSE
           /\ run' = [run EXCEPT ![w] = run'[w]]
           /\ run'[w].id = run[w].id
           /\ run'[w].obj = run[w].obj
           /\ run'[w].new = FALSE
           /\ run'[w].gone = TRUE
           /\ run'[w].draft = NoRow
           /\ run'[w].wrote = TRUE
           /\ run'[w].pc = IF config.after = "save" THEN "callback" ELSE "in"
           /\ run'[w].alone = run[w].alone
<1> DEFINE r == Opened(w)
           q == [r EXCEPT !.pc = IF config.after = "save" THEN "callback" ELSE "in",
                          !.gone = TRUE, !.draft = NoRow, !.wrote = TRUE, !.due = TRUE]
<1>1. r.pc = "in" /\ ~r.new /\ run' = [run EXCEPT ![w] = q]
  BY DEF Destroy, Becomes
<1>2. Sound(run[w]) /\ run = [v \in Writers |-> run[v]]
  BY DEF TypeInv, RunTyped
<1>3. /\ r \in Requests /\ r.id = run[w].id /\ r.id \in Ids /\ r.obj = run[w].obj
      /\ r.new = run[w].new
  BY <1>1, <1>2, OpenedTyped
<1>4. run[w].pc \in {"out", "in"} /\ r.alone = run[w].alone
  BY <1>1, <1>2 DEF Opened, Sound, Requests
<1> HIDE DEF r
<1>5. r.new = FALSE
  BY <1>1, <1>3 DEF Requests
<1>6. run'[w] = q
  BY <1>1, <1>2
<1>7. /\ q.id = r.id /\ q.obj = r.obj /\ q.new = FALSE /\ q.gone = TRUE /\ q.draft = NoRow
      /\ q.wrote = TRUE /\ q.alone = r.alone
      /\ q.pc = IF config.after = "save" THEN "callback" ELSE "in"
  BY <1>3, <1>5 DEF Requests
<1> HIDE DEF q
<1>8. run' = [run EXCEPT ![w] = run'[w]]
  BY <1>1, <1>6
<1>. QED BY <1>3, <1>4, <1>5, <1>6, <1>7, <1>8

\* A callback leaves the record as it is, or rolls its transaction back.
LEMMA CallbackShape ==
    ASSUME TypeInv, NEW w \in Writers, NEW outcome, Callback(w, outcome)
    PROVE  /\ run[w].pc = "callback" /\ run[w].id \in Ids /\ run[w].new = FALSE
           /\ run' = [run EXCEPT ![w] = run'[w]]
           /\ \/ /\ run'[w].pc = IF config.after = "save" THEN "in" ELSE "out"
                 /\ run'[w].id = run[w].id /\ run'[w].obj = run[w].obj
                 /\ run'[w].new = FALSE /\ run'[w].gone = run[w].gone
                 /\ run'[w].draft = run[w].draft /\ run'[w].wrote = run[w].wrote
                 /\ run'[w].marks \subseteq run[w].marks
                 /\ run'[w].alone = run[w].alone /\ run'[w].due = run[w].due
                 /\ outcome # "ok" => run'[w].failed = TRUE
              \/ outcome # "ok" /\ run'[w].pc = "over" /\ run'[w].alone = FALSE
                 /\ run'[w].new = FALSE /\ run'[w].id = 0
<1> DEFINE r == run[w]
           back == IF config.after = "save" THEN "in" ELSE "out"
           failed == [r EXCEPT !.failed = TRUE]
<1>1. /\ r.pc = "callback" /\ Sound(r) /\ run = [v \in Writers |-> run[v]]
      /\ \/ outcome = "ok" /\ run' = [run EXCEPT ![w] = [Unmarked(r) EXCEPT !.pc = back]]
         \/ outcome # "ok" /\ run' = [run EXCEPT ![w] = [failed EXCEPT !.pc = back]]
         \/ outcome # "ok" /\ run' = [run EXCEPT ![w] = RolledBack(failed)]
  <2>1. config.after = "save" \/ config.after = "commit"
    BY ConfigsAssumption DEF TypeInv, WorldTyped
  <2>2. r.pc = "callback" /\ Sound(r) /\ run = [v \in Writers |-> run[v]]
    BY DEF Callback, TypeInv, RunTyped
  <2>3. CASE outcome = "ok"
    BY <2>2, <2>3 DEF Callback, Becomes
  <2>4. CASE outcome # "ok"
    <3>1. CallbackRaises(w)
      BY <2>4 DEF Callback
    <3>. QED BY <2>1, <2>2, <2>4, <3>1 DEF CallbackRaises, Becomes
  <2>. QED BY <2>2, <2>3, <2>4
<1>2. r \in Requests /\ r.id \in Ids /\ r.new = FALSE
  BY <1>1 DEF Sound, Requests
<1>3. CASE outcome = "ok" /\ run' = [run EXCEPT ![w] = [Unmarked(r) EXCEPT !.pc = back]]
  <2> DEFINE q == [Unmarked(r) EXCEPT !.pc = back]
  <2>1. run'[w] = q
    BY <1>1, <1>3
  <2> HIDE DEF r, back
  <2>2. /\ q.pc = back /\ q.id = r.id /\ q.obj = r.obj /\ q.new = r.new /\ q.gone = r.gone
        /\ q.draft = r.draft /\ q.wrote = r.wrote /\ q.marks \subseteq r.marks
        /\ q.alone = r.alone /\ q.due = r.due
    BY <1>2 DEF Unmarked, Requests
  <2> HIDE DEF q
  <2>. QED BY <1>1, <1>2, <1>3, <2>1, <2>2 DEF r, back, q
<1>4. CASE outcome # "ok" /\ run' = [run EXCEPT ![w] = [failed EXCEPT !.pc = back]]
  <2> DEFINE q == [failed EXCEPT !.pc = back]
  <2>1. run'[w] = q
    BY <1>1, <1>4
  <2> HIDE DEF r, back
  <2>2. /\ q.pc = back /\ q.id = r.id /\ q.obj = r.obj /\ q.new = r.new /\ q.gone = r.gone
        /\ q.draft = r.draft /\ q.wrote = r.wrote /\ q.marks = r.marks
        /\ q.alone = r.alone /\ q.due = r.due /\ q.failed = TRUE
    BY <1>2 DEF Requests
  <2> HIDE DEF q
  <2>. QED BY <1>1, <1>2, <1>4, <2>1, <2>2 DEF r, back, q
<1>5. CASE outcome # "ok" /\ run' = [run EXCEPT ![w] = RolledBack(failed)]
  <2>1. run'[w] = RolledBack(failed)
    BY <1>1, <1>5
  <2>2. /\ RolledBack(failed).pc = "over" /\ RolledBack(failed).alone = FALSE
        /\ RolledBack(failed).new = FALSE /\ RolledBack(failed).id = 0
    BY DEF RolledBack, Idle
  <2> HIDE DEF failed
  <2>. QED BY <1>1, <1>2, <1>5, <2>1, <2>2
<1>. QED BY <1>1, <1>3, <1>4, <1>5

LEMMA CommitShape ==
    ASSUME TypeInv, NEW w \in Writers, CommitTransaction(w)
    PROVE  /\ run[w].pc = "in" /\ run[w].id \in Ids /\ run[w].new = FALSE
           /\ run' = [run EXCEPT ![w] = run'[w]]
           /\ run'[w].id = run[w].id /\ run'[w].obj = run[w].obj
           /\ run'[w].new = FALSE /\ run'[w].gone = run[w].gone
           /\ run'[w].draft = run[w].draft /\ run'[w].wrote = FALSE
           /\ run'[w].marks = run[w].marks
           /\ run'[w].alone = run[w].alone /\ run'[w].due = run[w].due
           /\ run'[w].failed = run[w].failed
           /\ run'[w].pc \in {"out", "callback"}
           /\ run'[w].pc = "callback" =>
                config.after = "commit" /\ (run[w].gone \/ run[w].marks # {})
           /\ run'[w].pc = "out" =>
                \/ config.after = "save" \/ (~run[w].gone /\ run[w].marks = {})
                \/ ~run[w].gone /\ ~Exists(run[w].draft)
<1> DEFINE r == run[w]
<1>1. /\ r.pc = "in" /\ Sound(r) /\ run = [v \in Writers |-> run[v]] /\ config \in Configs
  BY DEF CommitTransaction, TypeInv, RunTyped, WorldTyped
<1>2. r \in Requests /\ r.id \in Ids /\ r.new = FALSE
  BY <1>1 DEF Sound, Requests
<1>3. PICK runs \in BOOLEAN :
         /\ run' = [run EXCEPT ![w] = Committed(r, runs)]
         /\ runs = FALSE => ~r.gone /\ ~Exists(r.draft)
  BY DEF CommitTransaction, Becomes
<1> DEFINE acts == config.after = "commit" /\ runs /\ (r.gone \/ r.marks # {})
           q == [r EXCEPT !.pc = IF acts THEN "callback" ELSE "out", !.wrote = FALSE]
<1>4. run'[w] = q /\ run' = [run EXCEPT ![w] = run'[w]]
  BY <1>1, <1>3 DEF Committed
<1>5. config.after = "save" \/ config.after = "commit"
  BY <1>1, ConfigsAssumption
<1> HIDE DEF r, acts
<1>6. /\ q.pc = IF acts THEN "callback" ELSE "out"
      /\ q.id = r.id /\ q.obj = r.obj /\ q.new = r.new /\ q.gone = r.gone /\ q.draft = r.draft
      /\ q.wrote = FALSE /\ q.marks = r.marks /\ q.alone = r.alone /\ q.due = r.due
      /\ q.failed = r.failed
  BY <1>2 DEF Requests
<1> HIDE DEF q
<1>. QED BY <1>1, <1>2, <1>3, <1>4, <1>5, <1>6 DEF r, acts

\* A writer takes a record: of the others only alone may change.
LEMMA TakesShape ==
    ASSUME TypeInv, NEW w \in Writers, NEW i \in Ids, NEW obj, NEW new, Takes(w, i, obj, new)
    PROVE  /\ run' = [v \in Writers |-> run'[v]]
           /\ run'[w].pc = "out" /\ run'[w].id = i /\ run'[w].obj = obj /\ run'[w].new = new
           /\ run'[w].gone = FALSE /\ run'[w].wrote = FALSE /\ run'[w].due = FALSE
           /\ run'[w].alone => task.pc = "idle" /\ \A v \in Writers \ {w} : run[v].id # i
           /\ \A v \in Writers \ {w} : run'[v] \in {run[v], [run[v] EXCEPT !.alone = FALSE]}
           /\ \A v \in Writers \ {w} : run[v].id = i => ~run'[v].alone
<1> DEFINE alone == task.pc = "idle" /\ \A v \in Writers \ {w} : run[v].id # i
           q == [Idle("orderly") EXCEPT !.pc = "out", !.id = i, !.obj = obj,
                                        !.new = new, !.alone = alone]
<1>1. run' = [Shared(w, i) EXCEPT ![w] = q]
  BY DEF Takes
<1>2. /\ q.pc = "out" /\ q.id = i /\ q.obj = obj /\ q.new = new /\ q.gone = FALSE
      /\ q.wrote = FALSE /\ q.due = FALSE /\ q.alone = alone
  <2> HIDE DEF alone
  <2>. QED BY DEF Idle
<1> HIDE DEF q
<1>3. run'[w] = q /\ run' = [v \in Writers |-> run'[v]]
  BY <1>1 DEF Shared
<1>4. ASSUME NEW v \in Writers \ {w}
      PROVE  /\ run'[v] \in {run[v], [run[v] EXCEPT !.alone = FALSE]}
             /\ run[v].id = i => ~run'[v].alone
  <2>1. run'[v] = IF run[v].id = i THEN [run[v] EXCEPT !.alone = FALSE] ELSE run[v]
    BY <1>1 DEF Shared
  <2>2. Sound(run[v])
    BY DEF TypeInv, RunTyped
  <2>. QED BY <2>1, <2>2 DEF Sound, Requests
<1>. QED BY <1>2, <1>3, <1>4

-----------------------------------------------------------------------------
(* What a request changed is published when one ends in an orderly way.    *)

\* Of what Solr applied for a thread and nobody published, the counters of its
\* session know, and they are empty of it after an orderly end.
PublishedFor(w) ==
    /\ pending[w] \subseteq counted[w]
    /\ run[w].pc = "idle" /\ run[w].ended = "orderly" => pending[w] \cap Trigger = {}

PublishInv == \A w \in Writers \ refused : PublishedFor(w)

\* What a step may do to the thread of another.
LeavesAlone(v) ==
    /\ run'[v].pc = run[v].pc /\ run'[v].ended = run[v].ended
    /\ counted'[v] = counted[v]
    /\ pending'[v] \subseteq pending[v]

LEMMA LeftAlone ==
    ASSUME config' = config, NEW v, PublishedFor(v), LeavesAlone(v)
    PROVE  PublishedFor(v)'
  BY DEF PublishedFor, LeavesAlone, Trigger

\* A request for session s.
LEMMA RequestLeaves ==
    ASSUME TypeInv, NEW s \in Sessions, NEW docs, NEW ids,
           \/ UNCHANGED <<core, searcher, pending>> \/ Core!SolrAdd(s, docs)
           \/ Core!SolrDelete(s, ids) \/ Core!SolrCommit
    PROVE  \A v \in Sessions \ {s} : pending'[v] \subseteq pending[v]
  BY DEF TypeInv, Core!SolrTypeOK, Core!SolrAdd, Core!SolrDelete, Core!SolrCommit

LEMMA WriterLeaves ==
    ASSUME TypeInv, NEW w \in Writers, Writer(w), NEW v \in Writers \ {w}
    PROVE  LeavesAlone(v)
<1>1. w \in Sessions /\ v \in Sessions /\ v # w
  BY DEF Sessions
<1>2. Sound(run[v]) /\ run = [u \in Writers |-> run[u]]
      /\ counted \in [Sessions -> SUBSET {"add", "delete"}]
  BY DEF TypeInv, RunTyped, WorldTyped
<1>3. run'[v].pc = run[v].pc /\ run'[v].ended = run[v].ended
  <2>1. run'[v] \in {run[v], [run[v] EXCEPT !.alone = FALSE]}
    <3>1. ASSUME NEW q, Becomes(w, q)
          PROVE  run'[v] = run[v]
      BY <1>1, <1>2, <3>1 DEF Becomes
    <3>2. ASSUME NEW i \in Ids, NEW obj, NEW new, Takes(w, i, obj, new)
          PROVE  run'[v] \in {run[v], [run[v] EXCEPT !.alone = FALSE]}
      BY <3>2, TakesShape
    <3>3. CASE \E i \in Ids : Load(w, i)
      BY <3>2, <3>3 DEF Load
    <3>4. CASE \E i \in Ids : Build(w, i)
      BY <3>2, <3>4 DEF Build
    <3>5. CASE \E change \in (SUBSET Columns) \ {{}} : Save(w, change)
      BY <3>1, <3>5 DEF Save
    <3>6. CASE Destroy(w)
      BY <3>1, <3>6 DEF Destroy
    <3>7. CASE \E o \in Outcomes : Callback(w, o)
      BY <3>1, <3>7 DEF Callback, CallbackRaises
    <3>8. CASE CommitTransaction(w)
      BY <3>1, <3>8 DEF CommitTransaction
    <3>9. CASE Rollback(w) \/ ActionRaises(w) \/ \E o \in Outcomes : EndRequest(w, o)
      BY <3>1, <3>9 DEF Rollback, ActionRaises, EndRequest
    <3>. QED BY <3>3, <3>4, <3>5, <3>6, <3>7, <3>8, <3>9 DEF Writer
  <2>. QED BY <1>2, <2>1 DEF Sound, Requests
<1>4. counted'[v] = counted[v] /\ pending'[v] \subseteq pending[v]
  <2>1. CASE UNCHANGED <<solr, counted>>
    BY <2>1 DEF solr
  <2>2. ASSUME NEW o, Callback(w, o)
        PROVE  counted'[v] = counted[v] /\ pending'[v] \subseteq pending[v]
    <3>1. PICK kinds : counted' = [counted EXCEPT ![w] = @ \cup kinds]
      BY <2>2 DEF Callback, Sends
    <3>2. \/ UNCHANGED <<core, searcher, pending>>
          \/ Core!SolrAdd(w, <<[id |-> run[w].id, at |-> run[w].obj.at]>>)
          \/ Core!SolrDelete(w, {run[w].id})
      BY <2>2 DEF Callback, Sends, solr
    <3>3. pending'[v] \subseteq pending[v]
      BY <1>1, <3>2, RequestLeaves
    <3>. QED BY <1>1, <1>2, <3>1, <3>3
  <2>3. ASSUME NEW o, EndRequest(w, o)
        PROVE  counted'[v] = counted[v] /\ pending'[v] \subseteq pending[v]
    <3>1. counted' \in {counted, [counted EXCEPT ![w] = {}]}
      BY <2>3 DEF EndRequest
    <3>2. UNCHANGED <<core, searcher, pending>> \/ Core!SolrCommit
      BY <2>3 DEF EndRequest, solr
    <3>3. pending'[v] \subseteq pending[v]
      BY <1>1, <3>2, RequestLeaves
    <3>. QED BY <1>1, <1>2, <3>1, <3>3
  <2>4. \/ UNCHANGED <<solr, counted>>
        \/ \E o \in Outcomes : Callback(w, o) \/ EndRequest(w, o)
    BY DEF Writer, Load, Build, Save, Destroy, CommitTransaction, Rollback, ActionRaises
  <2>. QED BY <2>1, <2>2, <2>3, <2>4
<1>. QED BY <1>3, <1>4 DEF LeavesAlone

LEMMA TaskLeaves ==
    ASSUME TypeInv, TaskStep, NEW v \in Writers
    PROVE  LeavesAlone(v)
<1>1. Task \in Sessions /\ v \in Sessions /\ v # Task
  BY NamesAssumption DEF Sessions
<1>2. Sound(run[v]) /\ run = [u \in Writers |-> run[u]]
      /\ counted \in [Sessions -> SUBSET {"add", "delete"}]
  BY DEF TypeInv, RunTyped, WorldTyped
<1>3. run'[v].pc = run[v].pc /\ run'[v].ended = run[v].ended
  <2>1. run'[v] \in {run[v], [run[v] EXCEPT !.alone = FALSE]}
    BY DEF TaskStep, StartTask, Wipe, SendBatch, CommitBatch, EndReindex, RemoveOrphan,
           ReadBatch, ReadPage, SelectOrphans, EndClean, TaskKilled, TaskCommits
  <2>. QED BY <1>2, <2>1 DEF Sound, Requests
<1>4. \/ counted' = counted
      \/ counted' = [counted EXCEPT ![Task] = {}]
      \/ \E kinds : counted' = [counted EXCEPT ![Task] = @ \cup kinds]
  BY DEF TaskStep, StartTask, Wipe, SendBatch, CommitBatch, EndReindex, RemoveOrphan,
         ReadBatch, ReadPage, SelectOrphans, EndClean, TaskKilled, TaskCommits, Sends
<1>5. \/ UNCHANGED <<core, searcher, pending>> \/ Core!SolrAdd(Task, task.batch)
      \/ \E ids : Core!SolrDelete(Task, ids)
      \/ Core!SolrCommit
  BY DEF TaskStep, StartTask, Wipe, SendBatch, CommitBatch, EndReindex, RemoveOrphan,
         ReadBatch, ReadPage, SelectOrphans, EndClean, TaskKilled, TaskCommits, Sends, solr
<1>6. pending'[v] \subseteq pending[v]
  BY <1>1, <1>5, RequestLeaves
<1>7. counted'[v] = counted[v]
  BY <1>1, <1>2, <1>4
<1>. QED BY <1>3, <1>6, <1>7 DEF LeavesAlone

\* The thread itself.
LEMMA WriterPublishes ==
    ASSUME TypeInv, NEW w \in Writers, Writer(w), PublishedFor(w), w \notin refused'
    PROVE  PublishedFor(w)'
<1>1. w \in Sessions /\ Sound(run[w]) /\ run = [u \in Writers |-> run[u]]
      /\ counted \in [Sessions -> SUBSET {"add", "delete"}]
      /\ pending \in [Sessions -> SUBSET {"add", "delete"}]
  BY DEF Sessions, TypeInv, RunTyped, WorldTyped, Core!SolrTypeOK
<1>2. ASSUME pending'[w] \subseteq counted'[w], run'[w].pc # "idle" \/ run'[w].ended = "raised"
      PROVE  PublishedFor(w)'
  BY <1>2 DEF PublishedFor
<1>3. CASE \E i \in Ids : Load(w, i) \/ Build(w, i)
  <2>1. UNCHANGED <<counted, pending>>
    BY <1>3 DEF Load, Build, solr
  <2>2. ASSUME NEW i \in Ids, NEW obj, NEW new, Takes(w, i, obj, new)
        PROVE  run'[w].pc = "out"
    BY <2>2, TakesShape
  <2>3. run'[w].pc = "out"
    BY <1>3, <2>2 DEF Load, Build
  <2>. QED BY <1>2, <2>1, <2>3 DEF PublishedFor
<1>4. CASE \/ \E change \in (SUBSET Columns) \ {{}} : Save(w, change)
           \/ Destroy(w) \/ CommitTransaction(w) \/ Rollback(w) \/ ActionRaises(w)
  <2>1. UNCHANGED <<counted, pending>>
    BY <1>4 DEF Save, Destroy, CommitTransaction, Rollback, ActionRaises, solr
  <2>2. run'[w].pc # "idle" \/ run'[w].ended = "raised"
    <3>1. CASE \E change \in (SUBSET Columns) \ {{}} : Save(w, change)
      BY <3>1, SaveShape
    <3>2. CASE Destroy(w)
      BY <3>2, DestroyShape
    <3>3. CASE CommitTransaction(w)
      BY <3>3, CommitShape
    <3>4. CASE Rollback(w) \/ ActionRaises(w)
      BY <1>1, <3>4 DEF Rollback, ActionRaises, Becomes, RolledBack, Idle
    <3>. QED BY <1>4, <3>1, <3>2, <3>3, <3>4
  <2>. QED BY <1>2, <2>1, <2>2 DEF PublishedFor
<1>5. ASSUME NEW o, Callback(w, o)
      PROVE  PublishedFor(w)'
  <2>1. pending'[w] \subseteq counted'[w]
    <3>1. CASE Removes(run[w])
      <4>1. counted' = [counted EXCEPT ![w] = @ \cup {"delete"}]
            /\ (UNCHANGED <<core, searcher, pending>> \/ Core!SolrDelete(w, {run[w].id}))
        BY <1>5, <3>1 DEF Callback, Sends, solr
      <4>. QED BY <1>1, <4>1 DEF PublishedFor, Core!SolrDelete
    <3>2. CASE ~Removes(run[w])
      <4>1. counted' = [counted EXCEPT ![w] = @ \cup {"add"}]
            /\ (UNCHANGED <<core, searcher, pending>>
                \/ Core!SolrAdd(w, <<[id |-> run[w].id, at |-> run[w].obj.at]>>))
        BY <1>5, <3>2 DEF Callback, Sends, solr
      <4>. QED BY <1>1, <4>1 DEF PublishedFor, Core!SolrAdd
    <3>. QED BY <3>1, <3>2
  <2>2. run'[w].pc # "idle"
    BY <1>5, CallbackShape
  <2>. QED BY <1>2, <2>1, <2>2
<1>6. ASSUME NEW o, EndRequest(w, o)
      PROVE  PublishedFor(w)'
  <2>1. config' = config /\ run'[w] = Idle(IF o = "ok" THEN "orderly" ELSE "raised")
        /\ o # "refused"
    BY <1>1, <1>6 DEF EndRequest, Becomes
  <2>2. CASE counted[w] \cap Trigger = {}
    <3>1. UNCHANGED <<counted, pending>>
      BY <1>6, <2>2 DEF EndRequest, solr
    <3>. QED BY <2>1, <2>2, <3>1 DEF PublishedFor, Trigger
  <2>3. CASE counted[w] \cap Trigger # {}
    <3>1. pending' = [s \in Sessions |-> {}]
      BY <1>6, <2>1, <2>3 DEF EndRequest, Core!SolrCommit
    <3>. QED BY <1>1, <3>1 DEF PublishedFor
  <2>. QED BY <2>2, <2>3
<1>. QED BY <1>3, <1>4, <1>5, <1>6 DEF Writer

LEMMA PublishStep == TypeInv /\ PublishInv /\ [Next]_vars => PublishInv'
<1> SUFFICES ASSUME TypeInv, PublishInv, [Next]_vars, NEW v \in Writers, v \notin refused'
             PROVE  PublishedFor(v)'
  BY DEF PublishInv
<1>1. CASE UNCHANGED vars
  BY <1>1 DEF vars, solr, history, PublishInv, PublishedFor, Trigger
<1>2. ASSUME NEW w \in Writers, Writer(w)
      PROVE  PublishedFor(v)'
  <2>1. config' = config /\ refused \subseteq refused'
    BY <1>2 DEF Writer, Load, Build, Save, Destroy, Callback, EndRequest, CommitTransaction,
                Rollback, ActionRaises, history
  <2>2. PublishedFor(v)
    BY <2>1 DEF PublishInv
  <2>. QED BY <1>2, <2>1, <2>2, WriterPublishes, WriterLeaves, LeftAlone
<1>3. ASSUME TaskStep
      PROVE  PublishedFor(v)'
  <2>1. config' = config /\ refused' = refused
    BY <1>3 DEF TaskStep, StartTask, Wipe, SendBatch, CommitBatch, EndReindex, RemoveOrphan,
                ReadBatch, ReadPage, SelectOrphans, EndClean, TaskKilled, TaskCommits, history
  <2>2. PublishedFor(v)
    BY <2>1 DEF PublishInv
  <2>. QED BY <1>3, <2>1, <2>2, TaskLeaves, LeftAlone
<1>. QED BY <1>1, <1>2, <1>3 DEF Next

\* request_lifecycle.rb: what a thread's requests changed, those that raised
\* included, is published when the next one ends in an orderly way, unless Solr
\* refused a commit of the thread; for any number of threads, whatever the
\* others and the tasks do.
THEOREM RequestsPublish == IsFiniteSet(Ids) => (Spec => []RequestPublishes)
<1> SUFFICES ASSUME IsFiniteSet(Ids) PROVE Spec => []RequestPublishes
  OBVIOUS
<1>1. Init => PublishInv
  BY DEF Init, PublishInv, PublishedFor, Sessions
<1>2. PublishInv => RequestPublishes
  BY DEF PublishInv, PublishedFor, RequestPublishes
<1>. QED BY <1>1, <1>2, PublishStep, TypeInductive, PTL DEF Spec

-----------------------------------------------------------------------------
(* The index follows a record nobody else has to do with.                  *)

\* Columns that do not trigger an index are not part of the document, and with
\* callbacks after the commit there are none: of several saves in a transaction
\* only the marks of the last are left when it is over.
QuietColumns ==
    \A c \in Configs : c.ignored \subseteq {"other"} /\ (c.after = "commit" => c.ignored = {})

\* For a record r nobody else has to do with, of whose row the open transaction
\* sees row: row is what the record says, and the index follows it, or the
\* callback that is due will make it.
Follows(r, row, indexed, after) ==
    /\ r.pc \in {"out", "in", "callback"}
    /\ r.wrote = (r.pc = "in" \/ (r.pc = "callback" /\ after = "save"))
    /\ ~r.new => row = IF r.gone THEN NoRow ELSE r.obj
    /\ r.pc = "out" /\ r.due /\ ~r.failed => indexed = Expected(row)
    /\ r.pc = "in" /\ after = "save" /\ r.due /\ ~r.failed => indexed = Expected(row)
    /\ r.pc = "in" /\ after = "commit" => Acted(r) = Expected(row) /\ (r.gone \/ r.marks # {})
    /\ r.pc = "callback" => Acted(r) = Expected(row)

AloneFor(w) ==
    /\ task.pc = "idle"
    /\ \A v \in Writers \ {w} : run[v].id # run[w].id
    /\ Follows(run[w], RowOf(w), core[run[w].id], config.after)

AloneInv == \A w \in Writers : run[w].alone => AloneFor(w)

\* The steps of others, and what they leave to a writer that stays alone.
LEMMA StaysAlone ==
    ASSUME NEW w \in Writers, AloneFor(w), run'[w] = run[w], task'.pc = task.pc, config' = config,
           db'[run[w].id] = db[run[w].id], core'[run[w].id] = core[run[w].id],
           \A v \in Writers \ {w} : run'[v].id # run[w].id
    PROVE  AloneFor(w)'
<1>1. RowOf(w)' = RowOf(w)
  BY DEF RowOf
<1>. QED BY <1>1 DEF AloneFor

LEMMA OthersStep ==
    ASSUME TypeInv, AloneInv, NEW w \in Writers, NEW v \in Writers \ {w}, Writer(v), run'[w].alone
    PROVE  AloneFor(w)'
<1>1. /\ Sound(run[w]) /\ \A u \in Writers : Sound(run[u])
      /\ run = [u \in Writers |-> run[u]] /\ DOMAIN db = Ids
  BY DEF TypeInv, RunTyped, WorldTyped
<1>2. run[w].alone \in BOOLEAN /\ run[w].id \in Ids \cup {0} /\ 0 \notin Ids
  BY <1>1, NamesAssumption DEF Sound, Requests
<1> DEFINE Apart == /\ run'[w] = run[w] /\ task'.pc = task.pc /\ config' = config
                    /\ db'[run[w].id] = db[run[w].id] /\ core'[run[w].id] = core[run[w].id]
                    /\ \A u \in Writers \ {w} : run'[u].id # run[w].id
<1>3. SUFFICES ASSUME run[w].alone => /\ AloneFor(w) /\ run[w].id \in Ids
                                      /\ \A u \in Writers \ {w} : run[u].id # run[w].id
               PROVE  run[w].alone /\ Apart
  <2>1. run[w].alone => AloneFor(w)
    BY DEF AloneInv
  <2>2. AloneFor(w) => /\ run[w].id \in Ids
                       /\ \A u \in Writers \ {w} : run[u].id # run[w].id
    BY <1>1 DEF AloneFor, Follows, Sound
  <2>. QED BY <1>3, <2>1, <2>2, StaysAlone
<1>4. ASSUME NEW q, run' = [run EXCEPT ![v] = q], q.id = run[v].id \/ q.id = 0
      PROVE  /\ run'[w] = run[w] /\ run[w].alone
             /\ \A u \in Writers \ {w} : run'[u].id # run[w].id
  <2>1. run'[w] = run[w] /\ run[w].alone
    BY <1>1, <1>4
  <2>. QED BY <1>1, <1>2, <1>3, <1>4, <2>1
<1>5. ASSUME NEW i \in Ids, Load(v, i) \/ Build(v, i)
      PROVE  run[w].alone /\ Apart
  <2>1. UNCHANGED <<config, db, core, task>> /\ \E obj, new : Takes(v, i, obj, new)
    BY <1>5 DEF Load, Build, solr
  <2>2. PICK obj, new : Takes(v, i, obj, new)
    BY <2>1
  <2>3. /\ run' = [u \in Writers |-> run'[u]] /\ run'[v].id = i
        /\ \A u \in Writers \ {v} : run'[u] \in {run[u], [run[u] EXCEPT !.alone = FALSE]}
        /\ \A u \in Writers \ {v} : run[u].id = i => ~run'[u].alone
    BY <2>2, TakesShape
  <2>4. run'[w] = run[w] /\ run[w].id # i /\ run[w].alone
    BY <1>1, <2>3 DEF Sound, Requests
  <2>5. \A u \in Writers \ {w} : run'[u].id # run[w].id
    <3>1. \A u \in Writers \ {v} : run'[u].id = run[u].id
      BY <1>1, <2>3 DEF Sound, Requests
    <3>. QED BY <1>3, <2>3, <2>4, <3>1
  <2>. QED BY <2>1, <2>4, <2>5
<1>6. ASSUME NEW change, Save(v, change)
      PROVE  run[w].alone /\ Apart
  <2>1. /\ UNCHANGED <<config, db, core>> /\ task'.pc = task.pc
    BY <1>6 DEF Save, solr, Touches, TypeInv, TaskOK, IsTask
  <2>2. run' = [run EXCEPT ![v] = run'[v]] /\ run'[v].id = run[v].id
    BY <1>6, SaveShape
  <2>. QED BY <1>4, <2>1, <2>2
<1>7. ASSUME Destroy(v)
      PROVE  run[w].alone /\ Apart
  <2>1. /\ UNCHANGED <<config, db, core>> /\ task'.pc = task.pc
    BY <1>7 DEF Destroy, solr, Touches, TypeInv, TaskOK, IsTask
  <2>2. run' = [run EXCEPT ![v] = run'[v]] /\ run'[v].id = run[v].id
    BY <1>7, DestroyShape
  <2>. QED BY <1>4, <2>1, <2>2
<1>8. ASSUME NEW o, Callback(v, o)
      PROVE  run[w].alone /\ Apart
  <2>1. /\ UNCHANGED <<config, db, task>>
    BY <1>8 DEF Callback
  <2>2. run' = [run EXCEPT ![v] = run'[v]] /\ (run'[v].id = run[v].id \/ run'[v].id = 0)
    BY <1>8, CallbackShape
  <2>3. /\ run'[w] = run[w] /\ run[w].alone
        /\ \A u \in Writers \ {w} : run'[u].id # run[w].id
    BY <1>4, <2>2
  <2>4. core'[run[w].id] = core[run[w].id]
    <3>1. run[w].id # run[v].id /\ run[w].id \in Ids
      BY <1>3, <2>3
    <3>2. PICK i \in Ids : i = run[w].id
      BY <3>1
    <3>3. core'[i] = core[i]
      BY <1>8, <3>1, <3>2, CallbackIndexes
    <3>. QED BY <3>2, <3>3
  <2>. QED BY <2>1, <2>3, <2>4
<1>9. ASSUME CommitTransaction(v)
      PROVE  run[w].alone /\ Apart
  <2>1. /\ UNCHANGED <<config, core, task>> /\ db' = [db EXCEPT ![run[v].id] = RowOf(v)]
    BY <1>9 DEF CommitTransaction, solr
  <2>2. run' = [run EXCEPT ![v] = run'[v]] /\ run'[v].id = run[v].id
    BY <1>9, CommitShape
  <2>3. /\ run'[w] = run[w] /\ run[w].alone
        /\ \A u \in Writers \ {w} : run'[u].id # run[w].id
    BY <1>4, <2>2
  <2>4. db'[run[w].id] = db[run[w].id]
    BY <1>1, <1>3, <2>1, <2>3
  <2>. QED BY <2>1, <2>3, <2>4
<1>10. ASSUME Rollback(v) \/ ActionRaises(v) \/ \E o \in Outcomes : EndRequest(v, o)
       PROVE  run[w].alone /\ Apart
  <2>1. UNCHANGED <<config, db, task, core>>
    BY <1>10 DEF Rollback, ActionRaises, EndRequest, solr, Core!SolrCommit
  <2>2. \/ run' = [run EXCEPT ![v] = RolledBack(run[v])]
        \/ \E ended : run' = [run EXCEPT ![v] = Idle(ended)]
    BY <1>10 DEF Rollback, ActionRaises, EndRequest, Becomes
  <2>3. RolledBack(run[v]).id = 0 /\ \A ended : Idle(ended).id = 0
    BY DEF RolledBack, Idle
  <2>4. \E q : run' = [run EXCEPT ![v] = q] /\ q.id = 0
    BY <2>2, <2>3
  <2>. QED BY <1>4, <2>1, <2>4
<1>. QED BY <1>5, <1>6, <1>7, <1>8, <1>9, <1>10 DEF Writer

\* Rows that nobody has written since are as the record has them.
LEMMA BeginFollows ==
    ASSUME TypeInv, NEW w \in Writers, NEW i \in Ids, Load(w, i) \/ Build(w, i), run'[w].alone
    PROVE  AloneFor(w)'
<1>1. UNCHANGED <<config, db, core, task>>
  BY DEF Load, Build, solr
<1>2. \/ Takes(w, i, db[i], FALSE)
      \/ \E ok \in BOOLEAN : Takes(w, i, [at |-> 0, ok |-> ok], TRUE)
  BY DEF Load, Build
<1>3. /\ run'[w].pc = "out" /\ run'[w].id = i /\ (~run'[w].new => run'[w].obj = db[i])
      /\ run'[w].gone = FALSE /\ run'[w].wrote = FALSE /\ run'[w].due = FALSE
      /\ task.pc = "idle" /\ \A v \in Writers \ {w} : run[v].id # i
      /\ \A v \in Writers \ {w} : run'[v] \in {run[v], [run[v] EXCEPT !.alone = FALSE]}
  <2>1. ASSUME NEW obj, NEW new, Takes(w, i, obj, new)
        PROVE  /\ run'[w].pc = "out" /\ run'[w].id = i
               /\ run'[w].gone = FALSE /\ run'[w].wrote = FALSE /\ run'[w].due = FALSE
               /\ task.pc = "idle" /\ \A v \in Writers \ {w} : run[v].id # i
               /\ \A v \in Writers \ {w} : run'[v] \in {run[v], [run[v] EXCEPT !.alone = FALSE]}
    BY <2>1, TakesShape
  <2>2. CASE Takes(w, i, db[i], FALSE)
    <3> DEFINE alone == task.pc = "idle" /\ \A v \in Writers \ {w} : run[v].id # i
               q == [Idle("orderly") EXCEPT !.pc = "out", !.id = i, !.obj = db[i],
                                            !.new = FALSE, !.alone = alone]
    <3>1. run' = [Shared(w, i) EXCEPT ![w] = q]
      BY <2>2 DEF Takes
    <3>2. q.obj = db[i]
      <4> HIDE DEF alone
      <4>. QED BY DEF Idle
    <3> HIDE DEF q
    <3>. QED BY <2>1, <2>2, <3>1, <3>2 DEF Shared
  <2>3. ASSUME NEW ok \in BOOLEAN, Takes(w, i, [at |-> 0, ok |-> ok], TRUE)
        PROVE  run'[w].new = TRUE
    <3> DEFINE alone == task.pc = "idle" /\ \A v \in Writers \ {w} : run[v].id # i
               q == [Idle("orderly") EXCEPT !.pc = "out", !.id = i, !.obj = [at |-> 0, ok |-> ok],
                                            !.new = TRUE, !.alone = alone]
    <3>1. run' = [Shared(w, i) EXCEPT ![w] = q]
      BY <2>3 DEF Takes
    <3>2. q.new = TRUE
      <4> HIDE DEF alone
      <4>. QED BY DEF Idle
    <3> HIDE DEF q
    <3>. QED BY <3>1, <3>2 DEF Shared
  <2>. QED BY <1>2, <2>1, <2>2, <2>3
<1>4. \A v \in Writers \ {w} : run'[v].id # i
  BY <1>3 DEF TypeInv, RunTyped, Sound, Requests
<1>5. RowOf(w)' = db[i]
  BY <1>1, <1>3 DEF RowOf
<1>. QED BY <1>1, <1>2, <1>3, <1>4, <1>5 DEF AloneFor, Follows

\* A step of the writer that changes the record but not whose it is.
LEMMA OwnStep ==
    ASSUME TypeInv, NEW w \in Writers, AloneFor(w), config' = config, task'.pc = task.pc,
           run' = [run EXCEPT ![w] = run'[w]], run'[w].id = run[w].id
    PROVE  task'.pc = "idle" /\ \A v \in Writers \ {w} : run'[v].id # run'[w].id
  BY DEF AloneFor, TypeInv, RunTyped

LEMMA SaveFollows ==
    ASSUME QuietColumns, TypeInv, NEW w \in Writers, AloneFor(w),
           NEW change \in (SUBSET Columns) \ {{}}, Save(w, change)
    PROVE  AloneFor(w)'
<1> DEFINE r == run[w]
           q == run'[w]
<1>1. /\ r.pc \in {"out", "in"} /\ r.id \in Ids /\ r.gone = FALSE
      /\ q.id = r.id /\ q.obj = Changed(r.obj, change) /\ q.new = FALSE /\ q.gone = FALSE
      /\ q.marks = Marks(r.new, q.obj, change)
      /\ q.draft = IF r.new THEN q.obj ELSE Updated(RowOf(w), q.obj, change)
      /\ q.wrote = TRUE
      /\ q.pc = IF config.after = "save" /\ q.marks # {} THEN "callback" ELSE "in"
      /\ q.due => (r.pc = "in" /\ r.due) \/ q.marks # {}
      /\ r.pc = "in" /\ r.failed => q.failed
  BY SaveShape
<1>2. /\ config' = config /\ core' = core /\ task'.pc = task.pc
      /\ r.new => "content" \in change
  BY DEF Save, Touches, TypeInv, TaskOK, IsTask, solr, Opened, RunTyped, Sound, Requests
<1>3. Sound(r) /\ Sound(q) /\ config \in Configs /\ config \in [after : {"save", "commit"},
          auto : {"request", "delete"}, ignored : SUBSET Columns]
  <2>1. TypeInv'
    BY SaveTyped
  <2>. QED BY <2>1, ConfigsAssumption DEF TypeInv, RunTyped, WorldTyped
<1>4. r.obj \in Rows /\ q.obj \in Rows /\ Exists(q.obj) /\ (r.new \/ Exists(r.obj))
      /\ r.new \in BOOLEAN
  BY <1>1, <1>3 DEF Sound, Requests
<1>5. task'.pc = "idle" /\ \A v \in Writers \ {w} : run'[v].id # q.id
  <2>1. run' = [run EXCEPT ![w] = q]
    BY SaveShape
  <2>. QED BY <1>1, <1>2, <2>1, OwnStep
<1>6. r.pc = "in" /\ config.after = "save" /\ r.due /\ ~r.failed => core[r.id] = Expected(RowOf(w))
  BY DEF AloneFor, Follows
<1>7. ~r.new => RowOf(w) = r.obj
  BY <1>1 DEF AloneFor, Follows
<1> HIDE DEF q, r
<1>8. q.draft = q.obj
  <2>1. CASE r.new
    BY <1>1, <2>1
  <2>2. CASE ~r.new
    <3>1. RowOf(w) = r.obj /\ q.draft = Updated(r.obj, q.obj, change) /\ Exists(r.obj)
      BY <1>1, <1>4, <1>7, <2>2
    <3>2. /\ "content" \notin change => q.obj.at = r.obj.at
          /\ "visible" \notin change => q.obj.ok = r.obj.ok
      BY <1>1 DEF Changed
    <3>3. q.draft = [at |-> q.obj.at, ok |-> q.obj.ok]
      BY <3>1, <3>2 DEF Updated
    <3>. QED BY <1>4, <3>3 DEF Rows
  <2>. QED BY <2>1, <2>2
<1>9. RowOf(w)' = q.obj
  BY <1>1, <1>8 DEF RowOf, q
<1>10. q.marks # {} => Acted(q) = Expected(q.obj)
  BY <1>1, <1>4 DEF Acted, Removes, Marks, Expected, Indexable
<1>11. config.after = "commit" => q.marks # {}
  BY <1>1, <1>3 DEF Marks, QuietColumns
<1>12. q.marks = {} => ~r.new /\ q.obj = r.obj
  <2>1. SUFFICES ASSUME q.marks = {} PROVE ~r.new /\ q.obj = r.obj
    OBVIOUS
  <2>2. ~r.new /\ change \subseteq {"other"}
    BY <1>1, <1>3, <2>1 DEF Marks, QuietColumns
  <2>3. q.obj = [at |-> r.obj.at, ok |-> r.obj.ok]
    BY <1>1, <2>2 DEF Changed
  <2>. QED BY <1>4, <2>2, <2>3 DEF Rows
<1>13. q.pc = "in" /\ config.after = "save" /\ q.due /\ ~q.failed => core[q.id] = Expected(q.obj)
  <2>1. SUFFICES ASSUME q.pc = "in", config.after = "save", q.due, ~q.failed
                 PROVE  core[q.id] = Expected(q.obj)
    OBVIOUS
  <2>2. q.marks = {} /\ r.pc = "in" /\ r.due /\ ~r.failed
    BY <1>1, <2>1
  <2>. QED BY <1>1, <1>6, <1>7, <1>12, <2>1, <2>2
<1>14. q = run'[w]
  BY DEF q
<1>15. Follows(q, q.obj, core[q.id], config.after)
  BY <1>1, <1>3, <1>10, <1>11, <1>13 DEF Follows
<1>. QED BY <1>2, <1>5, <1>9, <1>14, <1>15 DEF AloneFor

LEMMA DestroyFollows ==
    ASSUME TypeInv, NEW w \in Writers, AloneFor(w), Destroy(w)
    PROVE  AloneFor(w)'
<1> DEFINE q == run'[w]
<1>1. /\ run[w].pc \in {"out", "in"} /\ run[w].id \in Ids
      /\ run' = [run EXCEPT ![w] = q]
      /\ q.id = run[w].id /\ q.gone = TRUE /\ q.draft = NoRow /\ q.wrote = TRUE /\ q.new = FALSE
      /\ q.pc = IF config.after = "save" THEN "callback" ELSE "in"
  BY DestroyShape
<1>2. config' = config /\ core' = core /\ task'.pc = task.pc /\ config \in Configs
  BY DEF Destroy, Touches, TypeInv, TaskOK, IsTask, solr, WorldTyped
<1>3. task'.pc = "idle" /\ \A v \in Writers \ {w} : run'[v].id # q.id
  BY <1>1, <1>2, OwnStep
<1>4. config.after = "save" \/ config.after = "commit"
  BY <1>2, ConfigsAssumption
<1>5. RowOf(w)' = NoRow
  BY <1>1 DEF RowOf
<1>6. Acted(q) = 0 /\ Expected(NoRow) = 0
  BY <1>1 DEF Acted, Removes, Expected, Exists, NoRow
<1>7. q = run'[w]
  OBVIOUS
<1> HIDE DEF q
<1>8. Follows(q, NoRow, core[q.id], config.after)
  BY <1>1, <1>4, <1>6 DEF Follows
<1>. QED BY <1>2, <1>3, <1>5, <1>7, <1>8 DEF AloneFor

LEMMA CallbackFollows ==
    ASSUME TypeInv, NEW w \in Writers, AloneFor(w), NEW o, Callback(w, o), run'[w].alone
    PROVE  AloneFor(w)'
<1> DEFINE r == run[w]
           q == run'[w]
<1>1. /\ r.pc = "callback" /\ r.id \in Ids /\ r.new = FALSE
      /\ run' = [run EXCEPT ![w] = q]
      /\ q.pc = IF config.after = "save" THEN "in" ELSE "out"
      /\ q.id = r.id /\ q.obj = r.obj /\ q.new = FALSE /\ q.gone = r.gone
      /\ q.draft = r.draft /\ q.wrote = r.wrote
      /\ o # "ok" => q.failed = TRUE
  BY CallbackShape
<1>2. config' = config /\ db' = db /\ task' = task /\ config \in Configs
  BY DEF Callback, TypeInv, WorldTyped
<1>3. task'.pc = "idle" /\ \A v \in Writers \ {w} : run'[v].id # q.id
  BY <1>1, <1>2, OwnStep
<1>4. config.after = "save" \/ config.after = "commit"
  BY <1>2, ConfigsAssumption
<1>5. RowOf(w)' = RowOf(w)
  BY <1>1, <1>2 DEF RowOf
<1>6. /\ Acted(r) = Expected(RowOf(w))
      /\ RowOf(w) = IF r.gone THEN NoRow ELSE r.obj
      /\ r.wrote = (config.after = "save")
  BY <1>1 DEF AloneFor, Follows
<1>7. o = "ok" => core'[r.id] = Acted(r)
  <2>1. PICK i \in Ids : i = r.id
    BY <1>1
  <2>2. o = "ok" => core'[i] = Acted(r)
    BY <2>1, CallbackIndexes
  <2>. QED BY <2>1, <2>2
<1>8. q = run'[w]
  OBVIOUS
<1> HIDE DEF q, r
<1>9. ~q.failed => core'[q.id] = Expected(RowOf(w))
  BY <1>1, <1>6, <1>7
<1>10. q.pc \in {"in", "out"} /\ (q.pc = "in") = (config.after = "save")
  BY <1>1, <1>4
<1>11. Acted(q) = Expected(RowOf(w)) => Follows(q, RowOf(w), core'[q.id], config.after)
  BY <1>1, <1>6, <1>9, <1>10 DEF Follows
<1>12. Follows(q, RowOf(w), core'[q.id], config.after)
  BY <1>1, <1>4, <1>6, <1>9, <1>10 DEF Follows
<1>. QED BY <1>2, <1>3, <1>5, <1>8, <1>12 DEF AloneFor

LEMMA CommitFollows ==
    ASSUME TypeInv, NEW w \in Writers, AloneFor(w), CommitTransaction(w)
    PROVE  AloneFor(w)'
<1> DEFINE r == run[w]
           q == run'[w]
<1>1. /\ r.pc = "in" /\ r.id \in Ids /\ r.new = FALSE
      /\ run' = [run EXCEPT ![w] = q]
      /\ q.id = r.id /\ q.obj = r.obj /\ q.new = FALSE /\ q.gone = r.gone
      /\ q.draft = r.draft /\ q.wrote = FALSE /\ q.marks = r.marks
      /\ q.due = r.due /\ q.failed = r.failed
      /\ q.pc \in {"out", "callback"}
      /\ q.pc = "callback" => config.after = "commit"
      /\ q.pc = "out" =>
                \/ config.after = "save" \/ (~r.gone /\ r.marks = {})
                \/ ~r.gone /\ ~Exists(r.draft)
  BY CommitShape
<1>2. /\ config' = config /\ core' = core /\ task' = task /\ db' = [db EXCEPT ![r.id] = RowOf(w)]
      /\ config \in Configs /\ DOMAIN db = Ids /\ Sound(r)
  BY DEF CommitTransaction, TypeInv, WorldTyped, RunTyped, solr
<1>3. task'.pc = "idle" /\ \A v \in Writers \ {w} : run'[v].id # q.id
  BY <1>1, <1>2, OwnStep
<1>4. config.after = "save" \/ config.after = "commit"
  BY <1>2, ConfigsAssumption
<1>5. RowOf(w)' = RowOf(w)
  <2>1. RowOf(w)' = db'[r.id]
    BY <1>1 DEF RowOf
  <2>. QED BY <1>1, <1>2, <2>1
<1>6. /\ RowOf(w) = IF r.gone THEN NoRow ELSE r.obj
      /\ r.wrote = TRUE
      /\ config.after = "save" /\ r.due /\ ~r.failed => core[r.id] = Expected(RowOf(w))
      /\ config.after = "commit" => Acted(r) = Expected(RowOf(w)) /\ (r.gone \/ r.marks # {})
  BY <1>1 DEF AloneFor, Follows
<1>7. ~r.gone => Exists(r.draft)
  <2>1. Exists(r.obj)
    BY <1>1, <1>2 DEF Sound
  <2>2. RowOf(w) = r.draft
    BY <1>6 DEF RowOf
  <2>. QED BY <1>6, <2>1, <2>2
<1>8. q.pc = "out" => config.after = "save"
  BY <1>1, <1>4, <1>6, <1>7
<1>9. Acted(q) = Acted(r)
  BY <1>1 DEF Acted, Removes
<1>10. q = run'[w]
  OBVIOUS
<1> HIDE DEF q, r
<1>11. q.pc = "out" /\ q.due /\ ~q.failed => core'[q.id] = Expected(RowOf(w))
  BY <1>1, <1>2, <1>6, <1>8
<1>12. q.pc = "callback" => Acted(q) = Expected(RowOf(w))
  BY <1>1, <1>6, <1>9
<1>13. ~(q.pc = "callback" /\ config.after = "save")
  BY <1>1
<1>14. Follows(q, RowOf(w), core'[q.id], config.after)
  BY <1>1, <1>6, <1>11, <1>12, <1>13 DEF Follows
<1>. QED BY <1>2, <1>3, <1>5, <1>10, <1>14 DEF AloneFor

LEMMA AloneStep ==
    ASSUME QuietColumns, TypeInv, AloneInv, [Next]_vars
    PROVE  AloneInv'
<1> SUFFICES ASSUME NEW w \in Writers, run'[w].alone
             PROVE  AloneFor(w)'
  BY DEF AloneInv
<1>1. Sound(run[w]) /\ run = [u \in Writers |-> run[u]]
  BY DEF TypeInv, RunTyped
<1>2. CASE UNCHANGED vars
  BY <1>2, StaysAlone DEF vars, solr, history, AloneInv, AloneFor
<1>3. ASSUME NEW v \in Writers, v # w, Writer(v)
      PROVE  AloneFor(w)'
  BY <1>3, OthersStep
<1>4. ASSUME Writer(w)
      PROVE  AloneFor(w)'
  <2>1. ASSUME NEW i \in Ids, Load(w, i) \/ Build(w, i)
        PROVE  AloneFor(w)'
    BY <2>1, BeginFollows
  <2>2. ASSUME NEW change \in (SUBSET Columns) \ {{}}, Save(w, change)
        PROVE  AloneFor(w)'
    <3>1. AloneFor(w)
      BY <2>2, SaveShape DEF AloneInv
    <3>. QED BY <2>2, <3>1, SaveFollows
  <2>3. ASSUME Destroy(w)
        PROVE  AloneFor(w)'
    <3>1. AloneFor(w)
      BY <2>3, DestroyShape DEF AloneInv
    <3>. QED BY <2>3, <3>1, DestroyFollows
  <2>4. ASSUME NEW o \in Outcomes, Callback(w, o)
        PROVE  AloneFor(w)'
    <3>1. AloneFor(w)
      BY <2>4, CallbackShape DEF AloneInv
    <3>. QED BY <2>4, <3>1, CallbackFollows
  <2>5. ASSUME CommitTransaction(w)
        PROVE  AloneFor(w)'
    <3>1. AloneFor(w)
      BY <2>5, CommitShape DEF AloneInv
    <3>. QED BY <2>5, <3>1, CommitFollows
  <2>6. ~(Rollback(w) \/ ActionRaises(w) \/ \E o \in Outcomes : EndRequest(w, o))
    <3>1. Rollback(w) \/ ActionRaises(w) \/ (\E o \in Outcomes : EndRequest(w, o))
             => run'[w] = RolledBack(run[w]) \/ \E ended : run'[w] = Idle(ended)
      BY <1>1 DEF Rollback, ActionRaises, EndRequest, Becomes
    <3>2. RolledBack(run[w]).alone = FALSE /\ \A ended : Idle(ended).alone = FALSE
      BY DEF RolledBack, Idle
    <3>. QED BY <3>1, <3>2
  <2>. QED BY <1>4, <2>1, <2>2, <2>3, <2>4, <2>5, <2>6 DEF Writer
<1>5. ASSUME TaskStep
      PROVE  AloneFor(w)'
  <2>1. CASE \E job \in Jobs : StartTask(job)
    <3>1. run'[w] = [run[w] EXCEPT !.alone = FALSE]
      BY <2>1 DEF StartTask
    <3>. QED BY <1>1, <3>1 DEF Sound, Requests
  <2>2. CASE ~ \E job \in Jobs : StartTask(job)
    <3>1. run' = run /\ task.pc # "idle"
      BY <1>5, <2>2 DEF TaskStep, Wipe, SendBatch, CommitBatch, EndReindex, RemoveOrphan,
             ReadBatch, ReadPage, SelectOrphans, EndClean, TaskKilled, TaskCommits
    <3>. QED BY <3>1 DEF AloneInv, AloneFor
  <2>. QED BY <2>1, <2>2
<1>. QED BY <1>2, <1>3, <1>4, <1>5 DEF Next

\* searchable, :auto_index and :auto_remove: when a transaction is over that
\* nobody else interfered with, and its callbacks went well, the index holds for
\* the row what it should, whatever it held before; for any number of writers,
\* under both kinds of callbacks, unless ignored columns are part of the
\* document or, after the commit, there are ignored columns at all.
THEOREM AloneIsFollowed == IsFiniteSet(Ids) /\ QuietColumns => (Spec => []AloneFollows)
<1> SUFFICES ASSUME IsFiniteSet(Ids), QuietColumns PROVE Spec => []AloneFollows
  OBVIOUS
<1>1. Init => AloneInv
  <2>1. \A ended : Idle(ended).alone = FALSE
    BY DEF Idle
  <2>. QED BY <2>1 DEF Init, AloneInv
<1>2. TypeInv /\ AloneInv => AloneFollows
  <2> SUFFICES ASSUME TypeInv, AloneInv, NEW w \in Writers, run[w].pc = "out", run[w].due,
                      run[w].alone, ~run[w].failed
               PROVE  core[run[w].id] = Expected(db[run[w].id])
    BY DEF AloneFollows
  <2>1. core[run[w].id] = Expected(RowOf(w)) /\ run[w].wrote = FALSE
    BY DEF AloneInv, AloneFor, Follows
  <2>. QED BY <2>1 DEF RowOf
<1>. QED BY <1>1, <1>2, AloneStep, TypeInductive, PTL DEF Spec
-----------------------------------------------------------------------------
(***************************************************************************)
(* The index and the task processes, for any number of tasks and any page  *)
(* and batch size.                                                         *)
(*                                                                         *)
(* With callbacks after the commit solr_clean_index_orphans removes        *)
(* nothing that has a row: the ids come from the index and are compared    *)
(* with the rows later, so the document of a row never is in the index     *)
(* before the row is committed.  No document is a phantom.  And a job that *)
(* ended has left the index right for the rows no transaction has touched. *)
(***************************************************************************)

\* A row is written inside a transaction, and built before it.
Formed(r) ==
    /\ Record(r)
    /\ r.wrote \in BOOLEAN /\ (r.wrote <=> r.pc = "in")
    /\ r.new \in BOOLEAN /\ (r.new => r.pc = "out")
    /\ r.pc \in {"out", "in", "callback"} => r.id \in Ids

Shape ==
    /\ DOMAIN db = Ids /\ DOMAIN core = Ids /\ DOMAIN searcher = Ids
    /\ run = [w \in Writers |-> run[w]]
    /\ \A w \in Writers : Formed(run[w])
    /\ IsTask(task) /\ task.found \subseteq Ids

OneHolder ==
    \A v, w \in Writers : run[v].wrote /\ run[w].wrote /\ run[v].id = run[w].id => v = w

\* The ids of the documents the task is about to send.
Sending == {task.batch[n].id : n \in DOMAIN task.batch}

\* There is no row, and no trace of one.
Nowhere(i) ==
    /\ ~Exists(db[i])
    /\ core[i] = 0
    /\ searcher[i] = 0
    /\ i \notin task.found
    /\ i \notin Sending

\* The record is built, and its row is not committed yet.
Unborn(r) == r.new \/ (r.wrote /\ Exists(r.draft) /\ ~Exists(db[r.id]))

UnusedNowhere == \A i \in Ids \ used : Nowhere(i) /\ \A w \in Writers : run[w].id # i

UnbornNowhere ==
    \A w \in Writers : Unborn(run[w]) =>
        /\ Nowhere(run[w].id)
        /\ \A v \in Writers : run[v].id = run[w].id => v = w

OrphansHaveNoRow == task.pc = "remove" => \A i \in task.found : ~Exists(db[i])

Clean == Shape /\ OneHolder /\ UnusedNowhere /\ UnbornNowhere /\ OrphansHaveNoRow

CleanInv == config.after = "commit" => Clean

-----------------------------------------------------------------------------
(* The index.                                                              *)

\* An add request changes the index for its documents only.
LEMMA AddTouches ==
    ASSUME NEW s, NEW docs, Core!SolrAdd(s, docs)
    PROVE  /\ DOMAIN core' = Ids
           /\ \A i \in Ids : core'[i] = core[i] \/ \E n \in DOMAIN docs : docs[n].id = i
<1>1. core' = [k \in Ids |->
          IF Core!At(docs, k) = {} THEN core[k]
          ELSE docs[CHOOSE n \in Core!At(docs, k) : \A m \in Core!At(docs, k) : m <= n].at]
  BY DEF Core!SolrAdd, Core!Overwritten
<1>2. \A i \in Ids : Core!At(docs, i) = {} => core'[i] = core[i]
  BY <1>1
<1>. QED BY <1>1, <1>2 DEF Core!At

-----------------------------------------------------------------------------
(* What keeps the invariant.                                               *)

\* The fields of a writer's record the invariant speaks of.
SameWriter(r, q) ==
    /\ Formed(q)
    /\ q.id = r.id /\ q.pc = r.pc /\ q.new = r.new /\ q.wrote = r.wrote /\ q.draft = r.draft

\* A step of one writer that leaves the rows and the used ids alone: it writes
\* to the index in a callback only, takes only records that have rows, writes
\* rows nobody else has written, and makes none unborn that was not.
LEMMA OneMoves ==
    ASSUME Clean, NEW w \in Writers, NEW q, Formed(q), run' = [v \in Writers |-> run'[v]],
           run'[w] = q, \A v \in Writers \ {w} : SameWriter(run[v], run'[v]),
           db' = db, used' = used,
           IsTask(task'), task'.pc = task.pc, task'.found = task.found, task'.batch = task.batch,
           DOMAIN core' = Ids, DOMAIN searcher' = Ids,
           \A i \in Ids : core'[i] = core[i] \/ (i = run[w].id /\ run[w].pc = "callback"),
           \A i \in Ids : searcher'[i] = searcher[i] \/ searcher'[i] = core[i],
           q.id \in Ids => q.id = run[w].id \/ Exists(db[q.id]),
           q.wrote => q.id = run[w].id /\ \A v \in Writers \ {w} : ~Holds(v, q.id),
           Unborn(q) => q.id = run[w].id /\ Unborn(run[w])
    PROVE  Clean'
<1>1. Shape'
  BY DEF Clean, Shape, SameWriter
<1>2. OneHolder'
  <2>. SUFFICES ASSUME NEW u \in Writers, NEW v \in Writers, run'[u].wrote, run'[v].wrote,
                       run'[u].id = run'[v].id
                PROVE  u = v
    BY DEF OneHolder
  <2>1. CASE u = w \/ v = w
    BY <2>1 DEF Holds, SameWriter
  <2>2. CASE u # w /\ v # w
    BY <2>2 DEF Clean, OneHolder, SameWriter
  <2>. QED BY <2>1, <2>2
<1>3. ASSUME NEW i \in Ids, Nowhere(i), i = run[w].id => run[w].pc # "callback"
      PROVE  Nowhere(i)'
  <2>1. core'[i] = 0 /\ searcher'[i] = 0
    BY <1>3 DEF Nowhere
  <2>. QED BY <1>3, <2>1 DEF Nowhere, Sending, Exists
<1>4. UnusedNowhere'
  <2>. SUFFICES ASSUME NEW i \in Ids, i \notin used
                PROVE  Nowhere(i)' /\ \A v \in Writers : run'[v].id # i
    BY DEF UnusedNowhere
  <2>1. Nowhere(i) /\ \A v \in Writers : run[v].id # i
    BY DEF Clean, UnusedNowhere
  <2>2. Nowhere(i)'
    BY <1>3, <2>1
  <2>3. q.id # i
    BY <2>1 DEF Nowhere
  <2>. QED BY <2>1, <2>2, <2>3 DEF SameWriter
<1>5. UnbornNowhere'
  <2>. SUFFICES ASSUME NEW v \in Writers, Unborn(run[v])'
                PROVE  /\ Nowhere(run[v].id)'
                       /\ \A u \in Writers : run'[u].id = run'[v].id => u = v
    BY DEF UnbornNowhere
  <2>1. Unborn(run[v]) /\ run'[v].id = run[v].id
    BY DEF Unborn, SameWriter, Exists
  <2>2. Nowhere(run[v].id) /\ \A u \in Writers : run[u].id = run[v].id => u = v
    BY <2>1 DEF Clean, UnbornNowhere
  <2>3. run[v].id \in Ids /\ run[v].pc # "callback"
    BY <2>1 DEF Clean, Shape, Formed, Unborn
  <2>4. Nowhere(run[v].id)'
    <3>1. PICK i \in Ids : i = run[v].id
      BY <2>3
    <3>2. Nowhere(i)'
      BY <1>3, <2>2, <2>3, <3>1
    <3>. QED BY <2>1, <3>1, <3>2 DEF Nowhere
  <2>5. ASSUME NEW u \in Writers, run'[u].id = run'[v].id
        PROVE  u = v
    <3>1. CASE u # w
      BY <2>1, <2>2, <2>5, <3>1 DEF SameWriter
    <3>2. CASE u = w
      <4>1. q.id = run[w].id
        BY <2>1, <2>2, <2>3, <2>5, <3>2 DEF Nowhere
      <4>. QED BY <2>1, <2>2, <2>5, <3>2, <4>1
    <3>. QED BY <3>1, <3>2
  <2>. QED BY <2>4, <2>5
<1>6. OrphansHaveNoRow'
  BY DEF Clean, OrphansHaveNoRow, Exists
<1>. QED BY <1>1, <1>2, <1>4, <1>5, <1>6 DEF Clean

\* A step of the task sends what it has read, reads documents of rows and ids
\* from the index, and comes to the removals with ids that have no row.
LEMMA TaskMoves ==
    ASSUME Clean, run' = [v \in Writers |-> run'[v]],
           \A v \in Writers : SameWriter(run[v], run'[v]),
           db' = db, used' = used, IsTask(task'), DOMAIN core' = Ids, DOMAIN searcher' = Ids,
           \A i \in Ids : core'[i] \in {0, core[i]} \/ i \in Sending,
           \A i \in Ids : searcher'[i] = searcher[i] \/ searcher'[i] = core[i],
           \A i \in task'.found : i \in task.found \/ (i \in Ids /\ searcher[i] # 0),
           \A n \in DOMAIN task'.batch :
               task'.batch[n].id \in Sending \/ Exists(db[task'.batch[n].id]),
           task'.pc = "remove" => \A i \in task'.found : ~Exists(db[i])
    PROVE  Clean'
<1>1. ASSUME NEW i \in Ids, Nowhere(i)
      PROVE  Nowhere(i)'
  <2>1. core'[i] = 0 /\ searcher'[i] = 0
    BY <1>1 DEF Nowhere
  <2>2. i \notin task'.found /\ i \notin Sending'
    BY <1>1 DEF Nowhere, Sending
  <2>. QED BY <1>1, <2>1, <2>2 DEF Nowhere, Exists
<1>2. Shape' /\ OneHolder'
  BY DEF Clean, Shape, OneHolder, SameWriter
<1>3. UnusedNowhere'
  BY <1>1 DEF Clean, UnusedNowhere, SameWriter
<1>4. UnbornNowhere'
  <2>. SUFFICES ASSUME NEW v \in Writers, Unborn(run[v])'
                PROVE  /\ Nowhere(run[v].id)'
                       /\ \A u \in Writers : run'[u].id = run'[v].id => u = v
    BY DEF UnbornNowhere
  <2>1. Unborn(run[v]) /\ run'[v].id = run[v].id
    BY DEF Unborn, SameWriter, Exists
  <2>2. run[v].id \in Ids
    BY <2>1 DEF Clean, Shape, Formed, Unborn
  <2>3. Nowhere(run[v].id)'
    <3>1. PICK i \in Ids : i = run[v].id
      BY <2>2
    <3>2. Nowhere(i)'
      BY <1>1, <2>1, <3>1 DEF Clean, UnbornNowhere
    <3>. QED BY <2>1, <3>1, <3>2 DEF Nowhere
  <2>. QED BY <2>1, <2>3 DEF Clean, UnbornNowhere, SameWriter
<1>5. OrphansHaveNoRow'
  BY DEF OrphansHaveNoRow, Exists
<1>. QED BY <1>2, <1>3, <1>4, <1>5 DEF Clean

-----------------------------------------------------------------------------
(* The steps of a writer.                                                  *)

LEMMA IdleFormed ==
    ASSUME NEW ended
    PROVE  /\ Formed(Idle(ended)) /\ Idle(ended).id \notin Ids
           /\ ~Unborn(Idle(ended)) /\ ~Idle(ended).wrote
  BY NamesAssumption DEF Formed, Record, Idle, Unborn

\* A writer takes a record; of the others only alone may change.
LEMMA TakesOne ==
    ASSUME Clean, NEW w \in Writers, NEW i \in Ids, NEW obj, NEW new \in BOOLEAN,
           Takes(w, i, obj, new)
    PROVE  /\ run' = [v \in Writers |-> run'[v]]
           /\ Formed(run'[w]) /\ run'[w].id = i /\ run'[w].new = new /\ ~run'[w].wrote
           /\ \A v \in Writers \ {w} : SameWriter(run[v], run'[v])
<1> DEFINE alone == task.pc = "idle" /\ \A v \in Writers \ {w} : run[v].id # i
           q == [Idle("orderly") EXCEPT !.pc = "out", !.id = i, !.obj = obj,
                                        !.new = new, !.alone = alone]
<1>1. run' = [Shared(w, i) EXCEPT ![w] = q]
  BY DEF Takes
<1>2. Formed(q) /\ q.id = i /\ q.new = new /\ ~q.wrote
  <2> HIDE DEF alone
  <2>. QED BY DEF Formed, Record, Idle
<1> HIDE DEF q
<1>3. run'[w] = q /\ run' = [v \in Writers |-> run'[v]]
  BY <1>1 DEF Shared
<1>4. ASSUME NEW v \in Writers \ {w}
      PROVE  SameWriter(run[v], run'[v])
  <2>1. run'[v] = run[v] \/ run'[v] = [run[v] EXCEPT !.alone = FALSE]
    BY <1>1 DEF Shared
  <2>2. Formed(run[v])
    BY DEF Clean, Shape
  <2>. QED BY <2>1, <2>2 DEF SameWriter, Formed, Record
<1>. QED BY <1>2, <1>3, <1>4

LEMMA LoadKeeps ==
    ASSUME Clean, NEW w \in Writers, NEW i \in Ids, Load(w, i)
    PROVE  Clean'
<1>1. /\ Exists(db[i]) /\ Takes(w, i, db[i], FALSE)
      /\ UNCHANGED <<db, core, searcher, task, used>>
  BY DEF Load, solr
<1>2. /\ run' = [v \in Writers |-> run'[v]]
      /\ Formed(run'[w]) /\ run'[w].id = i /\ run'[w].new = FALSE /\ ~run'[w].wrote
      /\ \A v \in Writers \ {w} : SameWriter(run[v], run'[v])
  BY <1>1, TakesOne
<1>3. ~Unborn(run'[w])
  BY <1>2 DEF Unborn
<1>4. IsTask(task) /\ DOMAIN core = Ids /\ DOMAIN searcher = Ids
  BY DEF Clean, Shape
<1> DEFINE q == run'[w]
<1> HIDE DEF q
<1>5. Formed(q) /\ run'[w] = q /\ Exists(db[q.id]) /\ ~q.wrote /\ ~Unborn(q)
  BY <1>1, <1>2, <1>3 DEF q
<1>. QED BY <1>1, <1>2, <1>4, <1>5, OneMoves

\* A new id has no trace anywhere.
LEMMA BuildKeeps ==
    ASSUME Clean, NEW w \in Writers, NEW i \in Ids, Build(w, i)
    PROVE  Clean'
<1>1. /\ i \notin used /\ used' = used \cup {i}
      /\ UNCHANGED <<db, core, searcher, task>>
  BY DEF Build, solr
<1>2. /\ run' = [v \in Writers |-> run'[v]]
      /\ Formed(run'[w]) /\ run'[w].id = i /\ ~run'[w].wrote
      /\ \A v \in Writers \ {w} : SameWriter(run[v], run'[v])
  <2>1. PICK ok \in BOOLEAN : Takes(w, i, [at |-> 0, ok |-> ok], TRUE)
    BY DEF Build
  <2>. QED BY <2>1, TakesOne
<1>3. Nowhere(i) /\ \A v \in Writers : run[v].id # i
  BY <1>1 DEF Clean, UnusedNowhere
<1>4. \A n \in Ids : Nowhere(n) => Nowhere(n)'
  BY <1>1 DEF Nowhere, Sending, Exists
<1>5. Shape'
  BY <1>1, <1>2 DEF Clean, Shape, SameWriter
<1>6. OneHolder'
  BY <1>2 DEF Clean, OneHolder, SameWriter
<1>7. UnusedNowhere'
  BY <1>1, <1>2, <1>4 DEF Clean, UnusedNowhere, SameWriter
<1>8. ASSUME NEW v \in Writers, Unborn(run[v])'
      PROVE  Nowhere(run[v].id)' /\ \A u \in Writers : run'[u].id = run'[v].id => u = v
  <2>1. CASE v = w
    <3>1. Nowhere(i)'
      BY <1>3, <1>4
    <3>2. Nowhere(run[v].id)'
      BY <1>2, <2>1, <3>1 DEF Nowhere
    <3>. QED BY <1>2, <1>3, <2>1, <3>2 DEF SameWriter
  <2>2. CASE v # w
    <3>1. Unborn(run[v]) /\ run'[v].id = run[v].id
      BY <1>1, <1>2, <1>8, <2>2 DEF Unborn, SameWriter, Exists
    <3>2. PICK n \in Ids : n = run[v].id
      BY <3>1 DEF Clean, Shape, Formed, Unborn
    <3>3. Nowhere(n)' /\ \A u \in Writers : run[u].id = n => u = v
      BY <1>4, <3>1, <3>2 DEF Clean, UnbornNowhere
    <3>4. Nowhere(run[v].id)'
      BY <3>1, <3>2, <3>3 DEF Nowhere
    <3>. QED BY <1>2, <1>3, <3>1, <3>2, <3>3, <3>4 DEF SameWriter
  <2>. QED BY <2>1, <2>2
<1>9. OrphansHaveNoRow'
  BY <1>1 DEF Clean, OrphansHaveNoRow, Exists
<1>. QED BY <1>5, <1>6, <1>7, <1>8, <1>9 DEF Clean, UnbornNowhere

\* A save writes a row that is its own, or that has been there before.
LEMMA SaveKeeps ==
    ASSUME Clean, config.after = "commit", NEW w \in Writers, NEW change, Save(w, change)
    PROVE  Clean'
<1> DEFINE r == Opened(w)
           obj == Changed(r.obj, change)
           row == IF r.new THEN obj ELSE Updated(RowOf(w), obj, change)
           marks == Marks(r.new, obj, change)
           q == [r EXCEPT
               !.pc = IF config.after = "save" /\ marks # {} THEN "callback" ELSE "in",
               !.obj = obj, !.new = FALSE, !.marks = marks,
               !.draft = row, !.wrote = TRUE, !.due = @ \/ marks # {}]
<1>1. /\ r.pc = "in" /\ \A v \in Writers \ {w} : ~Holds(v, r.id)
      /\ run' = [run EXCEPT ![w] = q] /\ Touches(r.id)
      /\ UNCHANGED <<db, core, searcher, used>>
  BY DEF Save, Becomes, solr
<1>2. Formed(run[w]) /\ IsTask(task) /\ DOMAIN core = Ids /\ DOMAIN searcher = Ids
      /\ run = [v \in Writers |-> run[v]] /\ \A v \in Writers : Formed(run[v])
  BY DEF Clean, Shape
<1>3. /\ r.id = run[w].id /\ r.new = run[w].new /\ r.wrote = run[w].wrote
      /\ DOMAIN r = DOMAIN run[w] /\ run[w].pc \in {"out", "in"} /\ r.draft = run[w].draft
  BY <1>1, <1>2 DEF Opened, Formed, Record
<1>4. /\ q.pc = "in" /\ q.id = run[w].id /\ q.new = FALSE /\ q.wrote = TRUE /\ q.draft = row
      /\ DOMAIN q = DOMAIN run[w]
  <2> HIDE DEF r, row, obj, marks
  <2>. QED BY <1>2, <1>3 DEF Formed, Record
<1>5. Formed(q)
  <2> HIDE DEF q
  <2>. QED BY <1>2, <1>3, <1>4 DEF Formed, Record
<1>6. Exists(row) /\ ~Exists(db[run[w].id]) => Unborn(run[w])
  <2>1. ~r.new /\ Exists(row) => Exists(RowOf(w))
    BY DEF Updated
  <2> HIDE DEF row, r
  <2>. QED BY <1>3, <2>1 DEF RowOf, Unborn
<1> HIDE DEF row, marks, obj, r
<1>7. Unborn(q) => Unborn(run[w])
  <2> HIDE DEF q
  <2>. QED BY <1>4, <1>6 DEF Unborn
<1> HIDE DEF q
<1>8. /\ run' = [v \in Writers |-> run'[v]] /\ run'[w] = q
      /\ \A v \in Writers \ {w} : SameWriter(run[v], run'[v])
  BY <1>1, <1>2 DEF SameWriter
<1>9. /\ IsTask(task') /\ task'.pc = task.pc /\ task'.found = task.found
      /\ task'.batch = task.batch
  BY <1>1, <1>2 DEF Touches, IsTask
<1>10. \A v \in Writers \ {w} : ~Holds(v, q.id)
  BY <1>1, <1>3, <1>4
<1>. QED BY <1>1, <1>2, <1>4, <1>5, <1>7, <1>8, <1>9, <1>10, OneMoves

LEMMA DestroyKeeps ==
    ASSUME Clean, config.after = "commit", NEW w \in Writers, Destroy(w)
    PROVE  Clean'
<1> DEFINE r == Opened(w)
           q == [r EXCEPT !.pc = IF config.after = "save" THEN "callback" ELSE "in",
                          !.gone = TRUE, !.draft = NoRow, !.wrote = TRUE, !.due = TRUE]
<1>1. /\ r.pc = "in" /\ ~r.new /\ \A v \in Writers \ {w} : ~Holds(v, r.id)
      /\ run' = [run EXCEPT ![w] = q] /\ Touches(r.id)
      /\ UNCHANGED <<db, core, searcher, used>>
  BY DEF Destroy, Becomes, solr
<1>2. Formed(run[w]) /\ IsTask(task) /\ DOMAIN core = Ids /\ DOMAIN searcher = Ids
      /\ run = [v \in Writers |-> run[v]] /\ \A v \in Writers : Formed(run[v])
  BY DEF Clean, Shape
<1>3. /\ r.id = run[w].id /\ r.new = run[w].new
      /\ DOMAIN r = DOMAIN run[w] /\ run[w].pc \in {"out", "in"}
  BY <1>1, <1>2 DEF Opened, Formed, Record
<1>4. /\ q.pc = "in" /\ q.id = run[w].id /\ q.new = run[w].new /\ q.wrote = TRUE
      /\ q.draft = NoRow /\ DOMAIN q = DOMAIN run[w]
  <2> HIDE DEF r
  <2>. QED BY <1>2, <1>3 DEF Formed, Record
<1>5. Formed(q)
  <2> HIDE DEF q
  <2>. QED BY <1>1, <1>2, <1>3, <1>4 DEF Formed, Record
<1>7. ~Unborn(q)
  <2> HIDE DEF q
  <2>. QED BY <1>1, <1>3, <1>4 DEF Unborn, NoRow, Exists
<1> HIDE DEF q, r
<1>8. /\ run' = [v \in Writers |-> run'[v]] /\ run'[w] = q
      /\ \A v \in Writers \ {w} : SameWriter(run[v], run'[v])
  BY <1>1, <1>2 DEF SameWriter
<1>9. /\ IsTask(task') /\ task'.pc = task.pc /\ task'.found = task.found
      /\ task'.batch = task.batch
  BY <1>1, <1>2 DEF Touches, IsTask
<1>10. \A v \in Writers \ {w} : ~Holds(v, q.id)
  BY <1>1, <1>3, <1>4
<1>. QED BY <1>1, <1>2, <1>4, <1>5, <1>7, <1>8, <1>9, <1>10, OneMoves

\* A callback writes to the index, of a row that is not unborn any more.
LEMMA CallbackKeeps ==
    ASSUME Clean, config.after = "commit", NEW w \in Writers, NEW outcome, Callback(w, outcome)
    PROVE  Clean'
<1> DEFINE r == run[w]
           q == run'[w]
<1>1. /\ r.pc = "callback" /\ UNCHANGED <<db, task, used>>
      /\ run' = [run EXCEPT ![w] = [Unmarked(r) EXCEPT !.pc = "out"]]
         \/ run' = [run EXCEPT ![w] = [[r EXCEPT !.failed = TRUE] EXCEPT !.pc = "out"]]
  BY DEF Callback, Becomes, CallbackRaises
<1>2. Formed(r) /\ IsTask(task) /\ DOMAIN core = Ids /\ DOMAIN searcher = Ids
      /\ run = [v \in Writers |-> run[v]] /\ \A v \in Writers : Formed(run[v])
  BY DEF Clean, Shape
<1>3. ~r.wrote /\ ~r.new /\ r.id \in Ids
  BY <1>1, <1>2 DEF Formed
<1>4. /\ DOMAIN q = DOMAIN r /\ q.pc = "out" /\ q.id = r.id /\ q.new = r.new
      /\ q.wrote = r.wrote
  <2>1. PICK u \in {Unmarked(r), [r EXCEPT !.failed = TRUE]} :
            run' = [run EXCEPT ![w] = [u EXCEPT !.pc = "out"]]
    BY <1>1
  <2>2. /\ DOMAIN u = DOMAIN r /\ u.id = r.id /\ u.new = r.new /\ u.wrote = r.wrote
    BY <1>2 DEF Unmarked, Formed, Record
  <2>3. q = [u EXCEPT !.pc = "out"]
    BY <1>2, <2>1
  <2> HIDE DEF q, r
  <2>. QED BY <1>2, <2>2, <2>3 DEF Formed, Record
<1>5. /\ run' = [v \in Writers |-> run'[v]]
      /\ \A v \in Writers \ {w} : SameWriter(run[v], run'[v])
  BY <1>1, <1>2 DEF SameWriter
<1>6. /\ DOMAIN core' = Ids /\ searcher' = searcher
      /\ \A i \in Ids : core'[i] = core[i] \/ i = r.id
  <2> DEFINE docs == <<[id |-> r.id, at |-> r.obj.at]>>
  <2>1. \/ UNCHANGED <<core, searcher>>
        \/ Core!SolrDelete(w, {r.id})
        \/ Core!SolrAdd(w, docs)
    BY DEF Callback, Sends, solr
  <2>2. CASE UNCHANGED <<core, searcher>>
    BY <1>2, <2>2
  <2>3. CASE Core!SolrDelete(w, {r.id})
    BY <2>3 DEF Core!SolrDelete
  <2>4. CASE Core!SolrAdd(w, docs)
    <3>1. \A n \in DOMAIN docs : docs[n].id = r.id
      OBVIOUS
    <3> HIDE DEF docs
    <3>2. DOMAIN core' = Ids /\ \A i \in Ids : core'[i] = core[i] \/ i = r.id
      BY <2>4, <3>1, AddTouches
    <3>. QED BY <2>4, <3>2 DEF Core!SolrAdd
  <2>. QED BY <2>1, <2>2, <2>3, <2>4
<1> HIDE DEF q
<1>7. Formed(q) /\ ~q.wrote /\ ~Unborn(q)
  BY <1>2, <1>3, <1>4 DEF Formed, Record, Unborn
<1>8. run'[w] = q
  BY DEF q
<1>. QED BY <1>1, <1>2, <1>3, <1>4, <1>5, <1>6, <1>7, <1>8, OneMoves

\* Of a committed row that was not there before, no orphan was made.
LEMMA CommitKeeps ==
    ASSUME Clean, NEW w \in Writers, CommitTransaction(w)
    PROVE  Clean'
<1> DEFINE r == run[w]
           q == run'[w]
<1>1. /\ r.pc = "in" /\ UNCHANGED <<core, searcher, task, used>>
      /\ db' = [db EXCEPT ![r.id] = RowOf(w)]
      /\ \E runs \in BOOLEAN : run' = [run EXCEPT ![w] = Committed(r, runs)]
  BY DEF CommitTransaction, Becomes, solr
<1>2. Formed(r) /\ DOMAIN db = Ids
      /\ run = [v \in Writers |-> run[v]] /\ \A v \in Writers : Formed(run[v])
  BY DEF Clean, Shape
<1>3. r.wrote /\ ~r.new /\ r.id \in Ids /\ RowOf(w) = r.draft
  BY <1>1, <1>2 DEF Formed, RowOf
<1>4. /\ DOMAIN q = DOMAIN r /\ q.pc \in {"callback", "out"} /\ q.id = r.id
      /\ q.new = r.new /\ q.wrote = FALSE
  <2>1. PICK runs \in BOOLEAN : run' = [run EXCEPT ![w] = Committed(r, runs)]
    BY <1>1
  <2>2. q = Committed(r, runs)
    BY <1>2, <2>1
  <2> HIDE DEF q, r
  <2>. QED BY <1>2, <1>3, <2>2 DEF Committed, Formed, Record
<1>5. /\ run' = [v \in Writers |-> run'[v]]
      /\ \A v \in Writers \ {w} : SameWriter(run[v], run'[v])
  BY <1>1, <1>2 DEF SameWriter
<1> HIDE DEF q
<1>6. Formed(q)
  BY <1>2, <1>3, <1>4 DEF Formed, Record
<1> USE DEF q
<1>7. DOMAIN db' = Ids /\ db'[r.id] = r.draft /\ \A i \in Ids \ {r.id} : db'[i] = db[i]
  BY <1>1, <1>2, <1>3
<1>8. ASSUME NEW i \in Ids \ {r.id}, Nowhere(i)
      PROVE  Nowhere(i)'
  BY <1>1, <1>7, <1>8 DEF Nowhere, Sending, Exists
<1>9. Shape'
  BY <1>1, <1>5, <1>6, <1>7 DEF Clean, Shape, SameWriter
<1>10. OneHolder'
  BY <1>4, <1>5 DEF Clean, OneHolder, SameWriter
<1>11. UnusedNowhere'
  BY <1>1, <1>4, <1>5, <1>8 DEF Clean, UnusedNowhere, SameWriter
<1>12. ASSUME NEW v \in Writers, Unborn(run[v])'
       PROVE  Nowhere(run[v].id)' /\ \A u \in Writers : run'[u].id = run'[v].id => u = v
  <2>1. v # w /\ run'[v].id = run[v].id /\ SameWriter(run[v], run'[v])
    BY <1>3, <1>4, <1>5, <1>12 DEF Unborn, SameWriter
  <2>2. run[v].id \in Ids
    BY <1>2, <1>12, <2>1 DEF Unborn, SameWriter, Formed
  <2>3. run[v].id # r.id
    BY <1>3, <1>12, <2>1 DEF Unborn, SameWriter, Clean, OneHolder, UnbornNowhere
  <2>4. Unborn(run[v])
    BY <1>7, <1>12, <2>1, <2>2, <2>3 DEF Unborn, SameWriter, Exists
  <2>5. PICK n \in Ids \ {r.id} : n = run[v].id
    BY <2>2, <2>3
  <2>6. Nowhere(n)' /\ \A u \in Writers : run[u].id = n => u = v
    BY <1>8, <2>4, <2>5 DEF Clean, UnbornNowhere
  <2>7. Nowhere(run[v].id)'
    BY <2>1, <2>5, <2>6 DEF Nowhere
  <2>. QED BY <1>4, <1>5, <2>1, <2>5, <2>6, <2>7 DEF SameWriter
<1>13. ASSUME task.pc = "remove", NEW i \in task.found
       PROVE  ~Exists(db'[i])
  <2>1. ~Exists(db[i])
    BY <1>13 DEF Clean, OrphansHaveNoRow
  <2>2. CASE i = r.id
    <3>1. Exists(r.draft) => Nowhere(i)
      BY <1>3, <2>1, <2>2 DEF Clean, UnbornNowhere, Unborn
    <3>. QED BY <1>7, <1>13, <2>2, <3>1 DEF Nowhere
  <2>3. CASE i # r.id
    BY <1>1, <2>1, <2>3
  <2>. QED BY <2>2, <2>3
<1>14. OrphansHaveNoRow'
  BY <1>1, <1>13 DEF OrphansHaveNoRow, Exists
<1>. QED BY <1>9, <1>10, <1>11, <1>12, <1>14 DEF Clean, UnbornNowhere

\* A request that is over, or rolled back, has no record.
LEMMA EndKeeps ==
    ASSUME Clean, NEW w \in Writers,
           NEW q \in {Idle("orderly"), Idle("raised"), RolledBack(run[w])}, Becomes(w, q),
           UNCHANGED <<db, core, task, used>>, searcher' = searcher \/ searcher' = core
    PROVE  Clean'
<1>1. IsTask(task) /\ DOMAIN core = Ids /\ DOMAIN searcher = Ids
      /\ run = [v \in Writers |-> run[v]] /\ \A v \in Writers : Formed(run[v])
  BY DEF Clean, Shape
<1>2. Formed(q) /\ q.id \notin Ids /\ ~q.wrote /\ ~Unborn(q)
  <2>1. q = RolledBack(run[w]) =>
            Formed(q) /\ q.id = 0 /\ ~q.wrote /\ ~Unborn(q)
    BY DEF RolledBack, Idle, Formed, Record, Unborn
  <2>. QED BY <2>1, IdleFormed, NamesAssumption
<1>3. /\ run' = [v \in Writers |-> run'[v]] /\ run'[w] = q
      /\ \A v \in Writers \ {w} : SameWriter(run[v], run'[v])
  BY <1>1 DEF SameWriter, Becomes
<1>4. DOMAIN searcher' = Ids
      /\ \A i \in Ids : searcher'[i] = searcher[i] \/ searcher'[i] = core[i]
  BY <1>1
<1>. QED BY <1>1, <1>2, <1>3, <1>4, OneMoves

LEMMA WriterKeeps ==
    ASSUME Clean, config.after = "commit", NEW w \in Writers, Writer(w)
    PROVE  Clean'
<1>1. ASSUME NEW i \in Ids, Load(w, i) \/ Build(w, i)
      PROVE  Clean'
  BY <1>1, LoadKeeps, BuildKeeps
<1>2. ASSUME NEW change, Save(w, change)
      PROVE  Clean'
  BY <1>2, SaveKeeps
<1>3. CASE Destroy(w)
  BY <1>3, DestroyKeeps
<1>4. ASSUME NEW o, Callback(w, o)
      PROVE  Clean'
  BY <1>4, CallbackKeeps
<1>5. ASSUME NEW o, EndRequest(w, o)
      PROVE  Clean'
  <2>1. Becomes(w, Idle("orderly")) \/ Becomes(w, Idle("raised"))
    BY <1>5 DEF EndRequest
  <2>2. UNCHANGED <<db, core, task, used>> /\ (searcher' = searcher \/ searcher' = core)
    BY <1>5 DEF EndRequest, solr, Core!SolrCommit
  <2>. QED BY <2>1, <2>2, EndKeeps
<1>6. CASE CommitTransaction(w)
  BY <1>6, CommitKeeps
<1>7. CASE Rollback(w) \/ ActionRaises(w)
  <2>1. Becomes(w, RolledBack(run[w])) \/ Becomes(w, Idle("raised"))
    BY <1>7 DEF Rollback, ActionRaises
  <2>2. UNCHANGED <<db, core, task, used>> /\ searcher' = searcher
    BY <1>7 DEF Rollback, ActionRaises, solr
  <2>. QED BY <2>1, <2>2, EndKeeps
<1>. QED BY <1>1, <1>2, <1>3, <1>4, <1>5, <1>6, <1>7 DEF Writer

-----------------------------------------------------------------------------
(* The steps of the task.                                                  *)

\* A step of the task that reads nothing new.
LEMMA ReadsNothing ==
    ASSUME Clean, run' = [v \in Writers |-> run'[v]],
           \A v \in Writers : SameWriter(run[v], run'[v]),
           UNCHANGED <<db, used>>, IsTask(task'), DOMAIN core' = Ids, DOMAIN searcher' = Ids,
           \A i \in Ids : core'[i] \in {0, core[i]} \/ i \in Sending,
           \A i \in Ids : searcher'[i] = searcher[i] \/ searcher'[i] = core[i],
           task'.found \subseteq task.found,
           task'.batch = task.batch \/ task'.batch = << >>,
           task'.pc = "remove" => task.pc = "remove"
    PROVE  Clean'
<1>1. \A n \in DOMAIN task'.batch : task'.batch[n].id \in Sending
  BY DEF Sending
<1>2. task'.pc = "remove" => \A i \in task'.found : ~Exists(db[i])
  BY DEF Clean, OrphansHaveNoRow
<1>. QED BY <1>1, <1>2, TaskMoves

LEMMA Still ==
    ASSUME Clean
    PROVE  /\ DOMAIN core = Ids /\ DOMAIN searcher = Ids /\ IsTask(task)
           /\ run' = run => /\ run' = [v \in Writers |-> run'[v]]
                            /\ \A v \in Writers : SameWriter(run[v], run'[v])
BY DEF Clean, Shape, SameWriter

\* After a request the task goes on, with nothing it has not had, or is over.
LEMMA GoesOn ==
    ASSUME IsTask(task), NEW next, IsTask(next), next.found \subseteq task.found,
           next.batch = task.batch \/ next.batch = << >>, next.pc # "remove",
           NEW outcome, Proceeds(outcome, next)
    PROVE  /\ IsTask(task') /\ task'.found \subseteq task.found
           /\ task'.batch = task.batch \/ task'.batch = << >>
           /\ task'.pc # "remove"
<1>1. \/ task' = next
      \/ task' = [next EXCEPT !.skipped = TRUE]
      \/ task' = TaskOver("failed")
  BY DEF Proceeds, Does
<1>2. CASE task' = next
  BY <1>2
<1>3. CASE task' = [next EXCEPT !.skipped = TRUE]
  BY <1>3 DEF IsTask
<1>4. CASE task' = TaskOver("failed")
  BY <1>4 DEF TaskOver, Resting, IsTask
<1>. QED BY <1>1, <1>2, <1>3, <1>4

LEMMA StartKeeps ==
    ASSUME Clean, NEW job, StartTask(job)
    PROVE  Clean'
<1>1. /\ run' = [w \in Writers |-> [run[w] EXCEPT !.alone = FALSE]]
      /\ UNCHANGED <<db, core, searcher, used>>
  BY DEF StartTask, solr
<1>2. /\ IsTask(task') /\ task'.found = {} /\ task'.batch = << >> /\ task'.pc # "remove"
  BY DEF StartTask, Does, Resting, IsTask
<1>3. \A v \in Writers : SameWriter(run[v], run'[v])
  BY <1>1 DEF Clean, Shape, SameWriter, Formed, Record
<1>. QED BY <1>1, <1>2, <1>3, Still, ReadsNothing

\* The requests of a rebuild: the removal of everything, batches, and commits.
LEMMA RebuildKeeps ==
    ASSUME Clean, NEW o, Wipe(o) \/ SendBatch(o) \/ CommitBatch(o) \/ EndReindex(o)
    PROVE  Clean'
<1>1. UNCHANGED <<db, run, used>>
  BY DEF Wipe, SendBatch, CommitBatch, EndReindex, TaskCommits
<1>2. /\ DOMAIN core' = Ids /\ DOMAIN searcher' = Ids
      /\ \A i \in Ids : core'[i] \in {0, core[i]} \/ i \in Sending
      /\ \A i \in Ids : searcher'[i] = searcher[i] \/ searcher'[i] = core[i]
  <2>1. \/ UNCHANGED <<core, searcher>>
        \/ Core!SolrDelete(Task, Ids)
        \/ Core!SolrAdd(Task, task.batch)
        \/ Core!SolrCommit
    BY DEF Wipe, SendBatch, CommitBatch, EndReindex, TaskCommits, Sends, solr
  <2>2. CASE UNCHANGED <<core, searcher>> \/ Core!SolrDelete(Task, Ids) \/ Core!SolrCommit
    BY <2>2, Still DEF Core!SolrDelete, Core!SolrCommit
  <2>3. CASE Core!SolrAdd(Task, task.batch)
    <3>1. searcher' = searcher
      BY <2>3 DEF Core!SolrAdd
    <3>2. DOMAIN core' = Ids
          /\ \A i \in Ids : core'[i] = core[i] \/ i \in Sending
      BY <2>3, AddTouches DEF Sending
    <3>. QED BY <3>1, <3>2, Still
  <2>. QED BY <2>1, <2>2, <2>3
<1> DEFINE Calm == /\ IsTask(task') /\ task'.found \subseteq task.found
                   /\ task'.batch = task.batch \/ task'.batch = << >>
                   /\ task'.pc # "remove"
<1>3. Calm
  <2>1. \/ Does(TaskOver("reindex"))
        \/ \E next \in {[task EXCEPT !.pc = "read"], TaskOver("rake"),
                        [task EXCEPT !.pc = "commit", !.batch = << >>],
                        [task EXCEPT !.pc = "read", !.batch = << >>]} : Proceeds(o, next)
    BY DEF Wipe, SendBatch, CommitBatch, EndReindex, TaskCommits
  <2>2. CASE Does(TaskOver("reindex"))
    BY <2>2 DEF Does, TaskOver, Resting, IsTask
  <2>3. ASSUME NEW next \in {[task EXCEPT !.pc = "read"], TaskOver("rake"),
                             [task EXCEPT !.pc = "commit", !.batch = << >>],
                             [task EXCEPT !.pc = "read", !.batch = << >>]},
               Proceeds(o, next)
        PROVE  Calm
    <3>1. IsTask(next) /\ next.found \subseteq task.found /\ next.pc # "remove"
          /\ (next.batch = task.batch \/ next.batch = << >>)
      BY Still DEF IsTask, TaskOver, Resting
    <3>. QED BY <2>3, <3>1, Still, GoesOn
  <2>. QED BY <2>1, <2>2, <2>3
<1>. QED BY <1>1, <1>2, <1>3, Still, ReadsNothing

LEMMA ReadBatchKeeps ==
    ASSUME IsFiniteSet(Ids), Clean, ReadBatch
    PROVE  Clean'
<1> DEFINE ids == NextRows(task.last)
           list == Documents(ids)
<1>1. /\ UNCHANGED <<db, core, searcher, run, used>>
      /\ \/ task' = [task EXCEPT !.pc = "last"]
         \/ task' = [task EXCEPT !.pc = "send", !.batch = list,
                                 !.last = CHOOSE i \in ids : \A j \in ids : j <= i]
  BY DEF ReadBatch, Does, solr
<1>2. ids \in SUBSET Ids /\ \A i \in ids : Exists(db[i])
  BY DEF NextRows
<1>3. IsFiniteSet(ids)
  BY <1>2, FS_Subset
<1> HIDE DEF ids
<1>4. \A n \in DOMAIN list : Exists(db[list[n].id])
  BY <1>2, <1>3, DocumentsOf
<1> HIDE DEF list
<1>5. /\ IsTask(task') /\ task'.found = task.found /\ task'.pc # "remove"
      /\ task'.batch = task.batch \/ task'.batch = list
  BY <1>1, Still DEF IsTask
<1>6. \A n \in DOMAIN task'.batch :
          task'.batch[n].id \in Sending \/ Exists(db[task'.batch[n].id])
  BY <1>4, <1>5 DEF Sending
<1>. QED BY <1>1, <1>5, <1>6, Still, TaskMoves

\* Pages of ids, the rows they are compared with, and the removals.
LEMMA CleaningKeeps ==
    ASSUME Clean, ReadPage \/ SelectOrphans \/ EndClean \/ TaskKilled
    PROVE  Clean'
<1>1. UNCHANGED <<db, core, searcher, run, used>>
  BY DEF ReadPage, SelectOrphans, EndClean, TaskKilled, solr
<1>2. /\ IsTask(task')
      /\ task'.batch = task.batch \/ task'.batch = << >>
      /\ \A i \in task'.found : i \in task.found \/ (i \in Ids /\ searcher[i] # 0)
      /\ task'.pc = "remove" => \A i \in task'.found : ~Exists(db[i])
  <2>1. CASE ReadPage
    <3> DEFINE page == PageOf(task.page)
    <3>1. page \subseteq Ids /\ \A i \in page : searcher[i] # 0
      BY DEF PageOf, Published
    <3>2. task' = [task EXCEPT
             !.pc = IF page = {} THEN "select" ELSE "page",
             !.page = @ + 1, !.found = @ \cup page,
             !.shown = IF task.page = 1 THEN Published ELSE @,
             !.skipped = @ \/ (task.page > 1 /\ Published # task.shown)]
      BY <2>1 DEF ReadPage, Does
    <3> HIDE DEF page
    <3>3. /\ IsTask(task') /\ task'.batch = task.batch /\ task'.found = task.found \cup page
          /\ task'.pc \in {"select", "page"}
      BY <3>2, Still DEF IsTask
    <3>. QED BY <3>1, <3>3
  <2>2. CASE SelectOrphans
    <3>1. /\ IsTask(task') /\ task'.batch = task.batch
          /\ task'.found = task.found \ SelectIds
      BY <2>2, Still DEF SelectOrphans, Does, IsTask
    <3>2. task.found \subseteq Ids
      BY DEF Clean, Shape
    <3>. QED BY <3>1, <3>2 DEF SelectIds
  <2>3. CASE EndClean \/ TaskKilled
    BY <2>3 DEF EndClean, TaskKilled, Does, TaskOver, Resting, IsTask
  <2>. QED BY <2>1, <2>2, <2>3
<1>. QED BY <1>1, <1>2, Still, TaskMoves DEF Sending

LEMMA RemoveKeeps ==
    ASSUME Clean, NEW i \in Ids, NEW o, RemoveOrphan(i, o)
    PROVE  Clean'
<1>1. UNCHANGED <<db, run, used>> /\ task.pc = "remove"
  BY DEF RemoveOrphan
<1>2. \/ UNCHANGED <<core, searcher>>
      \/ Core!SolrDelete(Task, {i})
  BY DEF RemoveOrphan, Sends, solr
<1>3. /\ DOMAIN core' = Ids /\ DOMAIN searcher' = Ids /\ searcher' = searcher
      /\ \A n \in Ids : core'[n] \in {0, core[n]}
  BY <1>2, Still DEF Core!SolrDelete
<1>4. /\ IsTask(task') /\ task'.found \subseteq task.found
      /\ task'.batch = task.batch \/ task'.batch = << >>
  <2>1. task' = [task EXCEPT !.found = @ \ {i}] \/ task' = TaskOver("failed")
    BY DEF RemoveOrphan, Does
  <2>2. CASE task' = [task EXCEPT !.found = @ \ {i}]
    BY <2>2, Still DEF IsTask
  <2>3. CASE task' = TaskOver("failed")
    BY <2>3 DEF TaskOver, Resting, IsTask
  <2>. QED BY <2>1, <2>2, <2>3
<1>. QED BY <1>1, <1>3, <1>4, Still, ReadsNothing

LEMMA TaskKeeps ==
    ASSUME IsFiniteSet(Ids), Clean, TaskStep
    PROVE  Clean'
BY StartKeeps, RebuildKeeps, RemoveKeeps, ReadBatchKeeps, CleaningKeeps DEF TaskStep

-----------------------------------------------------------------------------
(* The invariant.                                                          *)

LEMMA CleanInit ==
    ASSUME Init
    PROVE  Clean
<1>1. /\ db \in [Ids -> {NoRow, [at |-> 1, ok |-> TRUE]}]
      /\ core = [i \in Ids |-> Expected(db[i])] /\ searcher = core
      /\ run = [w \in Writers |-> Idle("orderly")] /\ task = Resting
      /\ used = {i \in Ids : Exists(db[i])}
  BY DEF Init
<1>2. IsTask(task) /\ task.found = {} /\ Sending = {} /\ task.pc = "idle"
  BY <1>1 DEF Resting, IsTask, Sending
<1>3. \A w \in Writers : /\ Formed(run[w]) /\ run[w].id \notin Ids
                         /\ ~Unborn(run[w]) /\ ~run[w].wrote
  BY <1>1, IdleFormed
<1>4. Shape
  BY <1>1, <1>2, <1>3 DEF Shape
<1>5. UnusedNowhere
  <2>1. \A i \in Ids \ used : Nowhere(i)
    BY <1>1, <1>2 DEF Nowhere, Expected
  <2>. QED BY <1>3, <2>1 DEF UnusedNowhere
<1>. QED BY <1>2, <1>3, <1>4, <1>5
         DEF Clean, OneHolder, UnbornNowhere, OrphansHaveNoRow

\* The configuration does not change while the program runs.
LEMMA ConfigStays ==
    ASSUME [Next]_vars
    PROVE  config' = config
<1>1. ASSUME NEW w \in Writers, Writer(w)
      PROVE  config' = config
  <2>1. ASSUME NEW i, Load(w, i) \/ Build(w, i) PROVE config' = config
    BY <2>1 DEF Load, Build
  <2>2. ASSUME NEW change, Save(w, change) PROVE config' = config
    BY <2>2 DEF Save
  <2>3. ASSUME NEW o, Callback(w, o) \/ EndRequest(w, o) PROVE config' = config
    BY <2>3 DEF Callback, EndRequest
  <2>4. Destroy(w) \/ CommitTransaction(w) \/ Rollback(w) \/ ActionRaises(w)
            => config' = config
    BY DEF Destroy, CommitTransaction, Rollback, ActionRaises
  <2>. QED BY <1>1, <2>1, <2>2, <2>3, <2>4 DEF Writer
<1>2. TaskStep => config' = config
  <2>1. ASSUME NEW o, Wipe(o) \/ SendBatch(o) \/ CommitBatch(o) \/ EndReindex(o)
        PROVE  config' = config
    BY <2>1 DEF Wipe, SendBatch, CommitBatch, EndReindex, TaskCommits
  <2>2. ASSUME NEW i, NEW o, RemoveOrphan(i, o) PROVE config' = config
    BY <2>2 DEF RemoveOrphan
  <2>3. ASSUME NEW job, StartTask(job) PROVE config' = config
    BY <2>3 DEF StartTask
  <2>4. ReadBatch \/ ReadPage \/ SelectOrphans \/ EndClean \/ TaskKilled
            => config' = config
    BY DEF ReadBatch, ReadPage, SelectOrphans, EndClean, TaskKilled
  <2>. QED BY <2>1, <2>2, <2>3, <2>4 DEF TaskStep
<1>. QED BY <1>1, <1>2 DEF Next, vars

LEMMA CleanInductive ==
    ASSUME IsFiniteSet(Ids), CleanInv, [Next]_vars
    PROVE  CleanInv'
<1>1. config' = config
  BY ConfigStays
<1>2. SUFFICES ASSUME config.after = "commit", Clean
               PROVE  Clean'
  BY <1>1 DEF CleanInv
<1>3. CASE TaskStep
  BY <1>2, <1>3, TaskKeeps
<1>4. ASSUME NEW w \in Writers, Writer(w)
      PROVE  Clean'
  BY <1>2, <1>4, WriterKeeps
<1>5. CASE UNCHANGED vars
  BY <1>2, <1>5 DEF vars, solr, Clean, Shape, Formed, Record, IsTask, OneHolder,
     UnusedNowhere, UnbornNowhere, OrphansHaveNoRow, Nowhere, Sending, Unborn, Exists
<1>. QED BY <1>3, <1>4, <1>5 DEF Next

\* solr_clean_index_orphans, with callbacks after the commit: however many
\* writers, rows, pages, failures and restarts of the task, a removal is only
\* ever asked for an id that has no row.  The table has finitely many rows.
THEOREM OrphansOnly == IsFiniteSet(Ids) => (Spec => []CleansOrphansOnly)
<1>. SUFFICES ASSUME IsFiniteSet(Ids) PROVE Spec => []CleansOrphansOnly
  OBVIOUS
<1>1. Init => CleanInv
  BY CleanInit DEF CleanInv
<1>2. CleanInv /\ [Next]_vars => CleanInv'
  BY CleanInductive
<1>3. CleanInv => CleansOrphansOnly
  BY DEF CleanInv, Clean, OrphansHaveNoRow, CleansOrphansOnly
<1>. QED BY <1>1, <1>2, <1>3, PTL DEF Spec

-----------------------------------------------------------------------------
LEMMA AddGives ==
    ASSUME NEW s, NEW docs \in Seq(Core!Docs), Core!SolrAdd(s, docs), NEW i \in Ids
    PROVE  \/ core'[i] = core[i] /\ \A n \in DOMAIN docs : docs[n].id # i
           \/ \E n \in DOMAIN docs : docs[n].id = i /\ core'[i] = docs[n].at
<1> DEFINE at == Core!At(docs, i)
<1>1. core'[i] = IF at = {} THEN core[i]
                 ELSE docs[CHOOSE n \in at : \A m \in at : m <= n].at
  BY DEF Core!SolrAdd, Core!Overwritten
<1>2. at \subseteq 0 .. Len(docs) /\ Len(docs) \in Nat
      /\ at = {n \in DOMAIN docs : docs[n].id = i}
  BY LenProperties DEF Core!At
<1> HIDE DEF at
<1>3. CASE at = {}
  BY <1>1, <1>2, <1>3
<1>4. CASE at # {}
  <2>1. \E n \in at : \A m \in at : m <= n
    BY <1>2, <1>4, GreatestExists
  <2>2. PICK n \in at : n = CHOOSE k \in at : \A m \in at : m <= k
    BY <2>1
  <2>3. n \in DOMAIN docs /\ docs[n].id = i
    BY <1>2
  <2>4. core'[i] = docs[n].at
    BY <1>1, <1>4, <2>2
  <2>. QED BY <2>3, <2>4
<1>. QED BY <1>3, <1>4

-----------------------------------------------------------------------------
(* With callbacks after the commit every document was a row once.          *)

\* What a writer is about to index: a version that was committed, or the one
\* its transaction has written.
Genuine(w) ==
    LET r == run[w] IN
    r.id \notin spoilt =>
        /\ r.pc = "callback" /\ ~Removes(r) => r.obj.at \in versions[r.id]
        /\ r.pc = "in" /\ ~r.gone /\ r.marks # {} => r.wrote /\ r.draft = r.obj

DocumentsWereRows ==
    /\ versions = [i \in Ids |-> versions[i]]
    /\ \A i \in Ids : db[i].at \in versions[i]
    /\ \A i \in Ids \ spoilt : core[i] \in versions[i] \cup {0}
    /\ \A n \in DOMAIN task.batch : task.batch[n].at \in versions[task.batch[n].id]

RowsInv == config.after = "commit" => DocumentsWereRows /\ \A w \in Writers : Genuine(w)

LEMMA GenuineKept ==
    ASSUME TypeInv, NEW v \in Writers, Genuine(v),
           run'[v] \in {run[v], [run[v] EXCEPT !.alone = FALSE]},
           versions[run[v].id] \subseteq versions'[run[v].id], spoilt \subseteq spoilt'
    PROVE  Genuine(v)'
<1>1. Sound(run[v])
  BY DEF TypeInv, RunTyped
<1> DEFINE r == run[v]
           q == run'[v]
<1>2. /\ q.id = r.id /\ q.pc = r.pc /\ q.gone = r.gone /\ q.marks = r.marks /\ q.wrote = r.wrote
      /\ q.draft = r.draft /\ q.obj = r.obj
  BY <1>1 DEF Sound, Requests
<1>3. versions[r.id] \subseteq versions'[q.id]
  BY <1>2
<1>4. r = run[v] /\ q = run'[v]
  OBVIOUS
<1> HIDE DEF r, q
<1>. QED BY <1>2, <1>3, <1>4 DEF Genuine, Removes

LEMMA WriterRows ==
    ASSUME TypeInv, config.after = "commit", DocumentsWereRows,
           \A v \in Writers : Genuine(v), NEW w \in Writers, Writer(w)
    PROVE  DocumentsWereRows' /\ \A v \in Writers : Genuine(v)'
<1>1. /\ run = [u \in Writers |-> run[u]] /\ \A u \in Writers : Sound(run[u])
      /\ DOMAIN db = Ids /\ task.batch \in Seq(Core!Docs)
  BY DEF TypeInv, RunTyped, WorldTyped, TaskOK
<1>2. ASSUME UNCHANGED <<db, core, versions>>, spoilt \subseteq spoilt', task'.batch = task.batch
      PROVE  DocumentsWereRows'
  BY <1>2 DEF DocumentsWereRows
<1>3. ASSUME UNCHANGED versions, spoilt \subseteq spoilt', run' = [run EXCEPT ![w] = run'[w]],
             Genuine(w)'
      PROVE  \A v \in Writers : Genuine(v)'
  <2>. SUFFICES ASSUME NEW v \in Writers, v # w PROVE Genuine(v)'
    BY <1>3
  <2>1. run'[v] = run[v]
    BY <1>1, <1>3
  <2>. QED BY <1>3, <2>1, GenuineKept
<1>4. ASSUME NEW i \in Ids, Load(w, i) \/ Build(w, i)
      PROVE  DocumentsWereRows' /\ \A v \in Writers : Genuine(v)'
  <2>1. UNCHANGED <<db, core, versions, spoilt, task>> /\ \E obj, new : Takes(w, i, obj, new)
    BY <1>4 DEF Load, Build, solr, history
  <2>2. PICK obj, new : Takes(w, i, obj, new)
    BY <2>1
  <2>3. /\ run'[w].pc = "out"
        /\ \A v \in Writers \ {w} : run'[v] \in {run[v], [run[v] EXCEPT !.alone = FALSE]}
    BY <2>2, TakesShape
  <2>4. Genuine(w)'
    BY <2>3 DEF Genuine
  <2>. QED BY <1>2, <2>1, <2>3, <2>4, GenuineKept
<1>5. ASSUME NEW change, Save(w, change)
      PROVE  DocumentsWereRows' /\ \A v \in Writers : Genuine(v)'
  <2>1. UNCHANGED <<db, core, versions>> /\ spoilt \subseteq spoilt' /\ task'.batch = task.batch
    BY <1>5 DEF Save, solr, Touches, TypeInv, TaskOK, IsTask
  <2>2. /\ run' = [run EXCEPT ![w] = run'[w]] /\ run'[w].pc = "in" /\ run'[w].wrote = TRUE
        /\ run'[w].id = run[w].id
        /\ run'[w].marks # {} /\ run'[w].draft # run'[w].obj => run[w].id \in spoilt'
    BY <1>5, SaveShape
  <2>3. Genuine(w)'
    BY <2>2 DEF Genuine
  <2>. QED BY <1>2, <1>3, <2>1, <2>2, <2>3
<1>6. ASSUME Destroy(w)
      PROVE  DocumentsWereRows' /\ \A v \in Writers : Genuine(v)'
  <2>1. UNCHANGED <<db, core, versions, spoilt>> /\ task'.batch = task.batch
    BY <1>6 DEF Destroy, solr, history, Touches, TypeInv, TaskOK, IsTask
  <2>2. run' = [run EXCEPT ![w] = run'[w]] /\ run'[w].pc = "in" /\ run'[w].gone = TRUE
    BY <1>6, DestroyShape
  <2>3. Genuine(w)'
    BY <2>2 DEF Genuine
  <2>. QED BY <1>2, <1>3, <2>1, <2>2, <2>3
<1>7. ASSUME NEW o, Callback(w, o)
      PROVE  DocumentsWereRows' /\ \A v \in Writers : Genuine(v)'
  <2> DEFINE r == run[w]
  <2>1. UNCHANGED <<db, task, versions, spoilt>>
    BY <1>7 DEF Callback
  <2>2. /\ r.pc = "callback" /\ r.id \in Ids /\ run' = [run EXCEPT ![w] = run'[w]]
        /\ run'[w].pc \in {"out", "over"}
    BY <1>7, CallbackShape
  <2>3. \A i \in Ids \ spoilt : core'[i] \in versions[i] \cup {0}
    <3> SUFFICES ASSUME NEW i \in Ids \ spoilt PROVE core'[i] \in versions[i] \cup {0}
      OBVIOUS
    <3>1. \/ core' = core
          \/ Core!SolrDelete(w, {r.id})
          \/ ~Removes(r) /\ Core!SolrAdd(w, <<[id |-> r.id, at |-> r.obj.at]>>)
      BY <1>7 DEF Callback, Sends, solr
    <3>2. CASE core' = core
      BY <3>2 DEF DocumentsWereRows
    <3>3. CASE Core!SolrDelete(w, {r.id})
      BY <3>3 DEF Core!SolrDelete, DocumentsWereRows
    <3>4. CASE ~Removes(r) /\ Core!SolrAdd(w, <<[id |-> r.id, at |-> r.obj.at]>>)
      <4>1. core'[i] = IF i = r.id THEN r.obj.at ELSE core[i]
        BY <3>4, OneDocument
      <4>2. i = r.id => r.obj.at \in versions[i]
        BY <2>2, <3>4 DEF Genuine
      <4>. QED BY <4>1, <4>2 DEF DocumentsWereRows
    <3>. QED BY <3>1, <3>2, <3>3, <3>4
  <2>4. DocumentsWereRows'
    BY <2>1, <2>3 DEF DocumentsWereRows
  <2>5. Genuine(w)'
    BY <2>2 DEF Genuine
  <2>. QED BY <1>3, <2>1, <2>2, <2>4, <2>5
<1>8. ASSUME CommitTransaction(w)
      PROVE  DocumentsWereRows' /\ \A v \in Writers : Genuine(v)'
  <2> DEFINE r == run[w]
             q == run'[w]
  <2>1. /\ UNCHANGED <<core, task, spoilt>> /\ db' = [db EXCEPT ![r.id] = RowOf(w)]
        /\ versions' = [versions EXCEPT ![r.id] = @ \cup {RowOf(w).at}]
    BY <1>8 DEF CommitTransaction, solr
  <2>2. /\ r.pc = "in" /\ r.id \in Ids /\ run' = [run EXCEPT ![w] = q]
        /\ q.id = r.id /\ q.obj = r.obj /\ q.gone = r.gone /\ q.marks = r.marks
        /\ q.pc \in {"out", "callback"}
        /\ q.pc = "callback" => r.gone \/ r.marks # {}
    BY <1>8, CommitShape
  <2>3. \A i \in Ids : versions[i] \subseteq versions'[i]
    BY <2>1, <2>2 DEF DocumentsWereRows
  <2>4. versions' = [i \in Ids |-> versions'[i]] /\ \A i \in Ids : db'[i].at \in versions'[i]
    BY <1>1, <2>1, <2>2 DEF DocumentsWereRows
  <2>5. DocumentsWereRows'
    <3>1. \A n \in DOMAIN task.batch : task.batch[n].id \in Ids
      <4>1. PICK docs \in Seq(Core!Docs) : docs = task.batch
        BY <1>1
      <4>2. \A n \in DOMAIN docs : docs[n] \in Core!Docs
        BY <4>1, ElementOfSeq
      <4>3. \A n \in DOMAIN docs : docs[n].id \in Ids
        BY <4>2 DEF Core!Docs
      <4>. QED BY <4>1, <4>3
    <3>. QED BY <2>1, <2>3, <2>4, <3>1 DEF DocumentsWereRows
  <2>6. Genuine(w)'
    <3>1. SUFFICES ASSUME q.id \notin spoilt, q.pc = "callback", ~Removes(q)
                   PROVE  q.obj.at \in versions'[q.id]
      BY <2>1, <2>2 DEF Genuine
    <3>2. ~r.gone /\ r.marks # {}
      BY <2>2, <3>1 DEF Removes
    <3>3. RowOf(w) = r.obj
      BY <2>2, <3>1, <3>2 DEF Genuine, RowOf
    <3>. QED BY <2>1, <2>2, <3>3 DEF DocumentsWereRows
  <2>7. ASSUME NEW v \in Writers, v # w
        PROVE  Genuine(v)'
    <3>1. run'[v] = run[v]
      BY <1>1, <2>2, <2>7
    <3>2. run[v].pc \in {"in", "callback"} => run[v].id \in Ids
      BY <1>1 DEF Sound
    <3>3. CASE run[v].id \in Ids
      <4>1. versions[run[v].id] \subseteq versions'[run[v].id]
        BY <2>3, <3>3
      <4>. QED BY <2>1, <3>1, <4>1, GenuineKept
    <3>4. CASE run[v].id \notin Ids
      BY <3>1, <3>2, <3>4 DEF Genuine
    <3>. QED BY <3>3, <3>4
  <2>. QED BY <2>5, <2>6, <2>7
<1>9. ASSUME Rollback(w) \/ ActionRaises(w) \/ \E o \in Outcomes : EndRequest(w, o)
      PROVE  DocumentsWereRows' /\ \A v \in Writers : Genuine(v)'
  <2>1. UNCHANGED <<db, core, versions, task>> /\ spoilt' = spoilt
    BY <1>9 DEF Rollback, ActionRaises, EndRequest, solr, history, Core!SolrCommit
  <2>2. \/ run' = [run EXCEPT ![w] = RolledBack(run[w])]
        \/ \E ended : run' = [run EXCEPT ![w] = Idle(ended)]
    BY <1>9 DEF Rollback, ActionRaises, EndRequest, Becomes
  <2>3. RolledBack(run[w]).pc = "over" /\ \A ended : Idle(ended).pc = "idle"
    BY DEF RolledBack, Idle
  <2>4. run' = [run EXCEPT ![w] = run'[w]] /\ run'[w].pc \in {"over", "idle"}
    BY <1>1, <2>2, <2>3
  <2>5. Genuine(w)'
    BY <2>4 DEF Genuine
  <2>. QED BY <1>2, <1>3, <2>1, <2>4, <2>5
<1>. QED BY <1>4, <1>5, <1>6, <1>7, <1>8, <1>9 DEF Writer

LEMMA TaskRows ==
    ASSUME IsFiniteSet(Ids), TypeInv, DocumentsWereRows, \A v \in Writers : Genuine(v), TaskStep
    PROVE  DocumentsWereRows' /\ \A v \in Writers : Genuine(v)'
<1>1. UNCHANGED <<db, versions, spoilt>>
  BY DEF TaskStep, StartTask, Wipe, SendBatch, CommitBatch, EndReindex, RemoveOrphan,
         ReadBatch, ReadPage, SelectOrphans, EndClean, TaskKilled, TaskCommits, history
<1>2. \A v \in Writers : run'[v] \in {run[v], [run[v] EXCEPT !.alone = FALSE]}
  BY DEF TaskStep, StartTask, Wipe, SendBatch, CommitBatch, EndReindex, RemoveOrphan,
         ReadBatch, ReadPage, SelectOrphans, EndClean, TaskKilled, TaskCommits
<1>3. \A v \in Writers : Genuine(v)'
  BY <1>1, <1>2, GenuineKept
<1>4. \A i \in Ids \ spoilt : core'[i] \in versions[i] \cup {0}
  <2> SUFFICES ASSUME NEW i \in Ids \ spoilt PROVE core'[i] \in versions[i] \cup {0}
    OBVIOUS
  <2>1. \/ core' = core \/ Core!SolrAdd(Task, task.batch) \/ \E ids : Core!SolrDelete(Task, ids)
    BY DEF TaskStep, StartTask, Wipe, SendBatch, CommitBatch, EndReindex, RemoveOrphan,
           ReadBatch, ReadPage, SelectOrphans, EndClean, TaskKilled, TaskCommits, Sends, solr,
           Core!SolrCommit
  <2>2. CASE core' = core
    BY <2>2 DEF DocumentsWereRows
  <2>3. CASE Core!SolrAdd(Task, task.batch)
    <3>1. task.batch \in Seq(Core!Docs)
      BY DEF TypeInv, TaskOK
    <3>2. core'[i] = core[i]
          \/ \E n \in DOMAIN task.batch : task.batch[n].id = i /\ core'[i] = task.batch[n].at
      BY <2>3, <3>1, AddGives
    <3>. QED BY <3>2 DEF DocumentsWereRows
  <2>4. CASE \E ids : Core!SolrDelete(Task, ids)
    BY <2>4 DEF Core!SolrDelete, DocumentsWereRows
  <2>. QED BY <2>1, <2>2, <2>3, <2>4
<1>5. \A n \in DOMAIN task'.batch : task'.batch[n].at \in versions[task'.batch[n].id]
  <2>1. task'.batch \in {task.batch, << >>, Documents(NextRows(task.last))}
    <3>1. IsTask(task)
      BY DEF TypeInv, TaskOK
    <3>2. \A job : TaskOver(job).batch = << >> /\ IsTask(TaskOver(job))
      BY DEF TaskOver, Resting, IsTask
    <3>3. ASSUME NEW next, IsTask(next), NEW o, Proceeds(o, next)
          PROVE  task'.batch \in {next.batch, << >>}
      BY <3>2, <3>3 DEF Proceeds, Does, IsTask
    <3>4. CASE \E job \in Jobs : StartTask(job)
      BY <3>4 DEF StartTask, Does, Resting
    <3>5. CASE \E o \in Outcomes : Wipe(o)
      BY <3>1, <3>3, <3>5 DEF Wipe, IsTask
    <3>6. CASE \E o \in Outcomes : SendBatch(o)
      <4>1. PICK pc, o : Proceeds(o, [task EXCEPT !.pc = pc, !.batch = << >>])
        BY <3>6 DEF SendBatch
      <4>. QED BY <3>1, <3>3, <4>1 DEF IsTask
    <3>7. CASE \E o \in Outcomes : CommitBatch(o)
      BY <3>1, <3>3, <3>7 DEF CommitBatch, TaskCommits, IsTask
    <3>8. CASE \E o \in Outcomes : EndReindex(o)
      BY <3>2, <3>3, <3>8 DEF EndReindex, TaskCommits, Does
    <3>9. CASE ReadBatch
      BY <3>1, <3>9 DEF ReadBatch, Does, IsTask
    <3>10. CASE ReadPage \/ SelectOrphans
      BY <3>1, <3>10 DEF ReadPage, SelectOrphans, Does, IsTask
    <3>11. CASE EndClean \/ TaskKilled
      BY <3>2, <3>11 DEF EndClean, TaskKilled, Does
    <3>12. CASE \E o \in Outcomes : \E i \in Ids : RemoveOrphan(i, o)
      BY <3>1, <3>2, <3>12 DEF RemoveOrphan, Does, IsTask
    <3>. QED BY <3>4, <3>5, <3>6, <3>7, <3>8, <3>9, <3>10, <3>11, <3>12 DEF TaskStep
  <2> DEFINE ids == NextRows(task.last)
             docs == Documents(ids)
  <2>2. ids \in SUBSET Ids /\ IsFiniteSet(ids)
    BY FS_Subset DEF NextRows
  <2> HIDE DEF ids
  <2>3. /\ docs = [n \in DOMAIN docs |-> [id |-> docs[n].id, at |-> db[docs[n].id].at]]
        /\ \A n \in DOMAIN docs : docs[n].id \in ids
    BY <2>2, DocumentsOf
  <2> HIDE DEF docs
  <2>4. \A n \in DOMAIN docs : docs[n].id \in Ids /\ docs[n].at = db[docs[n].id].at
    BY <2>2, <2>3
  <2>5. \A n \in DOMAIN docs : docs[n].at \in versions[docs[n].id]
    BY <2>4 DEF DocumentsWereRows
  <2>. QED BY <2>1, <2>5 DEF DocumentsWereRows, docs, ids
<1>. QED BY <1>1, <1>3, <1>4, <1>5 DEF DocumentsWereRows

LEMMA RowsStep ==
    ASSUME IsFiniteSet(Ids), TypeInv, RowsInv, [Next]_vars
    PROVE  RowsInv'
<1>1. CASE UNCHANGED vars
  BY <1>1 DEF vars, solr, history, RowsInv, DocumentsWereRows, Genuine, Removes
<1>2. ASSUME NEW w \in Writers, Writer(w)
      PROVE  RowsInv'
  <2>1. config' = config
    BY <1>2 DEF Writer, Load, Build, Save, Destroy, Callback, EndRequest, CommitTransaction,
                Rollback, ActionRaises
  <2>. QED BY <1>2, <2>1, WriterRows DEF RowsInv
<1>3. ASSUME TaskStep
      PROVE  RowsInv'
  <2>1. config' = config
    BY <1>3 DEF TaskStep, StartTask, Wipe, SendBatch, CommitBatch, EndReindex, RemoveOrphan,
                ReadBatch, ReadPage, SelectOrphans, EndClean, TaskKilled, TaskCommits
  <2>. QED BY <1>3, <2>1, TaskRows DEF RowsInv
<1>. QED BY <1>1, <1>2, <1>3 DEF Next

\* With callbacks after the commit every document of the index was a row of the
\* database at some time, unless a record whose row was another one was saved;
\* for any number of writers and tasks, whatever fails.
THEOREM DocumentsAreGenuine == IsFiniteSet(Ids) => (Spec => []NoPhantoms)
<1> SUFFICES ASSUME IsFiniteSet(Ids) PROVE Spec => []NoPhantoms
  OBVIOUS
<1>1. Init => RowsInv
  BY DEF Init, RowsInv, DocumentsWereRows, Genuine, Idle, Resting, Expected
<1>2. RowsInv => NoPhantoms
  BY DEF RowsInv, DocumentsWereRows, NoPhantoms
<1>. QED BY <1>1, <1>2, RowsStep, TypeInductive, PTL DEF Spec

-----------------------------------------------------------------------------
(* Batches and pages.                                                      *)

LEMMA RowsOfBatch ==
    ASSUME IsFiniteSet(Ids), NEW last \in Nat
    PROVE  /\ NextRows(last) \in SUBSET Ids /\ IsFiniteSet(NextRows(last))
           /\ \A i \in NextRows(last) : i > last /\ Exists(db[i])
           /\ NextRows(last) = {} => ~ \E i \in Ids : i > last /\ Exists(db[i])
           /\ \A m \in NextRows(last) : \A i \in Ids :
                  i > last /\ i <= m /\ Exists(db[i]) => i \in NextRows(last)
<1> DEFINE all == {i \in Ids : i > last /\ Exists(db[i])}
           ids == NextRows(last)
<1>1. all \subseteq Ids /\ all \subseteq Nat /\ IsFiniteSet(all)
  BY NamesAssumption, FS_Subset
<1>2. ids = {i \in all : Rank(all, i) < BatchSize}
  BY DEF NextRows, Rank
<1> HIDE DEF ids
<1>3. ids \in SUBSET Ids /\ IsFiniteSet(ids) /\ \A i \in ids : i > last /\ Exists(db[i])
  BY <1>1, <1>2, FS_Subset
<1>4. ASSUME all # {}
      PROVE  ids # {}
  <2>1. PICK m \in all : \A x \in all : m <= x
    BY <1>1, <1>4, LeastExists
  <2>2. {k \in all : k < m} = {}
    BY <1>1, <2>1
  <2>3. Rank(all, m) = 0
    BY <2>2, FS_EmptySet DEF Rank
  <2>. QED BY <1>2, <2>1, <2>3, BoundsAssumption
<1>5. ASSUME NEW m \in ids, NEW i \in Ids, i > last, i <= m, Exists(db[i])
      PROVE  i \in ids
  <2>1. m \in all /\ i \in all /\ Rank(all, m) < BatchSize
    BY <1>2, <1>5
  <2>2. Rank(all, i) <= Rank(all, m) /\ Rank(all, i) \in Nat /\ Rank(all, m) \in Nat
    BY <1>1, <1>5, <2>1, RankGrows, RankType
  <2>. QED BY <1>2, <2>1, <2>2, BoundsAssumption
<1>. QED BY <1>3, <1>4, <1>5 DEF ids

LEMMA PagesEnd ==
    ASSUME IsFiniteSet(Ids), NEW page \in Nat \ {0}, PageOf(page) = {}
    PROVE  \A j \in Published : Rank(Published, j) < (page - 1) * BatchSize
<1>1. Published \subseteq Nat /\ IsFiniteSet(Published)
  BY NamesAssumption, FS_Subset DEF Published
<1> DEFINE k == (page - 1) * BatchSize
           n == page * BatchSize - 1
<1>2. k \in Nat /\ n \in Int /\ k <= n
  BY BoundsAssumption
<1>3. \A m \in Published : Rank(Published, m) \notin k .. n
  BY DEF PageOf, Rank
<1> HIDE DEF k, n
<1>4. ASSUME NEW j \in Published, ~(Rank(Published, j) < k)
      PROVE  FALSE
  <2>1. Rank(Published, j) \in Nat
    BY <1>1, RankType
  <2>3. Rank(Published, j) >= k
    BY <1>2, <1>4, <2>1
  <2>2. PICK m \in Published : Rank(Published, m) = k
    BY <1>1, <1>2, <2>3, RankHit
  <2>. QED BY <1>2, <1>3, <2>2
<1>. QED BY <1>4 DEF k

LEMMA PageReads ==
    ASSUME IsFiniteSet(Ids), NEW page \in Nat \ {0}
    PROVE  \A j \in Published :
             Rank(Published, j) < page * BatchSize =>
                j \in PageOf(page) \/ Rank(Published, j) < (page - 1) * BatchSize
<1>1. IsFiniteSet(Published)
  BY FS_Subset DEF Published
<1>2. (page - 1) * BatchSize \in Int /\ page * BatchSize \in Int
  BY BoundsAssumption
<1>3. \A j \in Published : Rank(Published, j) \in Nat
  BY <1>1, RankType
<1>4. \A j \in Published : Rank(Published, j) \in (page - 1) * BatchSize .. page * BatchSize - 1
                             => j \in PageOf(page)
  BY DEF PageOf, Rank
<1>. QED BY <1>2, <1>3, <1>4

-----------------------------------------------------------------------------
(* What a task has repaired so far.                                        *)

\* While a task runs, and afterwards, open transactions have touched their row.
QuietFor(w) == run[w].pc \in {"in", "callback"} => run[w].id \in task.touched

TaskForm(t) ==
    /\ t.pc \in {"wipe", "read", "send", "last"} => t.job \in {"reindex", "rake"}
    /\ t.pc = "commit" => t.job = "reindex"
    /\ t.pc = "wipe" => t.last = 0
    /\ t.pc = "page" => t.page \in Nat \ {0}
    /\ t.last \in Nat
    /\ t.shown \subseteq Ids
    /\ t.skipped \in BOOLEAN

\* What a row reindexed up to the last id has in the index.
Filled(t, i, row) == IF i <= t.last THEN Expected(row) ELSE 0

Sent(t, i) == {n \in DOMAIN t.batch : t.batch[n].id = i}

\* The index of an untouched row while the index is rebuilt: c in the core, s in
\* the searcher.
Rebuilding(t, i, row, c, s) ==
    /\ t.pc \in {"read", "commit"} => c = Filled(t, i, row)
    /\ t.pc = "send" =>
         IF Sent(t, i) = {} THEN c = Filled(t, i, row)
         ELSE \A n \in Sent(t, i) : t.batch[n].at = Expected(row) /\ i <= t.last
    /\ t.pc = "last" => c = Expected(row)
    /\ t.pc \in {"read", "last"} /\ t.job = "reindex" /\ t.last # 0 => s = c

\* The same while orphans are looked for and removed.
Searching(t, i, row, c, s) ==
    /\ t.pc = "page" => c = s /\ (t.page > 1 /\ s # 0 => i \in t.shown)
    /\ t.pc = "select" => (c # 0 => i \in t.found)
    /\ t.pc = "remove" => (c # 0 /\ ~Exists(row) => i \in t.found)

\* When the task has ended.
Repaired(t, i, row, c, s) ==
    t.pc = "idle" =>
        /\ t.ended \in {"reindex", "rake"} => c = Expected(row)
        /\ t.ended = "rake" \/ (t.ended = "reindex" /\ t.last # 0) => s = c
        /\ t.ended = "clean" /\ ~Exists(row) => c = 0

Stage(t, i, row, c, s) ==
    Rebuilding(t, i, row, c, s) /\ Searching(t, i, row, c, s) /\ Repaired(t, i, row, c, s)

\* The pages read so far hold the smallest of the ids published at the first one.
PagesFound(t) ==
    t.pc = "page" /\ t.page > 1 =>
        \A j \in t.shown : Rank(t.shown, j) < (t.page - 1) * BatchSize => j \in t.found

StagesRight ==
    /\ \A i \in Ids \ task.touched : Stage(task, i, db[i], core[i], searcher[i])
    /\ PagesFound(task)

RepairInv ==
    /\ tasks \in Nat
    /\ TaskForm(task)
    /\ tasks = 0 => task = Resting
    /\ tasks # 0 => \A w \in Writers : QuietFor(w)
    /\ ~task.skipped => StagesRight

\* The task is where it was, whatever else was touched.
SameJob(t, q) ==
    /\ q.pc = t.pc /\ q.job = t.job /\ q.last = t.last /\ q.batch = t.batch
    /\ q.found = t.found /\ q.page = t.page /\ q.shown = t.shown
    /\ q.skipped = t.skipped /\ q.ended = t.ended

LEMMA StageAside ==
    ASSUME NEW t, NEW q, SameJob(t, q), NEW i, NEW row, NEW c, NEW s, NEW z,
           z \in {s, c}, Stage(t, i, row, c, s)
    PROVE  Stage(q, i, row, c, z)
<1>1. Sent(q, i) = Sent(t, i) /\ Filled(q, i, row) = Filled(t, i, row)
  BY DEF SameJob, Sent, Filled
<1>2. Rebuilding(q, i, row, c, z)
  BY <1>1 DEF SameJob, Stage, Rebuilding
<1>3. Searching(q, i, row, c, z)
  BY DEF SameJob, Stage, Searching
<1>4. Repaired(q, i, row, c, z)
  BY DEF SameJob, Stage, Repaired
<1>. QED BY <1>2, <1>3, <1>4 DEF Stage

\* What a request touches is remembered, and nothing else of the task changes.
LEMMA TouchesMore ==
    ASSUME TypeInv, NEW i \in Ids, Touches(i)
    PROVE  /\ SameJob(task, task') /\ task.touched \subseteq task'.touched
           /\ tasks # 0 => i \in task'.touched
  BY DEF TypeInv, TaskOK, IsTask, Touches, SameJob

\* Writers leave the index and the rows alone that no transaction touches.
LEMMA WriterAside ==
    ASSUME TypeInv, tasks # 0, \A v \in Writers : QuietFor(v), NEW w \in Writers, Writer(w)
    PROVE  /\ SameJob(task, task') /\ task.touched \subseteq task'.touched
           /\ \A v \in Writers : QuietFor(v)'
           /\ \A i \in Ids \ task'.touched :
                core'[i] = core[i] /\ db'[i] = db[i] /\ searcher'[i] \in {searcher[i], core[i]}
<1> DEFINE Goal == /\ SameJob(task, task') /\ task.touched \subseteq task'.touched
                   /\ \A v \in Writers : QuietFor(v)'
                   /\ \A i \in Ids \ task'.touched :
                        core'[i] = core[i] /\ db'[i] = db[i]
                        /\ searcher'[i] \in {searcher[i], core[i]}
<1>1. run = [v \in Writers |-> run[v]]
  BY DEF TypeInv, RunTyped
<1>2. ASSUME task' = task
      PROVE  SameJob(task, task') /\ task.touched \subseteq task'.touched
  BY <1>2 DEF SameJob
<1>3. ASSUME run' = [run EXCEPT ![w] = run'[w]], task.touched \subseteq task'.touched, QuietFor(w)'
      PROVE  \A v \in Writers : QuietFor(v)'
  <2>. SUFFICES ASSUME NEW v \in Writers, v # w PROVE QuietFor(v)'
    BY <1>3
  <2>1. run'[v] = run[v]
    BY <1>1, <1>3
  <2>. QED BY <1>3, <2>1 DEF QuietFor
<1>4. ASSUME NEW i \in Ids, Load(w, i) \/ Build(w, i)
      PROVE  Goal
  <2>1. UNCHANGED <<db, core, searcher, task>> /\ \E obj, new : Takes(w, i, obj, new)
    BY <1>4 DEF Load, Build, solr
  <2>2. PICK obj, new : Takes(w, i, obj, new)
    BY <2>1
  <2>3. /\ run'[w].pc = "out"
        /\ \A v \in Writers \ {w} : run'[v] \in {run[v], [run[v] EXCEPT !.alone = FALSE]}
    BY <2>2, TakesShape
  <2>4. ASSUME NEW v \in Writers, v # w
        PROVE  QuietFor(v)'
    <3>1. Sound(run[v])
      BY DEF TypeInv, RunTyped
    <3>2. run'[v].pc = run[v].pc /\ run'[v].id = run[v].id
      BY <2>3, <2>4, <3>1 DEF Sound, Requests
    <3>. QED BY <2>1, <3>2 DEF QuietFor
  <2>5. QuietFor(w)'
    BY <2>3 DEF QuietFor
  <2>. QED BY <1>2, <2>1, <2>4, <2>5
<1>5. ASSUME (\E change : Save(w, change)) \/ Destroy(w)
      PROVE  Goal
  <2>1. /\ run[w].id \in Ids /\ run' = [run EXCEPT ![w] = run'[w]] /\ run'[w].id = run[w].id
    BY <1>5, SaveShape, DestroyShape
  <2>2. Opened(w).id = run[w].id
    BY DEF Opened, TypeInv, RunTyped, Sound, Requests
  <2>3. UNCHANGED <<db, core, searcher>> /\ Touches(run[w].id)
    BY <1>5, <2>2 DEF Save, Destroy, solr
  <2>4. /\ SameJob(task, task') /\ task.touched \subseteq task'.touched
        /\ run[w].id \in task'.touched
    BY <2>1, <2>3, TouchesMore
  <2>5. QuietFor(w)'
    BY <2>1, <2>4 DEF QuietFor
  <2>. QED BY <1>3, <2>1, <2>3, <2>4, <2>5
<1>6. ASSUME NEW o, Callback(w, o)
      PROVE  Goal
  <2> DEFINE r == run[w]
  <2>1. UNCHANGED <<db, task>>
    BY <1>6 DEF Callback
  <2>2. /\ r.pc = "callback" /\ r.id \in Ids /\ run' = [run EXCEPT ![w] = run'[w]]
        /\ run'[w].pc # "over" => run'[w].id = r.id
    BY <1>6, CallbackShape
  <2>3. r.id \in task.touched
    BY <2>2 DEF QuietFor
  <2>4. QuietFor(w)'
    BY <2>1, <2>2, <2>3 DEF QuietFor
  <2>5. \/ UNCHANGED <<core, searcher>>
        \/ Core!SolrDelete(w, {r.id})
        \/ Core!SolrAdd(w, <<[id |-> r.id, at |-> r.obj.at]>>)
    BY <1>6 DEF Callback, Sends, solr
  <2>6. ASSUME NEW i \in Ids \ task.touched
        PROVE  core'[i] = core[i] /\ searcher'[i] = searcher[i]
    <3>1. i # r.id
      BY <2>3
    <3>2. CASE UNCHANGED <<core, searcher>>
      BY <3>2
    <3>3. CASE Core!SolrDelete(w, {r.id})
      BY <3>1, <3>3 DEF Core!SolrDelete
    <3>4. CASE Core!SolrAdd(w, <<[id |-> r.id, at |-> r.obj.at]>>)
      <4>1. core'[i] = IF i = r.id THEN r.obj.at ELSE core[i]
        BY <3>4, OneDocument
      <4>2. searcher' = searcher
        BY <3>4 DEF Core!SolrAdd
      <4>. QED BY <3>1, <4>1, <4>2
    <3>. QED BY <2>5, <3>2, <3>3, <3>4
  <2>. QED BY <1>2, <1>3, <2>1, <2>2, <2>4, <2>6
<1>7. ASSUME CommitTransaction(w)
      PROVE  Goal
  <2>1. /\ UNCHANGED <<core, searcher, task>> /\ db' = [db EXCEPT ![run[w].id] = RowOf(w)]
    BY <1>7 DEF CommitTransaction, solr
  <2>2. /\ run[w].pc = "in" /\ run' = [run EXCEPT ![w] = run'[w]] /\ run'[w].id = run[w].id
    BY <1>7, CommitShape
  <2>3. run[w].id \in task.touched
    BY <2>2 DEF QuietFor
  <2>4. QuietFor(w)'
    BY <2>1, <2>2, <2>3 DEF QuietFor
  <2>5. \A i \in Ids \ task.touched : db'[i] = db[i]
    BY <2>1, <2>3 DEF TypeInv, WorldTyped
  <2>. QED BY <1>2, <1>3, <2>1, <2>2, <2>4, <2>5
<1>8. ASSUME Rollback(w) \/ ActionRaises(w) \/ \E o \in Outcomes : EndRequest(w, o)
      PROVE  Goal
  <2>1. UNCHANGED <<db, core, task>> /\ searcher' \in {searcher, core}
    BY <1>8 DEF Rollback, ActionRaises, EndRequest, solr, Core!SolrCommit
  <2>2. \/ run' = [run EXCEPT ![w] = RolledBack(run[w])]
        \/ \E ended : run' = [run EXCEPT ![w] = Idle(ended)]
    BY <1>8 DEF Rollback, ActionRaises, EndRequest, Becomes
  <2>3. RolledBack(run[w]).pc = "over" /\ \A ended : Idle(ended).pc = "idle"
    BY DEF RolledBack, Idle
  <2>4. run' = [run EXCEPT ![w] = run'[w]] /\ run'[w].pc \in {"over", "idle"}
    BY <1>1, <2>2, <2>3
  <2>5. QuietFor(w)'
    BY <2>4 DEF QuietFor
  <2>. QED BY <1>2, <1>3, <2>1, <2>4, <2>5
<1>. QED BY <1>4, <1>5, <1>6, <1>7, <1>8 DEF Writer

LEMMA WriterRepairs ==
    ASSUME TypeInv, RepairInv, NEW w \in Writers, Writer(w)
    PROVE  RepairInv'
<1>1. tasks' = tasks
  BY DEF Writer, Load, Build, Save, Destroy, Callback, EndRequest, CommitTransaction, Rollback,
         ActionRaises
<1>2. CASE tasks = 0
  <2>1. task' = task
    BY <1>2 DEF Writer, Load, Build, Save, Destroy, Callback, EndRequest, CommitTransaction,
                Rollback, ActionRaises, Touches
  <2>2. task = Resting
    BY <1>2 DEF RepairInv
  <2>3. \A i, row, c, s : Stage(Resting, i, row, c, s)
    BY DEF Stage, Rebuilding, Searching, Repaired, Resting
  <2>4. PagesFound(Resting)
    BY DEF PagesFound, Resting
  <2>5. StagesRight'
    BY <2>1, <2>2, <2>3, <2>4 DEF StagesRight
  <2>. QED BY <1>1, <1>2, <2>1, <2>5 DEF RepairInv
<1>3. CASE tasks # 0
  <2>1. /\ SameJob(task, task') /\ task.touched \subseteq task'.touched
        /\ \A v \in Writers : QuietFor(v)'
        /\ \A i \in Ids \ task'.touched :
             core'[i] = core[i] /\ db'[i] = db[i] /\ searcher'[i] \in {searcher[i], core[i]}
    BY <1>3, WriterAside DEF RepairInv
  <2>2. TaskForm(task')
    BY <2>1 DEF RepairInv, TaskForm, SameJob
  <2>3. ASSUME ~task.skipped
        PROVE  StagesRight'
    <3>1. PagesFound(task)'
      BY <2>1, <2>3 DEF RepairInv, StagesRight, PagesFound, SameJob
    <3>2. ASSUME NEW i \in Ids \ task'.touched
          PROVE  Stage(task', i, db'[i], core'[i], searcher'[i])
      <4>1. Stage(task, i, db[i], core[i], searcher[i])
        BY <2>1, <2>3, <3>2 DEF RepairInv, StagesRight
      <4>2. Stage(task', i, db[i], core[i], searcher'[i])
        BY <2>1, <3>2, <4>1, StageAside
      <4>. QED BY <2>1, <3>2, <4>2
    <3>. QED BY <3>1, <3>2 DEF StagesRight
  <2>4. task'.skipped = task.skipped
    BY <2>1 DEF SameJob
  <2>. QED BY <1>1, <1>3, <2>1, <2>2, <2>3, <2>4 DEF RepairInv
<1>. QED BY <1>2, <1>3

-----------------------------------------------------------------------------
(* The steps of the task.                                                  *)

LEMMA TaskGoesOn ==
    ASSUME RepairInv, task.pc # "idle", UNCHANGED <<db, run, tasks>>,
           task'.touched = task.touched, TaskForm(task'), ~task'.skipped => StagesRight'
    PROVE  RepairInv'
<1>1. tasks # 0
  BY DEF RepairInv, Resting
<1>2. \A w \in Writers : QuietFor(w)'
  BY <1>1 DEF RepairInv, QuietFor
<1>. QED BY <1>1, <1>2 DEF RepairInv

\* Nothing is said of a task that failed.
LEMMA FailedSaysNothing ==
    ASSUME RepairInv
    PROVE  /\ TaskForm(TaskOver("failed")) /\ TaskOver("failed").touched = task.touched
           /\ PagesFound(TaskOver("failed"))
           /\ \A i, row, c, s : Stage(TaskOver("failed"), i, row, c, s)
<1> DEFINE t == TaskOver("failed")
<1>1. /\ t.pc = "idle" /\ t.ended = "failed" /\ t.last = task.last /\ t.skipped = task.skipped
      /\ t.shown = {} /\ t.touched = task.touched
  BY DEF TaskOver, Resting
<1> HIDE DEF t
<1>2. TaskForm(t)
  BY <1>1 DEF RepairInv, TaskForm
<1>3. PagesFound(t) /\ \A i, row, c, s : Stage(t, i, row, c, s)
  BY <1>1 DEF PagesFound, Stage, Rebuilding, Searching, Repaired
<1>. QED BY <1>1, <1>2, <1>3 DEF t

\* It is enough that what follows a request that succeeded is right.
LEMMA ProceedsRight ==
    ASSUME RepairInv, task.pc # "idle", UNCHANGED <<db, run, tasks>>,
           NEW next, IsTask(next), TaskForm(next), next.touched = task.touched,
           NEW o, Proceeds(o, next),
           o = "ok" /\ ~next.skipped =>
             /\ \A i \in Ids \ task.touched : Stage(next, i, db[i], core'[i], searcher'[i])
             /\ PagesFound(next)
    PROVE  RepairInv'
<1>1. CASE o = "ok"
  <2>1. task' = next
    BY <1>1 DEF Proceeds, Does
  <2>. QED BY <1>1, <2>1, TaskGoesOn DEF StagesRight
<1>2. CASE o # "ok" /\ task.job = "rake"
  <2>1. task' = [next EXCEPT !.skipped = TRUE]
    BY <1>2 DEF Proceeds, Does
  <2>2. /\ task'.skipped = TRUE /\ task'.pc = next.pc /\ task'.job = next.job
        /\ task'.last = next.last /\ task'.page = next.page /\ task'.shown = next.shown
        /\ task'.touched = next.touched
    BY <2>1 DEF IsTask
  <2>3. TaskForm(task')
    BY <2>2 DEF TaskForm
  <2>. QED BY <2>2, <2>3, TaskGoesOn
<1>3. CASE o # "ok" /\ task.job # "rake"
  <2>1. task' = TaskOver("failed")
    BY <1>3 DEF Proceeds, Does
  <2>. QED BY <2>1, FailedSaysNothing, TaskGoesOn DEF StagesRight
<1>. QED BY <1>1, <1>2, <1>3

LEMMA StartRepairs ==
    ASSUME TypeInv, RepairInv, NEW job \in Jobs, StartTask(job)
    PROVE  RepairInv'
<1> DEFINE open == {run[w].id : w \in {v \in Writers : run[v].pc \in {"in", "callback"}}}
           stale == {i \in Ids : job = "clean" /\ core[i] # searcher[i]}
<1>1. /\ tasks' = tasks + 1 /\ UNCHANGED <<db, core, searcher>>
      /\ run' = [w \in Writers |-> [run[w] EXCEPT !.alone = FALSE]]
      /\ task' = [Resting EXCEPT
              !.pc = IF job = "clean" THEN "page" ELSE "wipe", !.job = job, !.page = 1,
              !.touched = open \cup stale]
  BY DEF StartTask, Does, solr
<1>2. \A v \in Writers : run'[v].pc = run[v].pc /\ run'[v].id = run[v].id
  BY <1>1 DEF TypeInv, RunTyped, Sound, Requests
<1>3. /\ task'.pc = (IF job = "clean" THEN "page" ELSE "wipe") /\ task'.job = job
      /\ task'.page = 1 /\ task'.touched = open \cup stale /\ task'.last = 0
      /\ task'.shown = {} /\ task'.skipped = FALSE
  BY <1>1 DEF Resting
<1>4. \A v \in Writers : run[v].pc \in {"in", "callback"} => run[v].id \in open
  OBVIOUS
<1>5. \A v \in Writers : QuietFor(v)'
  BY <1>2, <1>3, <1>4 DEF QuietFor
<1>6. job = "clean" \/ job \in {"reindex", "rake"}
  BY NamesAssumption
<1>7. TaskForm(task')
  <2> DEFINE t == task'
  <2>1. /\ t.pc = "page" \/ (t.pc = "wipe" /\ t.job \in {"reindex", "rake"})
        /\ t.page = 1 /\ t.last = 0 /\ t.shown = {} /\ t.skipped = FALSE
    BY <1>3, <1>6
  <2> HIDE DEF t
  <2>2. t.skipped \in BOOLEAN
    BY <2>1
  <2>3. t.pc \in {"wipe", "read", "send", "last"} => t.job \in {"reindex", "rake"}
    BY <2>1
  <2>4. t.pc # "commit" /\ t.last = 0 /\ t.page \in Nat \ {0} /\ t.last \in Nat
    BY <2>1
  <2>5. t.shown \subseteq Ids
    BY <2>1
  <2>6. TaskForm(t)
    BY <2>2, <2>3, <2>4, <2>5 DEF TaskForm
  <2>. QED BY <2>6 DEF t
<1>8. \A i \in Ids \ task'.touched : Stage(task', i, db[i], core[i], searcher[i])
  <2> SUFFICES ASSUME NEW i \in Ids \ task'.touched
               PROVE  Stage(task', i, db[i], core[i], searcher[i])
    OBVIOUS
  <2>1. job = "clean" => core[i] = searcher[i]
    BY <1>3
  <2> HIDE DEF open, stale
  <2>. QED BY <1>3, <2>1 DEF Stage, Rebuilding, Searching, Repaired
<1>9. PagesFound(task')
  BY <1>3 DEF PagesFound
<1>10. tasks' \in Nat /\ tasks' # 0
  BY <1>1 DEF RepairInv
<1>. QED BY <1>1, <1>5, <1>7, <1>8, <1>9, <1>10 DEF RepairInv, StagesRight

\* The stages of task are right, unless a request was ignored.
LEMMA StageOf ==
    ASSUME RepairInv, ~task.skipped, NEW i \in Ids \ task.touched
    PROVE  Stage(task, i, db[i], core[i], searcher[i])
  BY DEF RepairInv, StagesRight

LEMMA WipeRepairs ==
    ASSUME TypeInv, RepairInv, NEW o, Wipe(o)
    PROVE  RepairInv'
<1> DEFINE next == [task EXCEPT !.pc = "read"]
<1>1. /\ task.pc = "wipe" /\ UNCHANGED <<db, run, tasks>> /\ Proceeds(o, next)
      /\ o = "ok" => Core!SolrDelete(Task, Ids)
  BY DEF Wipe, Sends
<1>2. IsTask(task) /\ TaskForm(task)
  BY DEF TypeInv, TaskOK, RepairInv
<1>3. /\ IsTask(next) /\ next.pc = "read" /\ next.job = task.job /\ next.last = 0
      /\ next.shown = task.shown /\ next.skipped = task.skipped /\ next.touched = task.touched
  BY <1>1, <1>2 DEF IsTask, TaskForm
<1> HIDE DEF next
<1>4. TaskForm(next) /\ PagesFound(next)
  BY <1>1, <1>2, <1>3 DEF TaskForm, PagesFound
<1>5. ASSUME o = "ok", NEW i \in Ids
      PROVE  Stage(next, i, db[i], core'[i], searcher'[i])
  <2>1. core'[i] = 0
    BY <1>1, <1>5 DEF Core!SolrDelete
  <2>2. ~(i <= 0)
    BY NamesAssumption
  <2>. QED BY <1>3, <2>1, <2>2 DEF Stage, Rebuilding, Searching, Repaired, Filled
<1>. QED BY <1>1, <1>3, <1>4, <1>5, ProceedsRight

LEMMA SendRepairs ==
    ASSUME TypeInv, RepairInv, NEW o, SendBatch(o)
    PROVE  RepairInv'
<1> DEFINE next == [task EXCEPT !.pc = IF task.job = "reindex" THEN "commit" ELSE "read",
                                !.batch = << >>]
<1>1. /\ task.pc = "send" /\ UNCHANGED <<db, run, tasks>> /\ Proceeds(o, next)
      /\ o = "ok" => Core!SolrAdd(Task, task.batch)
  BY DEF SendBatch, Sends
<1>2. IsTask(task) /\ TaskForm(task) /\ task.batch \in Seq(Core!Docs)
  BY DEF TypeInv, TaskOK, RepairInv
<1>3. /\ IsTask(next) /\ next.pc = (IF task.job = "reindex" THEN "commit" ELSE "read")
      /\ next.job = task.job /\ next.last = task.last
      /\ next.shown = task.shown /\ next.skipped = task.skipped /\ next.touched = task.touched
  BY <1>2 DEF IsTask
<1> HIDE DEF next
<1>4. TaskForm(next) /\ PagesFound(next)
  BY <1>1, <1>2, <1>3 DEF TaskForm, PagesFound
<1>5. ASSUME o = "ok", ~next.skipped, NEW i \in Ids \ task.touched
      PROVE  Stage(next, i, db[i], core'[i], searcher'[i])
  <2>1. Stage(task, i, db[i], core[i], searcher[i])
    BY <1>3, <1>5, StageOf
  <2>2. \/ core'[i] = core[i] /\ Sent(task, i) = {}
        \/ \E n \in Sent(task, i) : core'[i] = task.batch[n].at
    BY <1>1, <1>2, <1>5, AddGives DEF Sent
  <2>3. core'[i] = Filled(task, i, db[i])
    BY <1>1, <2>1, <2>2 DEF Stage, Rebuilding, Filled
  <2>4. Filled(next, i, db[i]) = Filled(task, i, db[i])
    BY <1>3 DEF Filled
  <2>. QED BY <1>3, <2>3, <2>4 DEF Stage, Rebuilding, Searching, Repaired
<1>. QED BY <1>1, <1>3, <1>4, <1>5, ProceedsRight

LEMMA CommitRepairs ==
    ASSUME TypeInv, RepairInv, NEW o, CommitBatch(o)
    PROVE  RepairInv'
<1> DEFINE next == [task EXCEPT !.pc = "read"]
<1>1. /\ task.pc = "commit" /\ UNCHANGED <<db, run, tasks>> /\ Proceeds(o, next)
      /\ o = "ok" => searcher' = core /\ core' = core
  BY DEF CommitBatch, TaskCommits, Core!SolrCommit
<1>2. IsTask(task) /\ TaskForm(task)
  BY DEF TypeInv, TaskOK, RepairInv
<1>3. /\ IsTask(next) /\ next.pc = "read" /\ next.job = task.job /\ next.last = task.last
      /\ next.shown = task.shown /\ next.skipped = task.skipped /\ next.touched = task.touched
  BY <1>2 DEF IsTask
<1> HIDE DEF next
<1>4. TaskForm(next) /\ PagesFound(next)
  BY <1>1, <1>2, <1>3 DEF TaskForm, PagesFound
<1>5. ASSUME o = "ok", ~next.skipped, NEW i \in Ids \ task.touched
      PROVE  Stage(next, i, db[i], core'[i], searcher'[i])
  <2>1. Stage(task, i, db[i], core[i], searcher[i])
    BY <1>3, <1>5, StageOf
  <2>2. core[i] = Filled(task, i, db[i]) /\ Filled(next, i, db[i]) = Filled(task, i, db[i])
    BY <1>1, <1>3, <2>1 DEF Stage, Rebuilding, Filled
  <2>. QED BY <1>1, <1>3, <1>5, <2>2 DEF Stage, Rebuilding, Searching, Repaired
<1>. QED BY <1>1, <1>3, <1>4, <1>5, ProceedsRight

LEMMA EndRepairs ==
    ASSUME TypeInv, RepairInv, NEW o, EndReindex(o)
    PROVE  RepairInv'
<1>1. task.pc = "last" /\ UNCHANGED <<db, run, tasks>> /\ TaskForm(task)
  BY DEF EndReindex, TaskCommits, RepairInv
<1>2. ASSUME NEW job
      PROVE  /\ IsTask(TaskOver(job)) /\ TaskOver(job).pc = "idle" /\ TaskOver(job).ended = job
             /\ TaskOver(job).last = task.last /\ TaskOver(job).skipped = task.skipped
             /\ TaskOver(job).shown = {} /\ TaskOver(job).touched = task.touched
  BY DEF TaskOver, Resting, IsTask
<1>3. ASSUME NEW job PROVE TaskForm(TaskOver(job)) /\ PagesFound(TaskOver(job))
  BY <1>1, <1>2 DEF TaskForm, PagesFound
<1>4. ASSUME ~task.skipped, NEW i \in Ids \ task.touched
      PROVE  /\ core[i] = Expected(db[i])
             /\ task.job = "reindex" /\ task.last # 0 => searcher[i] = core[i]
  <2>1. Stage(task, i, db[i], core[i], searcher[i])
    BY <1>4, StageOf
  <2>. QED BY <1>1, <2>1 DEF Stage, Rebuilding
<1>5. CASE task.job = "reindex"
  <2>1. task' = TaskOver("reindex") /\ UNCHANGED <<core, searcher>>
    BY <1>5 DEF EndReindex, Does, solr
  <2>2. ASSUME ~task.skipped, NEW i \in Ids \ task.touched
        PROVE  Stage(TaskOver("reindex"), i, db[i], core[i], searcher[i])
    BY <1>2, <1>4, <1>5, <2>2 DEF Stage, Rebuilding, Searching, Repaired
  <2>3. ~task'.skipped => StagesRight'
    BY <1>1, <1>2, <1>3, <2>1, <2>2 DEF StagesRight
  <2>. QED BY <1>1, <1>2, <1>3, <2>1, <2>3, TaskGoesOn
<1>6. CASE task.job # "reindex"
  <2>1. /\ Proceeds(o, TaskOver("rake"))
        /\ o = "ok" => searcher' = core /\ core' = core
    BY <1>6 DEF EndReindex, TaskCommits, Core!SolrCommit
  <2>2. ASSUME o = "ok", ~TaskOver("rake").skipped, NEW i \in Ids \ task.touched
        PROVE  Stage(TaskOver("rake"), i, db[i], core'[i], searcher'[i])
    <3>1. core'[i] = Expected(db[i]) /\ searcher'[i] = core'[i]
      BY <1>2, <1>4, <2>1, <2>2
    <3>. QED BY <1>2, <3>1 DEF Stage, Rebuilding, Searching, Repaired
  <2>. QED BY <1>1, <1>2, <1>3, <2>1, <2>2, ProceedsRight
<1>. QED BY <1>5, <1>6

LEMMA ReadRepairs ==
    ASSUME IsFiniteSet(Ids), TypeInv, RepairInv, ReadBatch
    PROVE  RepairInv'
<1> DEFINE ids == NextRows(task.last)
<1>1. /\ task.pc = "read" /\ UNCHANGED <<db, run, tasks, core, searcher>>
      /\ task' = IF ids = {} THEN [task EXCEPT !.pc = "last"]
                 ELSE [task EXCEPT !.pc = "send", !.batch = Documents(ids),
                                   !.last = CHOOSE i \in ids : \A j \in ids : j <= i]
  BY DEF ReadBatch, Does, solr
<1>2. IsTask(task) /\ TaskForm(task)
  BY DEF TypeInv, TaskOK, RepairInv
<1>3. /\ ids \in SUBSET Ids /\ IsFiniteSet(ids)
      /\ \A i \in ids : i > task.last /\ Exists(db[i])
      /\ ids = {} => ~ \E i \in Ids : i > task.last /\ Exists(db[i])
      /\ \A m \in ids : \A i \in Ids :
             i > task.last /\ i <= m /\ Exists(db[i]) => i \in ids
  BY <1>2, RowsOfBatch DEF TaskForm
<1> HIDE DEF ids
<1>4. ASSUME ~task.skipped, NEW i \in Ids \ task.touched
      PROVE  /\ core[i] = Filled(task, i, db[i])
             /\ task.job = "reindex" /\ task.last # 0 => searcher[i] = core[i]
  <2>1. Stage(task, i, db[i], core[i], searcher[i])
    BY <1>4, StageOf
  <2>. QED BY <1>1, <2>1 DEF Stage, Rebuilding
<1>5. CASE ids = {}
  <2>1. /\ task'.pc = "last" /\ task'.job = task.job /\ task'.last = task.last
        /\ task'.shown = task.shown /\ task'.skipped = task.skipped
        /\ task'.touched = task.touched
    BY <1>1, <1>2, <1>5 DEF IsTask
  <2>2. TaskForm(task') /\ PagesFound(task')
    BY <1>1, <1>2, <2>1 DEF TaskForm, PagesFound
  <2>3. ASSUME ~task.skipped, NEW i \in Ids \ task.touched
        PROVE  Stage(task', i, db[i], core[i], searcher[i])
    <3>0. i \in Nat /\ task.last \in Nat
      BY <1>2, NamesAssumption DEF TaskForm
    <3>1. i <= task.last \/ ~Exists(db[i])
      BY <1>3, <1>5, <3>0
    <3>2. core[i] = Expected(db[i])
      BY <1>4, <2>3, <3>1 DEF Filled, Expected
    <3>. QED BY <1>4, <2>1, <2>3, <3>2 DEF Stage, Rebuilding, Searching, Repaired
  <2>. QED BY <1>1, <2>1, <2>2, <2>3, TaskGoesOn DEF StagesRight
<1>6. CASE ids # {}
  <2> DEFINE docs == Documents(ids)
             last == CHOOSE i \in ids : \A j \in ids : j <= i
  <2>1. last \in ids /\ \A j \in ids : j <= last
    <3>1. \E i \in ids : \A j \in ids : j <= i
      BY <1>3, <1>6, FiniteGreatest, NamesAssumption
    <3>. QED BY <3>1
  <2>2. /\ docs = [n \in DOMAIN docs |-> [id |-> docs[n].id, at |-> db[docs[n].id].at]]
        /\ \A n \in DOMAIN docs : docs[n].id \in ids /\ Indexable(db[docs[n].id])
        /\ \A i \in ids : Indexable(db[i]) => \E n \in DOMAIN docs : docs[n].id = i
    BY <1>3, DocumentsOf
  <2> HIDE DEF docs, last
  <2>3. /\ task'.pc = "send" /\ task'.job = task.job /\ task'.last = last
        /\ task'.batch = docs
        /\ task'.shown = task.shown /\ task'.skipped = task.skipped
        /\ task'.touched = task.touched
    BY <1>1, <1>2, <1>6 DEF IsTask, docs, last
  <2>4. last \in Nat
    BY <1>3, <2>1, NamesAssumption
  <2>5. TaskForm(task') /\ PagesFound(task')
    BY <1>1, <1>2, <2>3, <2>4 DEF TaskForm, PagesFound
  <2>6. ASSUME ~task.skipped, NEW i \in Ids \ task.touched
        PROVE  Stage(task', i, db[i], core[i], searcher[i])
    <3>1. i \in Nat /\ task.last \in Nat /\ last > task.last
      BY <1>2, <1>3, <2>1, NamesAssumption DEF TaskForm
    <3>2. core[i] = Filled(task, i, db[i])
      BY <1>4, <2>6
    <3>3. CASE Sent(task', i) = {}
      <4>1. i \notin ids \/ ~Indexable(db[i])
        BY <2>2, <2>3, <3>3 DEF Sent
      <4>2. i > task.last /\ i <= last => Expected(db[i]) = 0
        BY <1>3, <2>1, <4>1 DEF Expected, Indexable
      <4>3. core[i] = Filled(task', i, db[i])
        BY <2>3, <2>4, <3>1, <3>2, <4>2 DEF Filled
      <4>. QED BY <2>3, <3>3, <4>3 DEF Stage, Rebuilding, Searching, Repaired
    <3>4. CASE Sent(task', i) # {}
      <4>1. PICK n \in DOMAIN docs : docs[n].id = i
        BY <2>3, <3>4 DEF Sent
      <4>2. i <= last
        BY <2>1, <2>2, <4>1
      <4>3. \A k \in Sent(task', i) : task'.batch[k].at = Expected(db[i])
        <5> SUFFICES ASSUME NEW k \in DOMAIN docs, docs[k].id = i
                     PROVE  docs[k].at = Expected(db[i])
          BY <2>3 DEF Sent
        <5>1. docs[k].at = db[i].at
          BY <2>2
        <5>2. i \in ids /\ Exists(db[i]) /\ Indexable(db[i])
          BY <1>3, <2>2
        <5>. QED BY <5>1, <5>2 DEF Expected, Indexable
      <4>. QED BY <2>3, <3>4, <4>2, <4>3 DEF Stage, Rebuilding, Searching, Repaired
    <3>. QED BY <3>3, <3>4
  <2>. QED BY <1>1, <2>3, <2>5, <2>6, TaskGoesOn DEF StagesRight
<1>. QED BY <1>5, <1>6

LEMMA PageRepairs ==
    ASSUME IsFiniteSet(Ids), TypeInv, RepairInv, ReadPage
    PROVE  RepairInv'
<1> DEFINE found == PageOf(task.page)
           p == Published
<1>1. /\ task.pc = "page" /\ UNCHANGED <<db, run, tasks, core, searcher>>
      /\ task' = [task EXCEPT
              !.pc = IF found = {} THEN "select" ELSE "page",
              !.page = @ + 1, !.found = @ \cup found,
              !.shown = IF task.page = 1 THEN p ELSE @,
              !.skipped = @ \/ (task.page > 1 /\ p # task.shown)]
  BY DEF ReadPage, Does, solr
<1>2. IsTask(task) /\ TaskForm(task) /\ task.page \in Nat \ {0}
  BY <1>1 DEF TypeInv, TaskOK, RepairInv, TaskForm
<1>3. p \subseteq Ids /\ found \subseteq p /\ \A i \in Ids : searcher[i] # 0 => i \in p
  BY DEF Published, PageOf
<1>4. /\ found = {} => \A j \in p : Rank(p, j) < (task.page - 1) * BatchSize
      /\ \A j \in p : Rank(p, j) < task.page * BatchSize =>
            j \in found \/ Rank(p, j) < (task.page - 1) * BatchSize
      /\ \A j \in p : Rank(p, j) \in Nat
  <2>1. IsFiniteSet(p)
    BY <1>3, FS_Subset
  <2>. QED BY <1>2, <2>1, PagesEnd, PageReads, RankType
<1> HIDE DEF found, p
<1>5. /\ task'.pc = (IF found = {} THEN "select" ELSE "page") /\ task'.job = task.job
      /\ task'.last = task.last /\ task'.page = task.page + 1
      /\ task'.found = task.found \cup found
      /\ task'.shown = (IF task.page = 1 THEN p ELSE task.shown)
      /\ task'.skipped = (task.skipped \/ (task.page > 1 /\ p # task.shown))
      /\ task'.touched = task.touched
  BY <1>1, <1>2 DEF IsTask
<1>6. TaskForm(task')
  <2>1. task'.shown \subseteq Ids
    BY <1>2, <1>3, <1>5 DEF TaskForm
  <2>2. task'.skipped \in BOOLEAN
    BY <1>2, <1>5 DEF TaskForm
  <2>3. task'.page \in Nat \ {0}
    BY <1>2, <1>5
  <2>. QED BY <1>1, <1>2, <1>5, <2>1, <2>2, <2>3 DEF TaskForm
<1>7. ASSUME ~task'.skipped
      PROVE  StagesRight'
  <2>0. ~task.skipped /\ (task.page > 1 => p = task.shown)
    BY <1>5, <1>7
  <2>1. /\ ~task.skipped /\ task'.shown = p
        /\ task.page > 1 => p = task.shown
    <3>1. task.page = 1 \/ task.page > 1
      BY <1>2
    <3>2. task'.shown = IF task.page = 1 THEN p ELSE task.shown
      BY <1>5
    <3>. QED BY <2>0, <3>1, <3>2
  <2>2. PagesFound(task)
    BY <2>1 DEF RepairInv, StagesRight
  <2>3. \A j \in p : Rank(p, j) < (task.page - 1) * BatchSize => j \in task.found
    <3>1. CASE task.page = 1
      <4>1. (task.page - 1) * BatchSize = 0
        BY <3>1, BoundsAssumption
      <4>. QED BY <1>4, <4>1
    <3>2. CASE task.page > 1
      BY <1>1, <2>1, <2>2, <3>2 DEF PagesFound
    <3>. QED BY <1>2, <3>1, <3>2
  <2>4. \A j \in p : Rank(p, j) < task.page * BatchSize => j \in task'.found
    BY <1>4, <1>5, <2>3
  <2>5. PagesFound(task')
    <3>1. task'.page - 1 = task.page
      BY <1>2, <1>5
    <3>. QED BY <2>1, <2>4, <3>1 DEF PagesFound
  <2>6. ASSUME NEW i \in Ids \ task.touched
        PROVE  Stage(task', i, db[i], core[i], searcher[i])
    <3>1. Stage(task, i, db[i], core[i], searcher[i])
      BY <2>1, <2>6, StageOf
    <3>2. core[i] = searcher[i]
      BY <1>1, <3>1 DEF Stage, Searching
    <3>3. searcher[i] # 0 => i \in p
      BY <1>3, <2>6
    <3>4. found = {} /\ core[i] # 0 => i \in task'.found
      BY <1>4, <1>5, <2>3, <3>2, <3>3
    <3>5. CASE found = {}
      BY <1>5, <3>4, <3>5 DEF Stage, Rebuilding, Searching, Repaired
    <3>6. CASE found # {}
      BY <1>5, <2>1, <3>2, <3>3, <3>6 DEF Stage, Rebuilding, Searching, Repaired
    <3>. QED BY <3>5, <3>6
  <2>. QED BY <1>1, <1>5, <2>5, <2>6 DEF StagesRight
<1>. QED BY <1>1, <1>5, <1>6, <1>7, TaskGoesOn

LEMMA SelectRepairs ==
    ASSUME TypeInv, RepairInv, SelectOrphans
    PROVE  RepairInv'
<1>1. /\ task.pc = "select" /\ UNCHANGED <<db, run, tasks, core, searcher>>
      /\ task' = [task EXCEPT !.pc = "remove", !.found = @ \ SelectIds]
  BY DEF SelectOrphans, Does, solr
<1>2. IsTask(task) /\ TaskForm(task)
  BY DEF TypeInv, TaskOK, RepairInv
<1>3. /\ task'.pc = "remove" /\ task'.found = task.found \ SelectIds
      /\ task'.last = task.last /\ task'.shown = task.shown /\ task'.skipped = task.skipped
      /\ task'.touched = task.touched
  BY <1>1, <1>2 DEF IsTask
<1>4. TaskForm(task') /\ PagesFound(task')
  BY <1>2, <1>3 DEF TaskForm, PagesFound
<1>5. ASSUME ~task.skipped, NEW i \in Ids \ task.touched
      PROVE  Stage(task', i, db[i], core[i], searcher[i])
  <2>1. Stage(task, i, db[i], core[i], searcher[i])
    BY <1>5, StageOf
  <2>2. core[i] # 0 => i \in task.found
    BY <1>1, <2>1 DEF Stage, Searching
  <2>3. core[i] # 0 /\ ~Exists(db[i]) => i \in task'.found
    BY <1>3, <2>2 DEF SelectIds
  <2>. QED BY <1>3, <2>3 DEF Stage, Rebuilding, Searching, Repaired
<1>. QED BY <1>1, <1>3, <1>4, <1>5, TaskGoesOn DEF StagesRight

LEMMA RemoveRepairs ==
    ASSUME TypeInv, RepairInv, NEW i \in Ids, NEW o, RemoveOrphan(i, o)
    PROVE  RepairInv'
<1>1. /\ task.pc = "remove" /\ UNCHANGED <<db, run, tasks>>
      /\ o = "ok" => Core!SolrDelete(Task, {i}) /\ task' = [task EXCEPT !.found = @ \ {i}]
      /\ o # "ok" => task' = TaskOver("failed")
  BY DEF RemoveOrphan, Sends, Does
<1>2. IsTask(task) /\ TaskForm(task)
  BY DEF TypeInv, TaskOK, RepairInv
<1>3. CASE o = "ok"
  <2>1. /\ task'.pc = "remove" /\ task'.found = task.found \ {i}
        /\ task'.last = task.last /\ task'.shown = task.shown
        /\ task'.skipped = task.skipped /\ task'.touched = task.touched
    BY <1>1, <1>2, <1>3 DEF IsTask
  <2>2. TaskForm(task') /\ PagesFound(task')
    BY <1>2, <2>1 DEF TaskForm, PagesFound
  <2>3. ASSUME ~task.skipped, NEW j \in Ids \ task.touched
        PROVE  Stage(task', j, db[j], core'[j], searcher'[j])
    <3>1. Stage(task, j, db[j], core[j], searcher[j])
      BY <2>3, StageOf
    <3>2. core'[j] = IF j = i THEN 0 ELSE core[j]
      BY <1>1, <1>3 DEF Core!SolrDelete
    <3>3. core[j] # 0 /\ ~Exists(db[j]) => j \in task.found
      BY <1>1, <3>1 DEF Stage, Searching
    <3>4. core'[j] # 0 /\ ~Exists(db[j]) => j \in task'.found
      BY <2>1, <3>2, <3>3
    <3>. QED BY <2>1, <3>4 DEF Stage, Rebuilding, Searching, Repaired
  <2>. QED BY <1>1, <2>1, <2>2, <2>3, TaskGoesOn DEF StagesRight
<1>4. CASE o # "ok"
  BY <1>1, <1>4, FailedSaysNothing, TaskGoesOn DEF StagesRight
<1>. QED BY <1>3, <1>4

LEMMA StopRepairs ==
    ASSUME TypeInv, RepairInv, EndClean \/ TaskKilled
    PROVE  RepairInv'
<1>1. CASE EndClean
  <2> DEFINE t == TaskOver("clean")
  <2>1. /\ task.pc = "remove" /\ task.found = {} /\ task' = t
        /\ UNCHANGED <<db, run, tasks, core, searcher>>
    BY <1>1 DEF EndClean, Does, solr
  <2>2. /\ t.pc = "idle" /\ t.ended = "clean" /\ t.last = task.last /\ t.shown = {}
        /\ t.skipped = task.skipped /\ t.touched = task.touched
    BY DEF TaskOver, Resting
  <2> HIDE DEF t
  <2>3. TaskForm(t) /\ PagesFound(t)
    BY <2>2 DEF RepairInv, TaskForm, PagesFound
  <2>4. ASSUME ~task.skipped, NEW i \in Ids \ task.touched
        PROVE  Stage(t, i, db[i], core[i], searcher[i])
    <3>1. Stage(task, i, db[i], core[i], searcher[i])
      BY <2>4, StageOf
    <3>2. ~Exists(db[i]) => core[i] = 0
      BY <2>1, <3>1 DEF Stage, Searching
    <3>. QED BY <2>2, <3>2 DEF Stage, Rebuilding, Searching, Repaired
  <2>. QED BY <2>1, <2>2, <2>3, <2>4, TaskGoesOn DEF StagesRight
<1>2. CASE TaskKilled
  <2>1. /\ task.pc # "idle" /\ task' = TaskOver("failed") /\ UNCHANGED <<db, run, tasks>>
    BY <1>2 DEF TaskKilled, Does
  <2>. QED BY <2>1, FailedSaysNothing, TaskGoesOn DEF StagesRight
<1>. QED BY <1>1, <1>2

LEMMA TaskRepairing ==
    ASSUME IsFiniteSet(Ids), TypeInv, RepairInv, TaskStep
    PROVE  RepairInv'
  BY StartRepairs, WipeRepairs, SendRepairs, CommitRepairs, EndRepairs, ReadRepairs,
     PageRepairs, SelectRepairs, RemoveRepairs, StopRepairs DEF TaskStep

LEMMA RepairStart == Init => RepairInv
<1> SUFFICES ASSUME Init PROVE RepairInv
  OBVIOUS
<1>1. task = Resting /\ tasks = 0
  BY DEF Init
<1>2. TaskForm(Resting) /\ PagesFound(Resting) /\ Resting.skipped = FALSE
      /\ \A i, row, c, s : Stage(Resting, i, row, c, s)
  BY DEF TaskForm, PagesFound, Stage, Rebuilding, Searching, Repaired, Resting
<1>. QED BY <1>1, <1>2 DEF RepairInv, StagesRight

LEMMA RepairStep ==
    ASSUME IsFiniteSet(Ids), TypeInv, RepairInv, [Next]_vars
    PROVE  RepairInv'
<1>1. CASE UNCHANGED vars
  BY <1>1 DEF vars, solr, history, RepairInv, QuietFor, StagesRight
<1>. QED BY <1>1, WriterRepairs, TaskRepairing DEF Next

\* solr_reindex, the rake task and solr_clean_index_orphans: a job that ended
\* with no request ignored has left the index right for every row no
\* transaction touched since it began; for any batch size, whatever fails.
THEOREM TasksRepair == IsFiniteSet(Ids) => (Spec => []TaskRepairs)
<1> SUFFICES ASSUME IsFiniteSet(Ids) PROVE Spec => []TaskRepairs
  OBVIOUS
<1>1. RepairInv => TaskRepairs
  <2> SUFFICES ASSUME RepairInv, task.pc = "idle", ~task.skipped, NEW i \in Ids \ task.touched
               PROVE  Repaired(task, i, db[i], core[i], searcher[i])
    BY DEF TaskRepairs, Repaired
  <2>. QED BY StageOf DEF Stage
<1>. QED BY <1>1, RepairStart, RepairStep, TypeInductive, PTL DEF Spec
=============================================================================
