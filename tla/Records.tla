------------------------------ MODULE Records ------------------------------
(***************************************************************************)
(* Searchable Active Record classes (sunspot_rails: searchable.rb,         *)
(* request_lifecycle.rb, tasks.rb) over a database and a Solr core.        *)
(*                                                                         *)
(* A writer is a thread serving requests: it loads or builds a record,     *)
(* saves or destroys it in transactions, and the callbacks of searchable   *)
(* index it, either inside the transaction (after_save, the default) or    *)
(* after it (after_commit).  When the request is over the session is       *)
(* committed.  Next to the writers a task rebuilds the index of the class, *)
(* or removes orphans from it.                                             *)
(*                                                                         *)
(* Of a row the module keeps the version of its indexed column and whether *)
(* the record is indexable; the database (external) locks a row that an    *)
(* open transaction has written and shows only committed rows.             *)
(***************************************************************************)
EXTENDS Naturals, Sequences, FiniteSets, SequencesExt

CONSTANTS
    Writers,    \* threads that serve requests
    Task,       \* the process of the rake task or the console
    Ids,        \* primary keys, numbers
    Configs,    \* configurations: where the callbacks run, what is committed
                \* after a request, and which columns do not trigger an index
    Jobs,       \* what the task process may be asked for
    Faults,     \* how a request to Solr may fail: subset of {"lost", "refused"}
    BatchSize,  \* default_batch_size
    MaxWrites,  \* bound: saves and destroys in a behaviour
    MaxFaults,  \* bound: failing requests, rollbacks and raising actions
    MaxTasks    \* bound: tasks started

Columns == {"content", "other", "visible"}

ASSUME BoundsAssumption ==
    /\ MaxWrites \in Nat
    /\ MaxFaults \in Nat
    /\ MaxTasks \in Nat
    /\ BatchSize \in Nat \ {0}

ASSUME NamesAssumption ==
    /\ Ids \subseteq Nat \ {0}
    /\ Task \notin Writers
    /\ Jobs \subseteq {"reindex", "rake", "clean"}
    /\ Faults \subseteq {"lost", "refused"}

\* after: the callbacks run "save" inside the transaction or "commit" after it.
\* auto: the request commits after any change or after a "delete" only.
ASSUME ConfigsAssumption ==
    Configs \subseteq [after : {"save", "commit"}, auto : {"request", "delete"},
                       ignored : SUBSET Columns]

VARIABLES
    config,                   \* the configuration of the application
    db,                       \* committed rows
    core, searcher, pending,  \* the Solr core, see SolrCore
    counted,                  \* per session, what its counters know of
    run,                      \* per writer, its request
    task,                     \* the task process
    used,                     \* ids given out by the database
    clock,                    \* versions given out
    writes, faults, tasks,    \* how much of the bounds is used
    spoilt,                   \* history: ids whose index a known hazard hit
    versions,                 \* history: the versions that were committed
    refused                   \* history: threads whose commit Solr refused

solr == <<core, searcher, pending>>
vars == <<config, db, core, searcher, pending, counted, run, task, used, clock,
          writes, faults, tasks, spoilt, versions, refused>>
history == <<spoilt, versions, refused>>

Sessions == Writers \cup {Task}

Core == INSTANCE SolrCore WITH Keys <- Ids

NoRow == [at |-> 0, ok |-> FALSE]
Rows == [at : Nat, ok : BOOLEAN]

Exists(row) == row.at # 0

\* What the index should hold for a row.
Expected(row) == IF Exists(row) /\ row.ok THEN row.at ELSE 0

(***************************************************************************)
(* A writer: where its request is (pc), the id and the attributes of its   *)
(* record (obj), whether the record is not in the database yet (new) or    *)
(* was destroyed (gone), the marks for indexing and removal (marks), the   *)
(* row as its open transaction has written it (draft, wrote), whether the  *)
(* transaction changed something the index has to follow (due), whether a  *)
(* request or the transaction failed (failed), whether nobody else has had *)
(* to do with the row since it was loaded (alone), and how its last        *)
(* request ended.                                                          *)
(***************************************************************************)
Idle(ended) ==
    [pc |-> "idle", id |-> 0, obj |-> NoRow, new |-> FALSE, gone |-> FALSE,
     marks |-> {}, draft |-> NoRow, wrote |-> FALSE, due |-> FALSE,
     failed |-> FALSE, alone |-> FALSE, ended |-> ended]

(***************************************************************************)
(* The task: the last id find_in_batches has read (last), the documents    *)
(* to send (batch), ids found in the index (found) and the page to read    *)
(* next (page), what was published at the first page (shown), whether a    *)
(* request was ignored or a page moved (skipped), the ids a transaction    *)
(* has been open on since the start (touched) and the job it ended.        *)
(***************************************************************************)
Resting == [pc |-> "idle", job |-> "none", last |-> 0, batch |-> << >>, found |-> {},
            page |-> 0, shown |-> {}, skipped |-> FALSE, touched |-> {}, ended |-> "none"]

Init ==
    /\ config \in Configs
    /\ db \in [Ids -> {NoRow, [at |-> 1, ok |-> TRUE]}]
    /\ core = [i \in Ids |-> Expected(db[i])]
    /\ searcher = core
    /\ pending = [s \in Sessions |-> {}]
    /\ counted = [s \in Sessions |-> {}]
    /\ run = [w \in Writers |-> Idle("orderly")]
    /\ task = Resting
    /\ used = {i \in Ids : Exists(db[i])}
    /\ clock = 1
    /\ writes = 0
    /\ faults = 0
    /\ tasks = 0
    /\ spoilt = {}
    /\ versions = [i \in Ids |-> {db[i].at}]
    /\ refused = {}

Becomes(w, state) == run' = [run EXCEPT ![w] = state]

Holds(w, i) == run[w].id = i /\ run[w].wrote

\* Something goes wrong, within the bound.
Fault == faults < MaxFaults /\ faults' = faults + 1

Outcomes == {"ok"} \cup Faults

\* Seeded fault: what a failing request was for is not counted.
SendsThenCounts(s, kinds, outcome, request) ==
    /\ counted' = IF outcome = "ok" THEN [counted EXCEPT ![s] = @ \cup kinds] ELSE counted
    /\ IF outcome = "refused" THEN UNCHANGED solr ELSE request
    /\ IF outcome = "ok" THEN UNCHANGED faults ELSE Fault

\* A request to Solr on behalf of session s, counted whatever comes of it.
Sends(s, kinds, outcome, request) ==
    /\ counted' = [counted EXCEPT ![s] = @ \cup kinds]
    /\ IF outcome = "refused" THEN UNCHANGED solr ELSE request
    /\ IF outcome = "ok" THEN UNCHANGED faults ELSE Fault

-----------------------------------------------------------------------------
(* The request: loading, transactions, the end.                            *)

\* The record of another writer is no longer its own business, nor is this one.
Shared(w, i) ==
    [v \in Writers |-> IF v # w /\ run[v].id = i THEN [run[v] EXCEPT !.alone = FALSE]
                       ELSE run[v]]

Takes(w, i, obj, new) ==
    LET alone == task.pc = "idle" /\ \A v \in Writers \ {w} : run[v].id # i
    IN  run' = [Shared(w, i) EXCEPT ![w] =
                   [Idle("orderly") EXCEPT !.pc = "out", !.id = i, !.obj = obj,
                                        !.new = new, !.alone = alone]]

\* Seeded fault: a record is built for a row that is not there.
LoadAnything(w, i) ==
    /\ run[w].pc = "idle"
    /\ writes < MaxWrites
    /\ Takes(w, i, db[i], FALSE)
    /\ UNCHANGED <<config, db, solr, counted, task, used, clock, writes, faults, tasks,
                   history>>

Load(w, i) ==
    /\ run[w].pc = "idle"
    /\ writes < MaxWrites
    /\ Exists(db[i])
    /\ Takes(w, i, db[i], FALSE)
    /\ UNCHANGED <<config, db, solr, counted, task, used, clock, writes, faults, tasks,
                   history>>

\* An id is given out once, in order.
Build(w, i) ==
    /\ run[w].pc = "idle"
    /\ writes < MaxWrites
    /\ i \notin used
    /\ used' = used \cup {i}
    /\ \E ok \in BOOLEAN : Takes(w, i, [at |-> 0, ok |-> ok], TRUE)
    /\ UNCHANGED <<config, db, solr, counted, task, clock, writes, faults, tasks,
                   history>>

\* The first write of a request, or the first after a commit, opens a transaction.
Opened(w) ==
    IF run[w].pc = "out"
    THEN [run[w] EXCEPT !.pc = "in", !.due = FALSE, !.failed = FALSE]
    ELSE run[w]

\* While a task runs, and afterwards, it is remembered what transactions touch.
Touches(i) == task' = IF tasks = 0 THEN task ELSE [task EXCEPT !.touched = @ \cup {i}]

\* The row as the open transaction of w sees it.
RowOf(w) == IF run[w].wrote THEN run[w].draft ELSE db[run[w].id]

Indexable(obj) == obj.ok

\* Seeded fault: a record that is not indexable any more is not removed.
MarksOfAdds(new, obj, change) ==
    IF new \/ config.ignored = {} \/ change \ config.ignored # {} THEN {"index"} ELSE {}

\* mark_for_auto_indexing_or_removal: the marks a save sets, whatever they were.
Marks(new, obj, change) ==
    IF ~Indexable(obj) THEN {"remove"}
    ELSE IF new \/ config.ignored = {} \/ change \ config.ignored # {} THEN {"index"}
    ELSE {}

\* The columns of change get new values in the record.
Changed(obj, change) ==
    [at |-> IF "content" \in change THEN clock + 1 ELSE obj.at,
     ok |-> IF "visible" \in change THEN ~obj.ok ELSE obj.ok]

\* UPDATE writes the changed columns, of a row that is still there.
Updated(row, obj, change) ==
    IF ~Exists(row) THEN row
    ELSE [at |-> IF "content" \in change THEN obj.at ELSE row.at,
          ok |-> IF "visible" \in change THEN obj.ok ELSE row.ok]

\* save: before_save, the row, and after_save where the callbacks run there.
Save(w, change) ==
    LET r == Opened(w)
        obj == Changed(r.obj, change)
        row == IF r.new THEN obj ELSE Updated(RowOf(w), obj, change)
        marks == Marks(r.new, obj, change)
    IN  /\ r.pc = "in"
        /\ ~r.gone
        /\ r.new => "content" \in change
        /\ writes < MaxWrites
        /\ \A v \in Writers \ {w} : ~Holds(v, r.id)
        /\ Becomes(w, [r EXCEPT
               !.pc = IF config.after = "save" /\ marks # {} THEN "callback" ELSE "in",
               !.obj = obj, !.new = FALSE, !.marks = marks,
               !.draft = row, !.wrote = TRUE, !.due = @ \/ marks # {}])
        /\ clock' = IF "content" \in change THEN clock + 1 ELSE clock
        /\ writes' = writes + 1
        /\ spoilt' = IF marks # {} /\ row # obj THEN spoilt \cup {r.id} ELSE spoilt
        /\ Touches(r.id)
        /\ UNCHANGED <<config, db, solr, counted, used, faults, tasks, versions, refused>>

Destroy(w) ==
    LET r == Opened(w) IN
    /\ r.pc = "in"
    /\ ~r.gone
    /\ ~r.new
    /\ writes < MaxWrites
    /\ \A v \in Writers \ {w} : ~Holds(v, r.id)
    /\ Becomes(w, [r EXCEPT !.pc = IF config.after = "save" THEN "callback" ELSE "in",
                            !.gone = TRUE, !.draft = NoRow, !.wrote = TRUE, !.due = TRUE])
    /\ writes' = writes + 1
    /\ Touches(r.id)
    /\ UNCHANGED <<config, db, solr, counted, used, clock, faults, tasks, history>>

\* Seeded fault: a destroyed record is treated like a saved one.
RemovesByMark(r) == "index" \notin r.marks /\ "remove" \in r.marks

\* remove_from_index for a destroyed record, else perform_index_tasks.
Removes(r) == r.gone \/ ("index" \notin r.marks /\ "remove" \in r.marks)

\* perform_index_tasks drops the mark it has acted on.
Unmarked(r) == IF r.gone THEN r ELSE [r EXCEPT !.marks = {}]

\* Seeded fault: the callbacks run for a transaction that was rolled back.
RolledBackIndexed(r) == [r EXCEPT !.pc = "callback", !.wrote = FALSE]

\* The rows of w are as before; the record is not used any more.
RolledBack(r) == [Idle("orderly") EXCEPT !.pc = "over"]

\* The callback's exception leaves save: the transaction is rolled back, or the
\* application rescues inside of it.  After the commit there is nothing to undo.
CallbackRaises(w) ==
    LET r == [run[w] EXCEPT !.failed = TRUE] IN
    IF config.after = "commit" THEN Becomes(w, [r EXCEPT !.pc = "out"])
    ELSE Becomes(w, [r EXCEPT !.pc = "in"]) \/ Becomes(w, RolledBack(r))

Callback(w, outcome) ==
    LET r == run[w]
        back == IF config.after = "save" THEN "in" ELSE "out"
    IN  /\ r.pc = "callback"
        /\ IF Removes(r)
           THEN Sends(w, {"delete"}, outcome, Core!SolrDelete(w, {r.id}))
           ELSE Sends(w, {"add"}, outcome, Core!SolrAdd(w, <<[id |-> r.id, at |-> r.obj.at]>>))
        /\ IF outcome = "ok" THEN Becomes(w, [Unmarked(r) EXCEPT !.pc = back])
           ELSE CallbackRaises(w)
        /\ spoilt' = IF outcome # "ok" /\ config.after = "save" THEN spoilt \cup {r.id}
                      ELSE spoilt
        /\ UNCHANGED <<config, db, task, used, clock, writes, tasks, versions, refused>>

\* after_commit runs once for a record the transaction wrote; perform_index_tasks
\* finds the marks of the last save.
Committed(r, runs) ==
    LET acts == config.after = "commit" /\ runs /\ (r.gone \/ r.marks # {})
    IN  [r EXCEPT !.pc = IF acts THEN "callback" ELSE "out", !.wrote = FALSE]

\* After a save that found no row, it depends on the Rails version whether
\* after_commit runs.
CommitTransaction(w) ==
    LET r == run[w] IN
    /\ r.pc = "in"
    /\ db' = [db EXCEPT ![r.id] = RowOf(w)]
    /\ \/ Becomes(w, Committed(r, TRUE))
       \/ ~r.gone /\ ~Exists(r.draft) /\ Becomes(w, Committed(r, FALSE))
    /\ versions' = [versions EXCEPT ![r.id] = @ \cup {RowOf(w).at}]
    /\ UNCHANGED <<config, solr, counted, task, used, clock, writes, faults, tasks,
                   spoilt, refused>>

Rollback(w) ==
    LET r == run[w] IN
    /\ r.pc = "in"
    /\ Fault
    /\ Becomes(w, RolledBack(r))
    /\ spoilt' = IF r.wrote /\ config.after = "save" THEN spoilt \cup {r.id} ELSE spoilt
    /\ UNCHANGED <<config, db, solr, counted, task, used, clock, writes, tasks, versions, refused>>

\* What has to be counted for the commit after a request.
Trigger == IF config.auto = "request" THEN {"add", "delete"} ELSE {"delete"}

\* The after_action of RequestLifecycle: the counters are reset, then Solr commits.
EndRequest(w, outcome) ==
    /\ run[w].pc \in {"out", "over"}
    /\ IF counted[w] \cap Trigger = {}
       THEN /\ outcome = "ok"
            /\ UNCHANGED <<solr, counted, faults>>
       ELSE /\ counted' = [counted EXCEPT ![w] = {}]
            /\ IF outcome = "refused" THEN UNCHANGED solr ELSE Core!SolrCommit
            /\ IF outcome = "ok" THEN UNCHANGED faults ELSE Fault
    /\ Becomes(w, Idle(IF outcome = "ok" THEN "orderly" ELSE "raised"))
    /\ refused' = IF outcome = "refused" THEN refused \cup {w} ELSE refused
    /\ UNCHANGED <<config, db, task, used, clock, writes, tasks, spoilt, versions>>

\* The action raises: no after_action, the session keeps its counters.
ActionRaises(w) ==
    /\ run[w].pc \in {"out", "over"}
    /\ Fault
    /\ Becomes(w, Idle("raised"))
    /\ UNCHANGED <<config, db, solr, counted, task, used, clock, writes, tasks,
                   history>>

-----------------------------------------------------------------------------
(* The task process.                                                       *)

Does(state) == task' = state

\* "reindex" is solr_reindex, which commits every batch; "rake" is the task of
\* tasks.rb, which commits at the end; "clean" is solr_clean_index_orphans.
StartTask(job) ==
    /\ task.pc = "idle"
    /\ tasks < MaxTasks
    /\ tasks' = tasks + 1
    /\ Does([Resting EXCEPT
           !.pc = IF job = "clean" THEN "page" ELSE "wipe", !.job = job, !.page = 1,
           !.touched = {run[w].id : w \in {v \in Writers : run[v].pc \in {"in", "callback"}}}
                       \cup {i \in Ids : job = "clean" /\ core[i] # searcher[i]}])
    /\ run' = [w \in Writers |-> [run[w] EXCEPT !.alone = FALSE]]
    /\ UNCHANGED <<config, db, solr, counted, used, clock, writes, faults, history>>

TaskOver(job) == [Resting EXCEPT !.ended = job, !.skipped = task.skipped,
                                 !.touched = task.touched, !.last = task.last]

\* The task goes on to next.  The rake task sends through Retry5xxSessionProxy,
\* which ignores a request that fails twice; otherwise an error ends the job.
Proceeds(outcome, next) ==
    Does(IF outcome = "ok" THEN next
         ELSE IF task.job = "rake" THEN [next EXCEPT !.skipped = TRUE]
         ELSE TaskOver("failed"))

TaskCommits(outcome, next) ==
    /\ counted' = [counted EXCEPT ![Task] = {}]
    /\ IF outcome = "refused" THEN UNCHANGED solr ELSE Core!SolrCommit
    /\ IF outcome = "ok" THEN UNCHANGED faults ELSE Fault
    /\ Proceeds(outcome, next)
    /\ UNCHANGED <<config, db, run, used, clock, writes, tasks, history>>

\* solr_remove_all_from_index: the delete is not committed.
Wipe(outcome) ==
    /\ task.pc = "wipe"
    /\ Sends(Task, {"delete"}, outcome, Core!SolrDelete(Task, Ids))
    /\ Proceeds(outcome, [task EXCEPT !.pc = "read"])
    /\ UNCHANGED <<config, db, run, used, clock, writes, tasks, history>>

\* The next rows of find_in_batches: the BatchSize smallest ids after the last.
NextRows(last) ==
    LET ids == {i \in Ids : i > last /\ Exists(db[i])}
    IN  {i \in ids : Cardinality({j \in ids : j < i}) < BatchSize}

\* Seeded fault: the batch is not filtered by indexable?.
EveryRow(ids) ==
    LET list == SetToSeq(ids)
    IN  [n \in DOMAIN list |-> [id |-> list[n], at |-> db[list[n]].at]]

\* records.select(&:indexable?), in any order: no id occurs twice.
Documents(ids) ==
    LET list == SetToSeq({i \in ids : Indexable(db[i])})
    IN  [n \in DOMAIN list |-> [id |-> list[n], at |-> db[list[n]].at]]

\* Rows are loaded; the last, incomplete batch ends the loop.
ReadBatch ==
    LET ids == NextRows(task.last) IN
    /\ task.pc = "read"
    /\ Does(IF ids = {} THEN [task EXCEPT !.pc = "last"]
            ELSE [task EXCEPT !.pc = "send", !.batch = Documents(ids),
                              !.last = CHOOSE i \in ids : \A j \in ids : j <= i])
    /\ UNCHANGED <<config, db, solr, counted, run, used, clock, writes, faults, tasks,
                   history>>

SendBatch(outcome) ==
    /\ task.pc = "send"
    /\ Sends(Task, IF task.batch = << >> THEN {} ELSE {"add"}, outcome,
             Core!SolrAdd(Task, task.batch))
    /\ Proceeds(outcome, [task EXCEPT
           !.pc = IF task.job = "reindex" THEN "commit" ELSE "read", !.batch = << >>])
    /\ UNCHANGED <<config, db, run, used, clock, writes, tasks, history>>

CommitBatch(outcome) ==
    task.pc = "commit" /\ TaskCommits(outcome, [task EXCEPT !.pc = "read"])

\* No rows are left: the final commit, unless every batch had its own.
EndReindex(outcome) ==
    /\ task.pc = "last"
    /\ IF task.job = "reindex"
       THEN /\ outcome = "ok"
            /\ Does(TaskOver("reindex"))
            /\ UNCHANGED <<config, db, solr, counted, run, used, clock, writes, faults,
                           tasks, history>>
       ELSE TaskCommits(outcome, TaskOver("rake"))

Published == {i \in Ids : searcher[i] # 0}

\* Page number page of the published ids.
PageOf(page) ==
    {i \in Published :
        Cardinality({j \in Published : j < i}) \in (page - 1) * BatchSize .. page * BatchSize - 1}

\* solr_index_orphans: pages of ids until one is empty.
ReadPage ==
    /\ task.pc = "page"
    /\ Does([task EXCEPT
           !.pc = IF PageOf(task.page) = {} THEN "select" ELSE "page",
           !.page = @ + 1, !.found = @ \cup PageOf(task.page),
           !.shown = IF task.page = 1 THEN Published ELSE @,
           !.skipped = @ \/ (task.page > 1 /\ Published # task.shown)])
    /\ UNCHANGED <<config, db, solr, counted, run, used, clock, writes, faults, tasks,
                   history>>

\* Seeded fault: only the ids of indexable rows are selected.
SelectIndexable == {i \in Ids : Exists(db[i]) /\ Indexable(db[i])}

\* SELECT id FROM the table.
SelectIds == {i \in Ids : Exists(db[i])}

SelectOrphans ==
    /\ task.pc = "select"
    /\ Does([task EXCEPT !.pc = "remove", !.found = @ \ SelectIds])
    /\ UNCHANGED <<config, db, solr, counted, run, used, clock, writes, faults, tasks,
                   history>>

\* solr_clean_index_orphans, over the session itself: a failure ends it.
RemoveOrphan(i, outcome) ==
    /\ task.pc = "remove"
    /\ i \in task.found
    /\ Sends(Task, {"delete"}, outcome, Core!SolrDelete(Task, {i}))
    /\ Does(IF outcome = "ok" THEN [task EXCEPT !.found = @ \ {i}] ELSE TaskOver("failed"))
    /\ UNCHANGED <<config, db, run, used, clock, writes, tasks, history>>

EndClean ==
    /\ task.pc = "remove"
    /\ task.found = {}
    /\ Does(TaskOver("clean"))
    /\ UNCHANGED <<config, db, solr, counted, run, used, clock, writes, faults, tasks,
                   history>>

\* The process is stopped between two steps.
TaskKilled ==
    /\ task.pc # "idle"
    /\ Fault
    /\ Does(TaskOver("failed"))
    /\ UNCHANGED <<config, db, solr, counted, run, used, clock, writes, tasks,
                   history>>

Writer(w) ==
    \/ \E i \in Ids : Load(w, i) \/ Build(w, i)
    \/ \E change \in (SUBSET Columns) \ {{}} : Save(w, change)
    \/ Destroy(w)
    \/ \E o \in Outcomes : Callback(w, o) \/ EndRequest(w, o)
    \/ CommitTransaction(w)
    \/ Rollback(w)
    \/ ActionRaises(w)

TaskStep ==
    \/ \E job \in Jobs : StartTask(job)
    \/ \E o \in Outcomes : \/ Wipe(o) \/ SendBatch(o) \/ CommitBatch(o)
                           \/ EndReindex(o)
                           \/ \E i \in Ids : RemoveOrphan(i, o)
    \/ ReadBatch
    \/ ReadPage \/ SelectOrphans \/ EndClean
    \/ TaskKilled

Next == TaskStep \/ \E w \in Writers : Writer(w)

Spec == Init /\ [][Next]_vars
-----------------------------------------------------------------------------
(* Properties.                                                             *)

TypeOK ==
    /\ config \in Configs
    /\ db \in [Ids -> Rows]
    /\ Core!SolrTypeOK
    /\ counted \in [Sessions -> SUBSET {"add", "delete"}]
    /\ run \in [Writers ->
         [pc : {"idle", "out", "in", "callback", "over"}, id : Ids \cup {0},
          obj : Rows, new : BOOLEAN, gone : BOOLEAN,
          marks : SUBSET {"index", "remove"}, draft : Rows, wrote : BOOLEAN,
          due : BOOLEAN, failed : BOOLEAN, alone : BOOLEAN,
          ended : {"orderly", "raised"}]]
    /\ \A w \in Writers : run[w].pc \in {"out", "in", "callback"} =>
         run[w].id \in Ids /\ (run[w].new \/ Exists(run[w].obj))
    /\ task.batch \in Seq(Core!Docs)
    /\ task.found \subseteq Ids
    /\ task.touched \subseteq Ids
    /\ used \subseteq Ids
    /\ spoilt \subseteq Ids

\* searchable, :auto_index and :auto_remove: when a transaction that nobody
\* else interfered with is over, and its callbacks went well, the index holds
\* for the row what it should, whatever the index held before.
AloneFollows ==
    \A w \in Writers :
        LET r == run[w] IN
        r.pc = "out" /\ r.due /\ r.alone /\ ~r.failed
            => core[r.id] = Expected(db[r.id])

\* With callbacks inside the transaction the row lock orders the index writes
\* of different writers: when no transaction is open on a row, the index is as
\* the row, except where a transaction was rolled back, a request failed, or a
\* stale record was saved.
LockedFollows ==
    config.after = "save" /\ tasks = 0 =>
        \A i \in Ids \ spoilt :
            (\A w \in Writers : ~Holds(w, i)) => core[i] = Expected(db[i])

\* With callbacks after the commit, every document in the index was a row of
\* the database at some time, unless a record whose row is gone was saved.
NoPhantoms ==
    config.after = "commit" => \A i \in Ids \ spoilt : core[i] \in versions[i] \cup {0}

\* request_lifecycle.rb: what a thread's requests changed, those that raised
\* included, is published when the next one ends in an orderly way.
RequestPublishes ==
    \A w \in Writers \ refused :
        run[w].pc = "idle" /\ run[w].ended = "orderly" =>
            pending[w] \cap Trigger = {}

\* solr_reindex and solr_clean_index_orphans: a task that ended, and had no
\* request ignored, has rebuilt the index (or left no orphan) for every row no
\* transaction has touched since it started.  What solr_reindex removed is only
\* published with a batch: of a class without rows it stays unpublished.
TaskRepairs ==
    task.pc = "idle" /\ ~task.skipped =>
        \A i \in Ids \ task.touched :
            /\ task.ended \in {"reindex", "rake"} => core[i] = Expected(db[i])
            /\ task.ended = "rake" \/ (task.ended = "reindex" /\ task.last # 0)
                 => searcher[i] = core[i]
            /\ task.ended = "clean" /\ ~Exists(db[i]) => core[i] = 0

\* With callbacks after the commit, cleaning removes nothing that has a row.
CleansOrphansOnly ==
    config.after = "commit" /\ task.pc = "remove" =>
        \A i \in task.found : ~Exists(db[i])
=============================================================================
