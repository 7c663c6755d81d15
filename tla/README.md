# Sunspot in TLA+

Sunspot is a Ruby library for indexing objects into Apache Solr and searching
them. This directory holds TLA+ modules for the parts of it whose correctness
depends on the order of steps: sessions that count and batch updates, proxies
that retry or route them, the Rails hooks that decide what is indexed and when
it is committed. TLC checks the modules on small instances, and TLAPS proves
the theorems for every value of the constants.

## 1. Inventory

Paths are relative to `src/`. "Session" is `sunspot/lib/sunspot/session.rb`.

| Component | State it keeps | Operations | Talks to | What makes it correct |
|---|---|---|---|---|
| Session, Indexer, Batcher (`session.rb`, `indexer.rb`, `batcher.rb`) | `@adds`, `@deletes`, the Batcher's stack of batches | index, atomic_update, remove, remove_by_id, remove_all, commit, optimize, commit_if_dirty, commit_if_delete_dirty, their `!` forms, batch | Solr over RSolr | dirty? covers what Solr has not published; a batch is sent whole, once; no document vanishes; the last write wins |
| Retry5xx and SilentFail proxies (`session_proxy/retry_5xx_session_proxy.rb`, `silent_fail_session_proxy.rb`) | none of their own | every call, retried once or rescued | one Session | a retry does not do twice what must be done once; a swallowed failure leaves the session usable |
| Thread-local and master/slave proxies (`thread_local_session_proxy.rb`, `master_slave_session_proxy.rb`) | one Session per thread, per proxy object | delegation | Sessions | sessions of two threads do not share counters or batches |
| Sharding proxies (`sharding_`, `class_sharding_`, `id_sharding_session_proxy.rb`) | the shard sessions | group objects by session, call each; commit all or the dirty ones; search over all shards | Sessions | an object always goes to the same shard; dirtiness is the disjunction of the shards' |
| Time-based collections (`tbc_session_proxy.rb`) with the fault policy (`fault_policy.rb`) | `@faulty_hosts`, `@host_index`, `@current_hostname`, cached collections | take_hostname, with_exception_handling, per-collection sessions, search_collections | Admin session, Sessions | faults are charged to the host that failed; a recovered host is used again; retries are bounded |
| Admin session and cache (`admin/admin_session.rb`, `admin/utils.rb`) | `@cached` and its one `:time` | collections, live_nodes, create, delete, reload | Solr collections API | an entry is not older than its expiry; create and delete refresh it |
| Cluster and collection status (`admin/cluster_status.rb`, `collection_status.rb`) | `@replicas_not_active`, `@bad_urls`, a PStore file | clusterstatus, report, persist, repair | Solr collections API | a collection is reported bad or recoverable as its replicas are; repair replaces what it deletes |
| Searchable records (`sunspot_rails/.../searchable.rb`) | per record the marks for indexing and removal | before_save, after_save / after_commit, after_destroy, reindex, clean orphans | Active Record, Session | after the last transaction and commit, the index holds the indexable records |
| Request lifecycle (`request_lifecycle.rb`) | none | commit_if_dirty or commit_if_delete_dirty after an action | thread's Session | what a request changed is published when it ends |
| Reindex task (`tasks.rb`) | none | remove all, index in batches, through the Retry5xx proxy | Searchable, Session | every indexable record is in the index afterwards |
| Queries and connectives (`query/connective.rb`, `restriction.rb`, ...) | an expression tree | add, negate, to_boolean_phrase, denormalisation | Solr query parser | the phrase selects the documents the scope describes |
| Search results (`search/*.rb`) | hits, results, facets, cursors | execute, populate, paginate | Solr, data accessors | hits and loaded instances correspond; pages partition the results |
| Setup, fields, adapters (`setup.rb`, `composite_setup.rb`, `field*.rb`, `adapters.rb`, `type.rb`) | per-class registries | setup, field lookup with inheritance, adapter lookup | - | a subclass sees its ancestors' fields; one adapter per class |
| Local Solr server (`sunspot_solr/.../server.rb`) | the pid file | start, run, stop | operating system | the pid file names the running server, if any |
| DSL, schema, configuration (`dsl/*.rb`, `schema.rb`, `configuration.rb`) | - | build queries, configuration | - | - |

What is hard here: several threads and processes write to one Solr core and a
commit of any of them publishes the updates of all; every request can fail
before or after Solr applied it; a call made of several requests can fail in
the middle; counters, batches and marks are kept in Ruby objects that survive
an exception; caches and fault tables are consulted after the state they
describe has changed; and index writes are not part of the database transaction
they belong to. `PROJECT.json`, "hazards", lists these at their lines.

## 2. Plan

In the order of what matters most to the system; what is done:

1. The write path: `Batcher`, `SolrCore`, `Session`, `IndexContract`, `MCSession`,
   `SessionProofs`.
2. The proxies around a session or around shards: `Proxies`, `ProxiesProofs`, with
   `Sorting` and `SortingProofs` for Ruby's sort.
3. The time-based collections: `FaultPolicy` and `FaultPolicyProofs` for the hosts
   of a call, `Collections` and `CollectionsProofs` for what a call does to the
   collections, over the cache of the admin session.
4. The Rails layer: `Records` and `RecordsProofs`, for saves, callbacks, the end of
   a request, reindexing and the removal of orphans.
5. Cluster repair: `Cluster` and `ClusterProofs`.
6. The boolean phrases of scopes: `Connectives` and `ConnectivesProofs`.

What is left, in this order: the pid file of the local Solr server, if processes of
an operating system are worth a model; the registries of setups and adapters.

`Session` composes `Batcher` and `SolrCore` and implements `IndexContract`;
`Proxies` uses the same `Batcher`, so that a batch left behind by an exception is
the same thing in both; `Records` uses `SolrCore` with one session per thread.

There is one passing run per question, with several properties on one instance,
and one run for the finding that a reader should see violated.

## 3. Modules

### Batcher, SolrCore, Session

`Batcher` has the stack operators of `batcher.rb` under their Ruby names.
`SolrCore` is external: the effect of add, delete and commit requests on the
index (`core`), on what searches see (`searcher`), and, as history, which kinds
of a session's updates are applied and unpublished (`pending`). A document is an
id and a version; version 0 is absence. The bundled solrconfig.xml opens no
searcher by itself (autoSoftCommit is off and autoCommit has openSearcher
false), so only commits publish.

`Session` keeps `adds`, `deletes` and `stack` for `@adds`, `@deletes` and the
Batcher's `@stack`; `blocks` is how many `batch` blocks the thread is inside of,
which Ruby keeps on its own stack; `todo` are the requests the running call has
not sent yet. A call is an action (`Index`, `RemoveAllNow`, ...) that counts and
lines up its requests; `SendAdd`, `SendDelete` and `SendCommit` send one each.
`commit` resets the counters just before its request, so the reset is part of
`SendCommit`. A request ends "ok", "lost" (applied, but the caller got an error)
or "refused" (not applied). An error ends the call and `Unwind` leaves any
number of the enclosing blocks, since the application may rescue at any level;
`batch` has no `ensure`, so the batches of those blocks stay on the stack.
`BlockRaises` is the same for an error of the block's own code.
`accepted`, `settled` and `wanted` are history variables.

A session belongs to one thread, as ThreadLocalSessionProxy arranges, so its own
calls do not overlap. Two sessions interleave at every request.

`IndexContract` is the abstract specification: documents wait, are sent
or given up once, and never return; the index changes by sends and erasures only;
searches change only by publishing the index. `Session!ImplementsContract` maps
the index and the searcher to Solr's, the waiting documents to those in any batch
or pending request, and the done ones to `settled`.

### FaultPolicy

`FaultPolicy` is the policy together with the shape TbcSessionProxy gives its
calls: a thread's record `run[t]` says where the call is (`pc`), which hosts its
sessions were made for (`taken`), how many requests went well (`sent`) and what
the handlers counted (`retries`, `inner`). A call names the sessions it makes (`groups`) and
which of them each of its requests goes to (`to`): one session may get several within one
handler, because index! and remove! commit after the update and remove sends one request
per object (session.rb:97-100, 149-164). `take_hostname` is five steps, one per
statement that touches shared state: `Select` (live nodes from the cache or from a
seed host, faulty ones rejected), `ForceIndex`, `PickHost`, `ReadHost` (line 31 reads
`@current_hostname` again; `ReadNothing` if it is nil), `Advance`. Every
session of a call is made before its first request, as using_collection_session
and all_sessions do. `Fails` is the rescue clause: charge `@current_hostname`,
forget old entries, retry or give up; remove_by_id! has a second handler inside
the first one, and an exception that leaves it is charged twice. The rescue clause
runs in one step, since nothing in it waits until its `sleep`. `HostDown`,
`HostUp` and `HourPasses` are the world; a host that is down refuses every connection, one that is up
may answer some of the requests 5xx, so that an update succeeds and its commit does not. A host's entry is its count in `faults`; of its time only
whether it is more than an hour ago matters (`old`). `failed` (a host's failures since a call on it ended well, all its requests
included), `troubled` and `tries` are history. Left out: the Redis store, `more_like_this` (no handler) and
calls that need no collection at all.

### Proxies

A call of the application is a list of session calls (`plan`, `todo`), one request
each: `Grouped` is using_sharded_session (one per session of the objects, in the
order of first appearance; `Picked` takes the elements at some positions of a list, in
their order), `Everywhere` is all_sessions.each. Inside is a plain
session or a sharding proxy, outside nothing, Retry5xxSessionProxy or
SilentFailSessionProxy. `Send...` makes the next request; `CallFails` is the rescue
of the outer proxy: again from the beginning (`Again`), ignored (`Ignores`,
`Ended`), or raised (`Raises`). A request fails before or after Solr applied it, in either case with a
server error or with any other (a timeout is an other one). A batch block is a `frame` around the calls of its code. It may
raise between any two of them (`BlockRaises`): what a call in it raised, or an error of its own.
Its batch then stays on the stack, since `batch` has no `ensure`, and the outer proxy lets the error
out, swallows it, or runs the block again, over a batch of its own on top of the one left. When the block
returns, `SendFlush` pops the batch and sends it; if that fails and the retry proxy makes `batch` again,
the block runs again over a new batch and nothing of the first try is left. `remove!` stands for the calls with an exclamation
mark. Every shard is a core of its own; `doubtful`, `unheard`, `abandoned`, `wanted`, `pending`
and `last` are history; `pending` has the removals by id apart, because no session counts them. A key is wanted as the last call about it asked, once the call has
ended well; an `index!` whose document went into a batch that an exception has left
behind makes nothing certain, although its commit went well.

### Collections

The proxy of time-based collections, per process with its own cache (`@cached`
with one `:time` for two keys). A call's record says what is left to do. `Resolve` is
session_for_collection: it looks in the cached list and goes to `Create` and
`Refresh` when the collection is missing; `ListAll` is all_sessions with a forced
list; `Session` is gen_session, which reads the live nodes and thereby touches the
shared time. `Group` and `Without` are using_collection_session; `Select` and `Execute` are a search
(new_search computes search_collections twice, from the same list, and the model once). Every
action makes at most one request; a failing call, one that meets a collection which is gone
(`NotFound`) among them, is made again or ends, and how often is the subject of FaultPolicy. Months and names are model values with a prefix
relation. `mine` and `blind` are history: `blind[p]` are the collections that calls of `p` went on
with although its list does not show them, because the CREATE or the LIST after it failed, or
because a later list no longer showed a collection the call had resolved. Left out: the methods by which an object
chooses its own collections, and a list that expires between the two reads of one
search.

### Records

Writers are threads that serve requests: `Load` or `Build` a record, `Save` and
`Destroy` in transactions, `Callback` where perform_index_tasks and
remove_from_index run (inside the transaction with after_save, after it with
after_commit), `CommitTransaction` or `Rollback`, and `EndRequest`, the after_action
of the request lifecycle. `Marks` is mark_for_auto_indexing_or_removal: each save
overwrites the mark of the one before. Of a row the module keeps the version of the
indexed column and whether the record is indexable; the database locks a row an open
transaction has written, and UPDATE writes only the changed columns. The task
process reindexes, through solr_reindex with a commit per batch ("reindex") or
through the rake task with one commit and the retry proxy ("rake"), or removes orphans
("clean"); it reads rows and sends them later, and may be stopped between two steps.
`spoilt`, `versions`, `refused`, `alone`, `due` and `touched` are history.

### Cluster

The status part of the admin session: `Check` fills the list of replicas that are not
active, and says of each whether its collection is recoverable (`Recoverable`: some shard
has state active and every shard has an active replica); `Persist` and `Restore`
write and read the PStore file, modelled as one more owner of a list; `RepairAll` goes
through the list, `DeleteReplica` and `AddReplica` (or their failures, which count as
false or raise) for every entry. Admins interleave with each other and with replicas
that come up and go down. `changes` is history: how many changes of active replicas
a list has not seen, those of its owner's own repairs aside.

### Connectives

The blocks any_of and all_of of dsl/scope.rb are actions that open and end frames, the connectives
under construction. A component (a restriction, or the connective a block leaves behind) is kept as what
the connective around it asks of it: its type, its `@negated`, and its phrase with and without
`@negated` (`phrases`). `Phrase` is to_boolean_phrase and `Negate` is negate, which toggles
`@negated` and nothing else; `Negated` is negated?, which restrictions override. A block is not changed
once it has returned, so that its phrases can be taken at its end, by `ConnectivePhrase`, from the phrases of its
parts. No tree is needed, and no recursion.

A phrase is a kind (one that is there, none, or one Lucene cannot parse), whether a minus is in front, and the
documents it matches without the minus. `Matches` is the meaning Lucene gives a list (a part with a
minus is prohibited whatever the connector, a list of prohibited parts matches nothing).
The fields `means` and `regular` are history for the properties: the documents the DSL says the block
describes, and whether it is free of the cases of section 6.

`Collections`, `Records`, `Proxies` and the other modules list seeded faults before the
definitions they replace; they are used only to check that each property can fail.

## 4. Runs

Every run stops at its bounds, hence `CHECK_DEADLOCK FALSE`; liveness is checked
under fairness of the steps that are not choices of the application.

| Run | Question | Bounds, and why they are enough |
|---|---|---|
| session_dirty | With failing updates and exceptions, is a session with unpublished updates always dirty, if no removal is uncounted, no commit is made inside a block and commits are not refused? Also the inductive invariant `DirtyInv` of the proof. | Two sessions, one commits for the other; three calls open a block, index, and commit or raise. |
| session_all | Every call, every failure, in and out of blocks: is each document in one place, is a batch sent whole, does a block always find its batch, is the contract implemented? | One session, nested blocks. |
| session_order | Requests that Solr applies may time out, nothing else fails, blocks only add and do not nest: does the last write win, are the searches of a clean session current, is every document sent? | Two ids, four calls. |
| fault_single | One thread, one collection per call, live nodes cached: has a host that is passed over failed three requests since a call on it ended well, is one that failed three passed over, and does the turn pass a single bad host? | Two hosts; calls of one request and of an update and its commit; four calls of up to three tries reach the limit of three faults, and the hour passes once. |
| fault_threads | Two threads share the proxy: does every call end, tried the right number of times? | Two calls of every kind; hosts and requests for the live nodes fail. |
| records_writers | Does the index follow the rows? | Two writers of one row, three writes, one failure or rollback: a save and a destroy of one against a save of the other. |
| records_tasks | Does a task repair what nobody touched, and remove only orphans? | One writer, two rows, batches and pages of one row, so that every batch has a neighbour; a failure or a stop. |
| proxies_all | Do calls that ended well have their effect, is an unpublished update that a session counts remembered, is everything published by a commit, is exactly the batch of every block left by an exception still there, does every call return? | Two shards, two keys, three calls, every error at every request and in every block, before and after Solr applied the request. |
| collections_all | Does a search find what its process has published, do commit and remove_all reach every collection? | Two processes that share collections and not caches; one month with a plain and a postfixed collection; expiry and one failing request. |
| collections_if_dirty | Finding: commit_if_dirty publishes nothing. | One process, index and commit_if_dirty. |
| connectives_all | Do the phrases of a scope find what its blocks describe? | Three restrictions and three blocks: a denormalised disjunction inside a conjunction inside a disjunction fits. |
| cluster_repair | Does a repair spare the last copy, keep the number of replicas and heal what it can? | Two admins and the file, two collections, three shards of which one has two replicas, two spare names, two changes, two repairs, one failure. |

The conditions of session_order are needed: nested blocks are sent inner first,
and a removal inside a block is sent at once while earlier adds of the block
wait, so in both cases an older write may be the last one Solr sees. The conditions
of fault_single are needed too: with two collections, two threads, a failing request
for the live nodes or a nested handler, a host may be charged for what it did not do.

Exemptions are named in the properties: removals by id in `ProxyDirtySound` and `CommitPublishes`
(`Countable`: no session counts them), `spoilt` rows of Records (a rollback or
a failing request under after_save, a stale record), `doubtful` keys and
`unheard` shards of Proxies (a call that failed for good, a commit a shard refused),
`blind` collections of Collections (used without being listed), `Ordinary` scopes
of Connectives (section 6).

Connectives has no `TypeOK` of its own: `PhrasesInv` of its proofs types the stack, its components and phrases.

Fairness. `Session!Fairness`: a call that has requests to send goes on, and a block
whose code makes no further call returns. `FaultPolicy!FairSpec`: every thread
keeps running. `Proxies!FairSpec`: the thread that makes the call keeps running. All
three are the running Ruby thread; nothing is assumed of the calls the application
makes, of hosts, or of what fails.

## 5. Proofs

`SessionProofs`, for any sets of sessions, ids, calls and faults:

- `TypeCorrect`: `TypeOK` is invariant, whatever is called and whatever fails.
- `NoCurrentBatchNeverRaised`: the Batcher holds at least as many batches as
  there are open blocks, so `end_current` never raises. Exceptions only lower
  the number of blocks, and only `flush_batch` pops.
- `DirtyIsSound`, `DeleteDirtyIsSound`: under `Disciplined` (no uncounted
  removal, no commit in a block, no refused commit) an unpublished update keeps
  its session dirty. `DirtySound` alone is not inductive: documents reach Solr
  from a batch long after they were counted. `DirtyInv` (lemma `DirtyInductive`)
  adds that the batches of the blocks in execution (the top `blocks[s]` of the
  stack, not those left behind by exceptions) and the requests still to be sent are
  counted, and that a commit is the last request of a call made outside every block.
- `AllAccounted`: `Accounted`. `PlacesInv` numbers the places where a document
  can wait (the batches of the stack and the next request) and says that each document is in one
  place, that no waiting one is settled, that only the next request has documents,
  and that none is newer than the clock. The last is what keeps a new document apart from all old ones.
- `BatchesStayWhole`: `BatchSentWhole`, an action property, from the same invariant: what a
  step takes from a place it settles as a whole or moves as a whole.
- `ContractKept`: `ImplementsContract`, the refinement of `IndexContract`. Initial
  states map to initial states; each of the session's calls is `Accept` or a stutter, `SendAdd`,
  `SendDelete` and `SendCommit` are the contract's send or give-up, erasure and
  publication by the outcome of the request, and unwinding stutters, because batches left behind
  still wait.
- `LastWriteIsKept`: `LastWriteWins`, for one writer (`OneWriter`), blocks that only add and
  commit (`BlocksOnlyAdd`) and updates that reach Solr (`UpdatesArrive`; an add may be
  applied and time out, a document may not be prepared, a commit may fail either way, and
  the block's code may raise). `WriterInv` orders what is on its way: deletes come before
  everything else of a call, an add before its commit, and while a block is open only commits
  are sent. Unless an exception has left a batch behind, sending what is buffered and deleting what is
  still to be deleted brings the index to what is wanted (`Agrees`): of the documents
  with one id only the last counts.
- `CleanIsCurrent`: `CleanMeansCurrent`, for one writer, if removals count or commit
  (`RemovalsShow`) and nothing raises but a request that was applied (`OnlyTimeouts`). The
  obvious strengthening, that a searcher behind the core makes the session dirty, is false: between the
  delete and the commit of remove_by_id! it is behind and the session is clean.
  `CleanInv` says that the call then still ends in a commit.

`MaxExists` uses the well-founded order on the naturals to show that an add
request has a last document for each id, which `TypeCorrect` needs.

`FaultPolicyProofs`, for any threads, hosts, collections and retries:

- `TypeCorrect`: `TypeOK`. A selection is a sorted list of hosts that is never empty: the seeds
  take over when every host is faulty.
- `GivenUpInTime`: `GivesUpInTime`. The invariant `TriesCounted` says of a running
  call that its failed tries are at most `retries * (MaxRetries + 1) + inner`, and
  equal to `retries` without a nested handler: a round of the outer handler
  resets the inner count, so neither counter bounds the tries by itself.

and under `SimpleUse` (one thread, live nodes cached, and calls that write to one collection, with any
number of requests, or only make sessions; any number of hosts, seeds, calls and failures):

- `OnlyTheFailingIsFaulty`: `FaultyMeansFailed`, in both directions, from `ChargedFairly` (no host has
  more faults than failed requests, and as many while no hour has passed), which needs `SessionsInv`: a
  call that sends has made one session, for the current host, and all its requests go to it. A try
  whose update goes well and whose commit fails forgives nothing, because only a handler whose block is done
  resets the count.
- `OneHostInTrouble`: `OneDownTolerated`, with two hosts and one retry at least. `TroubleInv` says that
  a host is down or charged only if it has been in trouble; `TurnInv`, that the selection is the sorted
  list of at least the hosts never in trouble, where the turn stands in it at each of the five steps
  of take_hostname, and that after a failure it stands at a host that was never in trouble, even if the
  selection has changed in between. Without `SimpleUse` both properties fail (section 4).

`RecordsProofs`, for any writers, a table with finitely many rows, and any bounds:

- `TypeCorrect`: `TypeOK`, whatever writers and tasks do.
- `RowLockKeepsIndex`: `LockedFollows`, provided that columns whose changes are
  ignored are not part of the document (`IgnoredIrrelevant`). The index is behind
  the row while a transaction is open, so the property is not inductive; `LockInv` adds that a
  transaction holds its row alone (`HoldersAlone`) and that, inside it, the index is as the row
  was last written, or will be when the pending callback has run (`DraftFollows`).
- `RequestsPublish`: `RequestPublishes`. `PublishInv` adds that what is unpublished of a thread's
  requests has been counted by its session, as long as Solr refused none of its commits.
- `AloneIsFollowed`: `AloneFollows` under `QuietColumns`: ignored columns are not part of the document,
  and under after_commit there are none (a second save clears the mark of the first, section 6).
  `AloneInv` says of an undisturbed writer what its record, the row as its transaction sees it
  and the index have to do with each other at every step.

and of its tasks, for any page and batch sizes, failures and stops:

- `OrphansOnly`: `CleansOrphansOnly`. The ids are read from the index first and compared with the
  rows later, so what has to be shown is that the index never holds a document before its row is
  committed. `CleanInv` says so of every way a document can get there: an id that was not given out,
  and a record that is built or written but not committed (`Unborn`), has no row, no document, applied
  or published, and is neither among the ids the task has found nor in the batch it is about to send
  (`Nowhere`); no other writer has the record; and a transaction holds its rows alone
  (`HoldersAlone`). A save can make a row only of its own new record or of a row that was there
  before, so that a commit never adds a row to the ids that were found.
- `DocumentsAreGenuine`: `NoPhantoms`. `RowsInv` adds that what a callback is about to send and what the
  task's batch holds are versions that were rows.
- `TasksRepair`: `TaskRepairs`. `RepairInv` says for each row nobody touched how far the task has brought
  it (`Stage`): removed, passed by the batches or still ahead of them, in the batch, sent, published; and
  of a cleaning, that every orphan is on a page to come or among the ids found. A
  row is touched by whoever was in a transaction on it when the task began (`QuietFor`).

`CollectionsProofs`, for any processes, collections, caches and failures:

- `TypeCorrect`: `TypeOK`.
- `CommitsReach` and `RemovalsReach`: `CommitReachesAll` and `RemoveAllReachesAll`. `ReachInv`
  says of a running call that what it has to reach is reached already or lies in a collection whose
  request is still to come (`Coming`), and that only collections that exist hold
  documents, so that a forced list names them all.
- `SearchesFind`: `SearchFinds`. `FindInv` relates what a call knows (`IndexKnows`, `SearchKnows`) to the
  cached list: a collection a process has put objects into is on its list, or among its `blind`
  ones, or gone with its objects. It first failed on a collection that was resolved from an old list, deleted,
  and made again by another process (section 6).

`SortingProofs`: `Sorted` of a finite set of numbers is an enumeration of it in ascending order,
each at the position that its rank gives it; that every rank occurs is shown by least
and greatest counterexamples in the well-founded order. `FaultPolicyProofs` and `ProxiesProofs` rest on it.

`ProxiesProofs`, for any shards, wrappers, blocks and errors:

- `TypeCorrect`: `TypeOK`, of a call's requests by the requests of its plan. `FlattenSeq` is recursive; that its
  function exists is shown by a least counterexample.
- `BatchesAreLeft`: `BatchesLeft`: at every step of every try there is one batch for the running block and one
  for each run of a block that an exception has left, under each wrapper: one that lets the exception out,
  swallows it, or runs the block again.
- `DirtyIsSound`: `ProxyDirtySound`, if the calls in blocks commit nothing (`PlainBlocks`): of additions
  and of removals that a session counts. `DirtyInv`
  adds that the documents of a running block's batch were counted.
- `CommitsPublish`: `CommitPublishes`, under the same condition: `PublishInv` says that every shard not yet
  published still has a request to come, at the first try and at the second.
- `CallsTakeEffect`: `CallTookEffect`, if in addition no block removes an object after indexing it
  (`OrderlyBlocks`). A running call has done its work on a key, or has a request for it to come, or has put it
  into the open batch (`InWork`); the last document of an id in the batch is the one wanted
  (`BatchLatest`); and no removal overtakes it (`InOrder`).

TLC refutes `ProxyDirtySound` and `CommitPublishes` without `PlainBlocks` (a block with `index!`) and
`CallTookEffect` without `OrderlyBlocks` (a block that indexes and then removes); section 6 says what happens.

`ClusterProofs`, for any cluster of finitely many replicas and admins, and any failures:

- `TypeCorrect`: `TypeOK`.
- `RepairsSpare`: `LastCopySpared`. `SpareInv` says of every recoverable entry of every list, the
  stored one included, that each of the two ways its repair could meet the last copy (the listed
  replica is active again; no other active replica that is not on the list remains) has cost a change
  the list has not seen, and both together two. Repairs of the owner itself cannot be among them,
  because they delete only what is on the list.
- `RepairsKeepFactor`: `FactorKept`. While repairs run, the replicas of a shard are counted together with the
  additions still owed (`FactorInv`, `Balanced`).
- `RepairsHeal`: `RepairHeals`. `HealInv` says that a list nothing changed since names
  every replica to replace, and that a running repair still has those on its way; a collection
  never becomes recoverable by a repair (`Fades`).

`ConnectivesProofs`, for any fields and values and blocks nested and negated to any depth:

- `ScopesMean`: `PhraseMeans`. What a phrase matches is not enough to go on, since a disjunction asks its
  components for their negations. `PhrasesInv` says of every component of every open connective
  that is regular (`Sound`): its phrase finds what the component describes; unless it is a disjunction,
  the minus is there exactly when negated? says so; and unless it is an empty list too, its negation
  finds the rest, with the minus the other way round. The last is never asked of a disjunction, because one in a disjunction shares the
  connective around it: a frame of the kind of the frame below is `shared`, and no disjunction has one among its components.
  The steps are lemmas about lists: a conjunction with a part that has no minus finds what every part finds and has no minus
  (`ConjunctionFinds`), a disjunction of parts without one finds what some part finds (`DisjunctionFinds`),
  and De Morgan's law for a denormalised one (`DisjunctionSound`), whose list has a part without a minus
  because some component is negated.

Assumptions: the named ASSUMEs of the modules, which TLC evaluates in the runs, and the
conditions named above: `Disciplined`, `OneWriter` with `BlocksOnlyAdd` and `UpdatesArrive` or with `RemovalsShow` and
`OnlyTimeouts`, `IgnoredIrrelevant`, `QuietColumns`, `SimpleUse` with two hosts and a
retry, `PlainBlocks`, `OrderlyBlocks`, and that `Ids` of Records is finite. The runs' instances satisfy
them where they check the property.

Only model-checked: liveness (`EventuallySettled`, `EveryCallEnds`, `EveryCallReturns`), which is out
of the prover's reach; and `CommitIfDirtyReachesAll`, which is violated. Every other property of the runs is
a theorem.

## 6. Known divergences without a run

What the code does otherwise than its documentation, or than a reader may expect. The
conditions and exemptions of the properties keep these cases out.

Session:
- `remove_by_id` and `remove` with a block count no delete, so dirty? and
  delete_dirty? stay false.
- A commit that Solr refuses has cleared the counters; a commit inside a batch
  block clears them before the block's documents are sent.
- `batch` has no `ensure`: a block that raises leaves its batch, and later `index`
  calls are buffered in it and never sent.

Proxies:
- `remove_by_id` through a proxy counts nothing either: after index, commit and remove_by_id the
  proxy is clean and the removal unpublished, although sunspot.rb says of dirty? that it covers
  documents added, updated or removed since the last commit (`ProxyDirtySound` speaks of the others).
- An exception of a batch block is swallowed by the silent proxy, and a server error in one makes the retry proxy
  run the block again: in both cases the batch of the first run stays open, and what later calls index is put
  into it and never sent (`BatchesLeft` counts those batches).
- A conditional commit whose first try fails is made again with counters that are
  already zero: it finds nothing to do and ends well.
- A call ignored after its second failure looks like one that succeeded.
- `index!` inside a batch block commits, and clears the counters, before the block's documents
  are sent: the session is clean and the documents unpublished (`ProxyDirtySound` and
  `CommitPublishes` are violated if `Blocks` has such a block).
- A removal inside a block is sent at once and the additions wait for its end: a block that adds
  an object and then removes it leaves the object in the index (`CallTookEffect` is violated).
- `index!` while a batch is open that an exception has left behind puts its document into that batch
  and commits: it ends well, and the document is never sent.

Fault policy:
- With two threads, the turn may leave the range of the other one's selection, and a nil host
  is split; a failure is charged to the host chosen last, which may belong to another
  collection or another thread. With two collections or two threads, a failing request for the live nodes or a
  nested handler, a working host may therefore be passed over, and one that fails is not.
- A call whose update went well and whose commit failed is charged, and the update forgives nothing: three such
  failures bring a host to the limit although it answered half of its requests.
- A search that succeeds never resets its host's faults, because its block returns
  from the method; and faults older than an hour are dropped only when another
  exception calls `clean_faulty_state`, whereas the comment of `faulty?` says
  "time in fault state is 1h".

Collections:
- Two processes that create the same collection: the second CREATE fails, its list is not
  refreshed, and the collection is missing from that process's searches until the list expires.
- A collection that a call found in an old list may be deleted and made again by another
  process before the request comes: the call sends to it, and its own list, read in between,
  does not show it, so its own searches leave it out until the list expires.
- The live nodes are hardly ever refreshed once a list was read: the list comes first and
  shares its `:time`.
- Month 1 is a prefix of months 10 to 12, so a search of January asks more collections than
  it has to.
- An object whose `time_routed_on` changed is indexed in its new collection, and stays in the old one.

Records:
- Under after_commit a second save that changes only ignored columns clears the mark of the
  first one, and the record is not indexed at all.
- A record that was loaded before another request saved the row, and is saved itself, is
  indexed as it was loaded.
- Under after_save, a rollback leaves the index with what the database never had, and
  cleaning orphans may remove a document whose row commits in the meantime.
- Orphans are read page by page: a commit in between moves the pages, and some are missed.
- solr_reindex of a class without rows removes its documents and commits nothing; one that is stopped, or of
  which a batch fails, leaves the rest of the class out of the index until it is run again.
- A record that is destroyed between being read and being sent by a reindexing comes back to the index and stays.

Connectives:
- `any_of { with a; all_of { without b } }` becomes "(a OR -b)", which matches a and not b:
  denormalisation asks an all_of block whether it is negated, and not its parts (connective.rb:145-151).
- A conjunction of negated parts only, inside another block, matches nothing; a negated phrase that has
  a minus already gets a second one; an empty block inside another one leaves "(a OR )"; an
  `any_of([])` next to a negated part of a disjunction loses its meaning.

Cluster:
- The list is not emptied by a repair: a second repair deletes nothing and adds replicas.
- When ADDREPLICA fails the shard is left with fewer replicas, and the next report calls it ok.
- `@bad_urls` is made anew for every shard, so the report names the hosts of the last one only; and
  a restore without a stored status returns nil for the rows.

## 7. Not modelled

Document content, field types and their conversions, facets, sorting, highlighting
and paging (parameters and data, no order of steps); the search results; the
registries of setups and adapters, which are filled while classes load and read afterwards; the
thread-local and the master/slave proxy, which keep no state beyond what Session assumes;
the HTTP layer and Solr itself beyond what the modules mark as external; the local Solr server,
whose pid file is only as good as the operating system's processes.

Of modelled components: the Redis store of the faults; reload_collection; the methods
`select_valid_collections` of a class and the block of the proxy that filters collections; the counts and the
layout of the cluster report and the statistics of collections; reindexing without
batches; restrictions other than equality, nil and empty lists.
