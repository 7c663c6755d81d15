------------------------------ MODULE Session ------------------------------
(***************************************************************************)
(* Sunspot::Session over Sunspot::Indexer and Sunspot::Batcher             *)
(* (sunspot/session.rb, indexer.rb, batcher.rb), against an external Solr  *)
(* core.  A Session object belongs to one thread (ThreadLocalSessionProxy) *)
(* and several of them write to the same core.                             *)
(*                                                                         *)
(* An API call runs in two parts: its local part is one action (count,     *)
(* batch or line the requests up in todo), then every request is an action *)
(* of its own, so that the calls of two sessions interleave at requests.   *)
(* A request that raises ends the call, and the exception unwinds any      *)
(* number of the `batch` blocks around it, which are not flushed.          *)
(***************************************************************************)
EXTENDS Naturals, Sequences, FiniteSets, Batcher

CONSTANTS
    Sessions,  \* Session objects, one per thread
    Keys,      \* index ids
    Types,     \* classes: each is the set of ids whose type field names it
    Ops,       \* the API calls the application makes outside a batch block
    BatchOps,  \* the API calls it makes inside one
    Faults,    \* <<step, outcome>>: what may fail, and how
    Raises,    \* TRUE if the code inside a batch block may raise by itself
    MaxCalls,  \* bound: API calls in a behaviour
    MaxArgs,   \* bound: arguments of one call
    MaxDepth   \* bound: nested batch blocks

ASSUME BoundsAssumption ==
    /\ MaxCalls \in Nat
    /\ MaxArgs \in Nat
    /\ MaxDepth \in Nat

ASSUME TypesAssumption == Types \subseteq SUBSET Keys

\* "lost": Solr applied the request, the caller got an error (read timeout).
\* "refused": Solr did not apply it (connection refused, 4xx, 5xx).
\* <<"prepare", "refused">>: no Setup or adapter, or an atomic update of a
\* class with child documents; raised before any request.
ASSUME FaultsAssumption ==
    Faults \subseteq {"prepare", "add", "delete", "commit"} \X {"lost", "refused"}

VARIABLES
    core, searcher, pending,  \* the Solr core, see SolrCore
    adds, deletes,            \* @adds, @deletes
    stack,                    \* the Batcher's @stack
    blocks,                   \* `batch` blocks the application is inside of
    todo,                     \* requests the running call has yet to send
    clock,                    \* API calls so far; the version of a document
    accepted,                 \* history: documents the indexer took
    settled,                  \* history: documents of finished add requests
    wanted                    \* history: index content the calls asked for

solr == <<core, searcher, pending>>
local == <<adds, deletes, stack, blocks, todo>>
history == <<accepted, settled, wanted>>
vars == <<core, searcher, pending, adds, deletes, stack, blocks, todo,
          clock, accepted, settled, wanted>>

Core == INSTANCE SolrCore

Docs == Core!Docs

\* Arguments of a call: a Ruby array, repetitions included.
Lists == UNION {[1 .. n -> Keys] : n \in 0 .. MaxArgs}

AddRequest(docs) == [op |-> "add", docs |-> docs, ids |-> {}]
DeleteRequest(ids) == [op |-> "delete", docs |-> << >>, ids |-> ids]
CommitRequest == [op |-> "commit", docs |-> << >>, ids |-> {}]

Requests == [op : {"add", "delete", "commit"},
             docs : Seq(Docs),
             ids : SUBSET Keys]

TypeOK ==
    /\ Core!SolrTypeOK
    /\ adds \in [Sessions -> Nat]
    /\ deletes \in [Sessions -> Nat]
    /\ stack \in [Sessions -> Seq(Seq(Docs))]
    /\ blocks \in [Sessions -> Nat]
    /\ todo \in [Sessions -> Seq(Requests)]
    /\ clock \in Nat
    /\ accepted \subseteq Docs
    /\ settled \subseteq Docs
    /\ wanted \in [Keys -> Nat]

Init ==
    /\ Core!SolrInit
    /\ adds = [s \in Sessions |-> 0]
    /\ deletes = [s \in Sessions |-> 0]
    /\ stack = [s \in Sessions |-> << >>]
    /\ blocks = [s \in Sessions |-> 0]
    /\ todo = [s \in Sessions |-> << >>]
    /\ clock = 0
    /\ accepted = {}
    /\ settled = {}
    /\ wanted = [k \in Keys |-> 0]

\* Seeded fault: removals do not make a session dirty.
DirtyByAddsOnly(s) == adds[s] > 0

Dirty(s) == deletes[s] + adds[s] > 0

DeleteDirty(s) == deletes[s] > 0

-----------------------------------------------------------------------------
(* The calls.                                                              *)

\* The thread of s is between two calls and makes the call op.
Calls(s, op) ==
    /\ todo[s] = << >>
    /\ clock < MaxCalls
    /\ op \in IF blocks[s] = 0 THEN Ops ELSE BatchOps
    /\ clock' = clock + 1

\* The exception leaves some of the batch blocks around the call.
Unwind(s) ==
    /\ todo' = [todo EXCEPT ![s] = << >>]
    /\ \E n \in 0 .. blocks[s] : blocks' = [blocks EXCEPT ![s] = n]

\* Indexer#prepare_full_update for every object: what is sent later is the
\* document as it is now.
Prepared(list) == [i \in DOMAIN list |-> [id |-> list[i], at |-> clock + 1]]

\* `@adds += n`, then Indexer#add_batch_documents, then the requests in after.
AddDocuments(s, list, after) ==
    LET docs == Prepared(list) IN
    /\ adds' = [adds EXCEPT ![s] = @ + Len(list)]
    /\ IF batching(stack[s])
       THEN /\ stack' = [stack EXCEPT ![s] = concat(@, docs)]
            /\ todo' = [todo EXCEPT ![s] = after]
       ELSE /\ todo' = [todo EXCEPT ![s] = <<AddRequest(docs)>> \o after]
            /\ UNCHANGED stack
    /\ accepted' = accepted \cup {docs[i] : i \in DOMAIN docs}
    /\ wanted' = [k \in Keys |-> IF \E i \in DOMAIN list : list[i] = k
                                 THEN clock + 1 ELSE wanted[k]]
    /\ UNCHANGED <<solr, deletes, blocks, settled>>

Index(s, list) == Calls(s, "index") /\ AddDocuments(s, list, << >>)

IndexNow(s, list) == Calls(s, "index!") /\ AddDocuments(s, list, <<CommitRequest>>)

\* updates is a Hash from id to values, so no id comes twice.
Distinct(list) == \A i, j \in DOMAIN list : list[i] = list[j] => i = j

AtomicUpdate(s, list) ==
    Distinct(list) /\ Calls(s, "atomic_update") /\ AddDocuments(s, list, << >>)

AtomicUpdateNow(s, list) ==
    /\ Distinct(list)
    /\ Calls(s, "atomic_update!")
    /\ AddDocuments(s, list, <<CommitRequest>>)

\* The document cannot be built: the call has counted it and raises.
PrepareFails(s, list) ==
    /\ <<"prepare", "refused">> \in Faults
    /\ \E op \in {"index", "index!", "atomic_update", "atomic_update!"} : Calls(s, op)
    /\ adds' = [adds EXCEPT ![s] = @ + Len(list)]
    /\ Unwind(s)
    /\ UNCHANGED <<solr, deletes, stack, history>>

\* `@deletes += n`, then the requests of the call.
DeleteDocuments(s, n, ids, requests) ==
    /\ deletes' = [deletes EXCEPT ![s] = @ + n]
    /\ todo' = [todo EXCEPT ![s] = requests]
    /\ wanted' = [k \in Keys |-> IF k \in ids THEN 0 ELSE wanted[k]]
    /\ UNCHANGED <<solr, adds, stack, blocks, accepted, settled>>

\* One delete_by_id request per object.
RemoveRequests(list) == [i \in DOMAIN list |-> DeleteRequest({list[i]})]

IdsOf(list) == {list[i] : i \in DOMAIN list}

\* Seeded fault: remove forgets to count.
RemoveUncounted(s, list) ==
    /\ Calls(s, "remove")
    /\ DeleteDocuments(s, 0, IdsOf(list), RemoveRequests(list))

Remove(s, list) ==
    /\ Calls(s, "remove")
    /\ DeleteDocuments(s, Len(list), IdsOf(list), RemoveRequests(list))

RemoveNow(s, list) ==
    /\ Calls(s, "remove!")
    /\ DeleteDocuments(s, Len(list), IdsOf(list),
                       RemoveRequests(list) \o <<CommitRequest>>)

\* remove(Type) { scope }: one delete_by_query, and @deletes is left alone.
RemoveByScope(s, type, scope) ==
    /\ Calls(s, "remove_by_scope")
    /\ DeleteDocuments(s, 0, type \cap scope, <<DeleteRequest(type \cap scope)>>)

RemoveByScopeNow(s, type, scope) ==
    /\ Calls(s, "remove_by_scope!")
    /\ DeleteDocuments(s, 0, type \cap scope,
                       <<DeleteRequest(type \cap scope), CommitRequest>>)

\* One delete_by_id for all the ids, and @deletes is left alone.
RemoveById(s, ids) ==
    /\ Calls(s, "remove_by_id")
    /\ DeleteDocuments(s, 0, ids, <<DeleteRequest(ids)>>)

\* Seeded fault: remove_by_id! without its commit.
RemoveByIdNowForgetsCommit(s, ids) ==
    /\ Calls(s, "remove_by_id!")
    /\ DeleteDocuments(s, 0, ids, <<DeleteRequest(ids)>>)

RemoveByIdNow(s, ids) ==
    /\ Calls(s, "remove_by_id!")
    /\ DeleteDocuments(s, 0, ids, <<DeleteRequest(ids), CommitRequest>>)

\* remove_all without classes is one `*:*` request that counts 1; with classes
\* it is one request per class, and counts each.
RemoveAllArgs == {<<Keys>>} \cup UNION {[1 .. n -> Types] : n \in 1 .. MaxArgs}

RemoveAllRequests(classes) == [i \in DOMAIN classes |-> DeleteRequest(classes[i])]

RemoveAll(s, classes) ==
    /\ Calls(s, "remove_all")
    /\ DeleteDocuments(s, Len(classes), UNION IdsOf(classes),
                       RemoveAllRequests(classes))

RemoveAllNow(s, classes) ==
    /\ Calls(s, "remove_all!")
    /\ DeleteDocuments(s, Len(classes), UNION IdsOf(classes),
                       RemoveAllRequests(classes) \o <<CommitRequest>>)

\* Every call that does nothing but commit.
JustCommit(s) ==
    /\ todo' = [todo EXCEPT ![s] = <<CommitRequest>>]
    /\ UNCHANGED <<solr, adds, deletes, stack, blocks, history>>

Commit(s) == Calls(s, "commit") /\ JustCommit(s)

Optimize(s) == Calls(s, "optimize") /\ JustCommit(s)

CommitIfDirty(s) == Dirty(s) /\ Calls(s, "commit_if_dirty") /\ JustCommit(s)

CommitIfDeleteDirty(s) ==
    DeleteDirty(s) /\ Calls(s, "commit_if_delete_dirty") /\ JustCommit(s)

StartBatch(s) ==
    /\ blocks[s] < MaxDepth
    /\ Calls(s, "batch")
    /\ stack' = [stack EXCEPT ![s] = start_new(@)]
    /\ blocks' = [blocks EXCEPT ![s] = @ + 1]
    /\ UNCHANGED <<solr, adds, deletes, todo, history>>

\* Seeded fault: the batch is sent one document at a time.
FlushOneByOne(s) ==
    /\ todo[s] = << >>
    /\ blocks[s] > 0
    /\ depth(stack[s]) > 0
    /\ stack' = [stack EXCEPT ![s] = end_current(@)]
    /\ blocks' = [blocks EXCEPT ![s] = @ - 1]
    /\ LET batch == current(stack[s])
       IN  todo' = [todo EXCEPT ![s] = [i \in DOMAIN batch |-> AddRequest(<<batch[i]>>)]]
    /\ UNCHANGED <<solr, adds, deletes, clock, history>>

\* Seeded fault: the batch is popped and forgotten.
FlushForgets(s) ==
    /\ todo[s] = << >>
    /\ blocks[s] > 0
    /\ depth(stack[s]) > 0
    /\ stack' = [stack EXCEPT ![s] = end_current(@)]
    /\ blocks' = [blocks EXCEPT ![s] = @ - 1]
    /\ UNCHANGED <<solr, adds, deletes, todo, clock, history>>

\* The block returns: the batch is popped before it is sent.  It is not a call
\* of its own, so it does not advance the clock.
FlushBatch(s) ==
    /\ todo[s] = << >>
    /\ blocks[s] > 0
    /\ depth(stack[s]) > 0
    /\ stack' = [stack EXCEPT ![s] = end_current(@)]
    /\ blocks' = [blocks EXCEPT ![s] = @ - 1]
    /\ todo' = [todo EXCEPT ![s] = <<AddRequest(current(stack[s]))>>]
    /\ UNCHANGED <<solr, adds, deletes, clock, history>>

\* The code of a block raises; there is no `ensure` around the yield.
BlockRaises(s) ==
    /\ Raises
    /\ todo[s] = << >>
    /\ \E n \in 0 .. blocks[s] - 1 : blocks' = [blocks EXCEPT ![s] = n]
    /\ UNCHANGED <<solr, adds, deletes, stack, todo, clock, history>>

-----------------------------------------------------------------------------
(* The requests.                                                           *)

Outcomes(op) == {"ok"} \cup {o \in {"lost", "refused"} : <<op, o>> \in Faults}

\* After its request the call goes on, or ends with an exception.
Returns(s, outcome) ==
    IF outcome = "ok"
    THEN todo' = [todo EXCEPT ![s] = Tail(@)] /\ UNCHANGED blocks
    ELSE Unwind(s)

Sending(s, op) == todo[s] # << >> /\ Head(todo[s]).op = op

SendAdd(s, outcome) ==
    LET docs == Head(todo[s]).docs IN
    /\ Sending(s, "add")
    /\ IF outcome = "refused" THEN UNCHANGED solr ELSE Core!SolrAdd(s, docs)
    /\ Returns(s, outcome)
    /\ settled' = settled \cup {docs[i] : i \in DOMAIN docs}
    /\ UNCHANGED <<adds, deletes, stack, clock, accepted, wanted>>

SendDelete(s, outcome) ==
    /\ Sending(s, "delete")
    /\ IF outcome = "refused" THEN UNCHANGED solr
       ELSE Core!SolrDelete(s, Head(todo[s]).ids)
    /\ Returns(s, outcome)
    /\ UNCHANGED <<adds, deletes, stack, clock, history>>

\* Session#commit and Session#optimize: the counters are reset first.
SendCommit(s, outcome) ==
    /\ Sending(s, "commit")
    /\ adds' = [adds EXCEPT ![s] = 0]
    /\ deletes' = [deletes EXCEPT ![s] = 0]
    /\ IF outcome = "refused" THEN UNCHANGED solr ELSE Core!SolrCommit
    /\ Returns(s, outcome)
    /\ UNCHANGED <<stack, clock, history>>

Request(s) ==
    \/ \E o \in Outcomes("add") : SendAdd(s, o)
    \/ \E o \in Outcomes("delete") : SendDelete(s, o)
    \/ \E o \in Outcomes("commit") : SendCommit(s, o)

Call(s) ==
    \/ \E list \in Lists :
         \/ Index(s, list)
         \/ IndexNow(s, list)
         \/ AtomicUpdate(s, list)
         \/ AtomicUpdateNow(s, list)
         \/ PrepareFails(s, list)
         \/ Remove(s, list)
         \/ RemoveNow(s, list)
    \/ \E ids \in SUBSET Keys :
         \/ RemoveById(s, ids)
         \/ RemoveByIdNow(s, ids)
         \/ \E type \in Types : RemoveByScope(s, type, ids) \/ RemoveByScopeNow(s, type, ids)
    \/ \E classes \in RemoveAllArgs : RemoveAll(s, classes) \/ RemoveAllNow(s, classes)
    \/ Commit(s)
    \/ Optimize(s)
    \/ CommitIfDirty(s)
    \/ CommitIfDeleteDirty(s)
    \/ StartBatch(s)
    \/ FlushBatch(s)
    \/ BlockRaises(s)

Next == \E s \in Sessions : Call(s) \/ Request(s)

Spec == Init /\ [][Next]_vars

(***************************************************************************)
(* A thread keeps running: a call that has requests to send sends them,    *)
(* and a batch block that makes no further call returns.                   *)
(***************************************************************************)
Fairness == \A s \in Sessions : WF_vars(Request(s)) /\ WF_vars(FlushBatch(s))

FairSpec == Spec /\ Fairness
-----------------------------------------------------------------------------
(* Properties.                                                             *)

DocsOf(batch) == {batch[i] : i \in DOMAIN batch}

\* The batches of s that have not reached Solr: open ones, and those of the
\* add requests the running call has yet to send.
Unsent(s) ==
    {stack[s][i] : i \in DOMAIN stack[s]} \cup {todo[s][i].docs : i \in DOMAIN todo[s]}

Waiting(s) == UNION {DocsOf(batch) : batch \in Unsent(s)}

Idle(s) == todo[s] = << >> /\ blocks[s] = 0

\* No call and no batch block is running, and nothing is buffered.
Quiescent == \A s \in Sessions : Idle(s) /\ stack[s] = << >>

\* sunspot.rb, dirty?: "True if documents have been added, updated, or removed
\* since the last commit."  An update Solr holds for a session and no commit
\* has published leaves the session dirty, whoever committed last.
DirtySound == \A s \in Sessions : pending[s] # {} => Dirty(s)

\* sunspot.rb, delete_dirty?: "Whether there have been any deletes since the
\* last commit."  A removal not yet published leaves the session delete dirty.
DeleteDirtySound == \A s \in Sessions : "delete" \in pending[s] => DeleteDirty(s)

\* flush_batch never meets an empty stack (NoCurrentBatchError), whatever
\* exceptions have left the blocks.
StackCoversBlocks == \A s \in Sessions : blocks[s] <= depth(stack[s])

\* Every document the indexer took is in one place: waiting in a batch or in a
\* request to come, or settled by an add request that succeeded or raised.
Accounted ==
    LET waiting == UNION {Waiting(s) : s \in Sessions}
    IN  accepted = settled \cup waiting /\ settled \cap waiting = {}

\* When nothing runs and nothing is buffered, the index holds for every key
\* what the last call about it asked for.
LastWriteWins == Quiescent => core = wanted

\* A session that is not dirty owes nothing to searches: when it is between
\* two calls outside a batch block they see what its calls asked for.
CleanMeansCurrent ==
    \A s \in Sessions : Idle(s) /\ ~Dirty(s) => searcher = wanted

\* sunspot.rb, batch: the adds of a block are sent "in a single request".  The
\* documents of a batch stay together until one request settles them all.
BatchSentWhole ==
    [][\A s \in Sessions : \A batch \in Unsent(s) :
          \/ DocsOf(batch) \subseteq settled'
          \/ /\ DocsOf(batch) \cap settled' = {}
             /\ \E later \in Unsent(s)' : DocsOf(batch) \subseteq DocsOf(later)]_vars

\* Every document the indexer took is sent in the end.
EventuallySettled == \A d \in [id : Keys, at : 1 .. MaxCalls] :
                         d \in accepted ~> d \in settled

Contract == INSTANCE IndexContract WITH
    Docs <- [id : Keys, at : 1 .. MaxCalls],
    index <- core,
    published <- searcher,
    waiting <- UNION {Waiting(s) : s \in Sessions},
    done <- settled

(***************************************************************************)
(* What an application has to keep to, so that the counters can be         *)
(* believed: no uncounted removal, no commit inside a batch block, and a   *)
(* commit that raises has been applied.                                    *)
(***************************************************************************)
Uncounted == {"remove_by_scope", "remove_by_scope!", "remove_by_id", "remove_by_id!"}

Committing == {"index!", "atomic_update!", "remove!", "remove_by_scope!",
               "remove_by_id!", "remove_all!", "commit", "optimize",
               "commit_if_dirty", "commit_if_delete_dirty"}

Disciplined ==
    /\ (Ops \cup BatchOps) \cap Uncounted = {}
    /\ BatchOps \cap Committing = {}
    /\ <<"commit", "refused">> \notin Faults

(***************************************************************************)
(* The inductive invariant behind DirtySound and DeleteDirtySound.         *)
(***************************************************************************)

\* The blocks in execution hold the last blocks[s] batches of the stack.  Their
\* documents are counted; a batch below them was left behind by an exception
\* and is never popped.
OpenBatchesCounted ==
    \A s \in Sessions : \A i \in DOMAIN stack[s] :
        i > Len(stack[s]) - blocks[s] /\ stack[s][i] # << >> => adds[s] > 0

\* The updates still to be sent are counted.
RequestsCounted ==
    \A s \in Sessions : \A i \in DOMAIN todo[s] :
        /\ todo[s][i].op = "add" /\ todo[s][i].docs # << >> => adds[s] > 0
        /\ todo[s][i].op = "delete" => deletes[s] > 0

\* A commit is the last request of its call, and no batch block is open.
CommitsComeLast ==
    \A s \in Sessions : \A i \in DOMAIN todo[s] :
        todo[s][i].op = "commit" => i = Len(todo[s]) /\ blocks[s] = 0

\* The updates Solr holds unpublished are counted, by kind.
PendingCounted ==
    \A s \in Sessions :
        /\ "add" \in pending[s] => adds[s] > 0
        /\ "delete" \in pending[s] => deletes[s] > 0

DirtyInv ==
    /\ OpenBatchesCounted
    /\ RequestsCounted
    /\ CommitsComeLast
    /\ PendingCounted

\* Batching, request by request sending and failing calls implement what the
\* API promises about the index and about searches.
ImplementsContract == Contract!Spec
=============================================================================
