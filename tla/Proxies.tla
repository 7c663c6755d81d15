------------------------------ MODULE Proxies ------------------------------
(***************************************************************************)
(* The session proxies that make one call into several, or one call twice  *)
(* (sunspot/session_proxy): ShardingSessionProxy and its subclasses send a *)
(* call to the shards of its objects, Retry5xxSessionProxy makes a call    *)
(* again that a server error ended, SilentFailSessionProxy swallows every  *)
(* error.  Either of the last two may be wrapped around the first, or      *)
(* around a plain session.                                                 *)
(*                                                                         *)
(* The proxies keep no state of their own: a call is made by one thread    *)
(* and consists of session calls, one request each, that may fail.  Of a   *)
(* session the module keeps what its counters know of and, for a plain     *)
(* session, the stack of batches (see Batcher and Session).  Every shard   *)
(* is a Solr core of its own (external).                                   *)
(***************************************************************************)
EXTENDS Naturals, Sequences, FiniteSets, SequencesExt, Sorting, Batcher

CONSTANTS
    Shards,    \* all_sessions, in order
    Keys,      \* index ids
    ShardOf,   \* the shard of an id: session_for
    Wraps,     \* proxies to wrap around: subset of {"none", "retry", "silent"}
    Ops,       \* the calls the application makes
    Blocks,    \* the code of batch blocks: sequences of <<op, key>>
    Errors,    \* "server": 5xx or connection reset; "client": any other error,
               \* a timeout among them
    MaxCalls   \* bound: calls in a behaviour

Sessions == {Shards[i] : i \in DOMAIN Shards}

ASSUME ShardsAssumption ==
    /\ Shards \in Seq(Sessions)
    /\ Shards # << >>
    /\ IsInjective(Shards)
    /\ ShardOf \in [Keys -> Sessions]

ASSUME CallsAssumption ==
    /\ MaxCalls \in Nat
    /\ Wraps \subseteq {"none", "retry", "silent"}
    /\ Errors \subseteq {"server", "client"}

VARIABLES
    wrap,       \* the outer proxy
    sharded,    \* whether a sharding proxy is inside, or a plain session
    count,      \* per session, the kinds of updates it has counted
    stack,      \* the Batcher of the plain session
    core,       \* per shard, what the index writer holds
    searcher,   \* per shard, what searches see
    pending,    \* history: per shard, kinds of updates not published
    call,       \* the running call
    frame,      \* the batch block around it
    clock,      \* calls made; the version of a document
    last,       \* history: the last call that ended
    wanted,     \* history: what the calls asked for
    doubtful,   \* history: keys whose last call did not end well
    unheard,    \* history: shards that refused a commit and had none since
    abandoned   \* history: runs of batch blocks that an exception has left

solr == <<core, searcher, pending>>
vars == <<wrap, sharded, count, stack, core, searcher, pending, call, frame,
          clock, last, wanted, doubtful, unheard, abandoned>>

NoCall == [op |-> "none", args |-> << >>, plan |-> << >>, todo |-> << >>, tries |-> 0]
NoFrame == [open |-> FALSE, block |-> << >>, left |-> << >>, tries |-> 0]

Init ==
    /\ wrap \in Wraps
    /\ sharded \in BOOLEAN
    /\ count = [s \in Sessions |-> {}]
    /\ stack = << >>
    /\ core = [s \in Sessions |-> [k \in Keys |-> 0]]
    /\ searcher = core
    /\ pending = [s \in Sessions |-> {}]
    /\ call = NoCall
    /\ frame = NoFrame
    /\ clock = 0
    /\ last = [op |-> "none", ended |-> "ok", tries |-> 0, blind |-> {}]
    /\ wanted = [k \in Keys |-> 0]
    /\ doubtful = {}
    /\ unheard = {}
    /\ abandoned = 0

-----------------------------------------------------------------------------
(* What a call consists of: session calls, as <<op, session, keys>>.       *)

Home(k) == IF sharded THEN ShardOf[k] ELSE Shards[1]

all_sessions == IF sharded THEN Shards ELSE <<Shards[1]>>

\* The elements of list at these positions, in their order.
Picked(list, positions) ==
    LET order == Sorted(positions) IN [n \in DOMAIN order |-> list[order[n]]]

\* The sessions of the objects, in the order in which they first appear.
SessionsOf(list) ==
    LET homes == [i \in DOMAIN list |-> Home(list[i])]
    IN  Picked(homes, {i \in DOMAIN homes : \A j \in 1 .. i - 1 : homes[j] # homes[i]})

GroupOf(list, s) == Picked(list, {i \in DOMAIN list : Home(list[i]) = s})

\* Seeded fault: every group goes to the session of the first object.
GroupedByFirst(op, list) ==
    IF list = << >> THEN << >> ELSE <<[op |-> op, at |-> Home(list[1]), keys |-> list]>>

\* using_sharded_session: one session call per group.
Grouped(op, list) ==
    LET sessions == SessionsOf(list)
    IN  [n \in DOMAIN sessions |->
            [op |-> op, at |-> sessions[n], keys |-> GroupOf(list, sessions[n])]]

\* Seeded fault: only the first session is asked.
FirstOnly(op) == <<[op |-> op, at |-> all_sessions[1], keys |-> << >>]>>

\* all_sessions.each
Everywhere(op) ==
    [n \in DOMAIN all_sessions |-> [op |-> op, at |-> all_sessions[n], keys |-> << >>]]

\* The requests of one session call.
Requests(c) ==
    CASE c.op = "index!" -> <<[c EXCEPT !.op = "index"], [c EXCEPT !.op = "commit"]>>
      [] c.op = "remove" -> [n \in DOMAIN c.keys |-> [c EXCEPT !.keys = <<c.keys[n]>>]]
      [] c.op = "remove!" ->
             [n \in DOMAIN c.keys |-> [op |-> "remove", at |-> c.at, keys |-> <<c.keys[n]>>]]
                 \o <<[c EXCEPT !.op = "commit"]>>
      [] c.op = "remove_all!" -> <<[c EXCEPT !.op = "remove_all"], [c EXCEPT !.op = "commit"]>>
      [] OTHER -> <<c>>

ByObject == {"index", "index!", "remove", "remove!", "remove_by_id"}
ByShard == {"remove_all", "remove_all!", "commit", "commit_if_dirty",
            "commit_if_delete_dirty"}

ASSUME BlocksAssumption == Blocks \subseteq Seq(ByObject \X Keys)

Plan(op, list) ==
    LET parts == IF op \in ByObject THEN Grouped(op, list) ELSE Everywhere(op)
    IN  FlattenSeq([n \in DOMAIN parts |-> Requests(parts[n])])

\* Arguments: objects, none of them twice.
Lists == {list \in UNION {[1 .. n -> Keys] : n \in 1 .. Cardinality(Keys)} : IsInjective(list)}

Affects(op, list) ==
    IF op \in ByObject THEN ToSet(list)
    ELSE IF op \in {"remove_all", "remove_all!"} THEN Keys ELSE {}

Asked(op, list) ==
    [k \in Keys |-> IF k \notin Affects(op, list) THEN wanted[k]
                    ELSE IF op \in {"index", "index!"} THEN clock + 1 ELSE 0]

Starts(op, list) ==
    /\ clock' = clock + 1
    /\ call' = [op |-> op, args |-> list, plan |-> Plan(op, list), todo |-> Plan(op, list),
                tries |-> 0]
    /\ last' = [last EXCEPT !.blind = unheard]
    /\ wanted' = Asked(op, list)
    /\ doubtful' = doubtful \cup Affects(op, list)
    /\ UNCHANGED <<wrap, sharded, count, stack, solr, unheard, abandoned>>

Call(op, list) ==
    /\ call.op = "none"
    /\ ~frame.open
    /\ clock < MaxCalls
    /\ op \in Ops \cap (ByObject \cup ByShard)
    /\ (op \in ByShard) = (list = << >>)
    /\ Starts(op, list)
    /\ UNCHANGED frame

\* batch, which sharding proxies do not support.
CallBatch(block) ==
    /\ call.op = "none"
    /\ ~frame.open
    /\ clock < MaxCalls
    /\ "batch" \in Ops
    /\ ~sharded
    /\ frame' = [open |-> TRUE, block |-> block, left |-> block, tries |-> 0]
    /\ stack' = start_new(stack)
    /\ clock' = clock + 1
    /\ last' = [last EXCEPT !.blind = unheard]
    /\ UNCHANGED <<wrap, sharded, count, solr, call, wanted, doubtful, unheard, abandoned>>

\* The block makes its next call, over the same proxy.
CallInBlock ==
    /\ frame.open
    /\ call.op = "none"
    /\ frame.left # << >>
    /\ Starts(Head(frame.left)[1], <<Head(frame.left)[2]>>)
    /\ frame' = [frame EXCEPT !.left = Tail(@)]

-----------------------------------------------------------------------------
(* How calls end.                                                          *)

\* Seeded fault: the retries of Retry5xxSessionProxy are not counted.
TriedAgain(c) == [c EXCEPT !.todo = c.plan]

\* retry: the call is made again from its beginning.
Again(c) == [c EXCEPT !.todo = c.plan, !.tries = @ + 1]

\* Seeded fault: the limit is compared after it was used up.
RetriesTwice(error, tries) == wrap = "retry" /\ error = "server" /\ tries <= 1

Retries(error, tries) == wrap = "retry" /\ error = "server" /\ tries = 0

Ignores(error) == wrap = "silent" \/ (wrap = "retry" /\ error = "server")

Ended(how) == last' = [last EXCEPT !.op = call.op, !.ended = how, !.tries = call.tries]

\* The caller gets the error.  A block around the call rescues it and goes on, or
\* lets it out (BlockRaises).
Raises == call' = NoCall /\ Ended("raised")

CallFails(error) ==
    /\ UNCHANGED <<frame, abandoned>>
    /\ IF Retries(error, call.tries) THEN call' = Again(call) /\ UNCHANGED last
       ELSE IF Ignores(error) THEN call' = NoCall /\ Ended("ignored")
       ELSE Raises

\* The block raises, between two calls or after the last: what a call in it raised,
\* or an error of its own.  batch has no ensure, so its batch stays on the stack,
\* while the outer proxy lets the error out, swallows it, or runs the block again.
BlockRaises(error) ==
    LET again == Retries(error, frame.tries) IN
    /\ frame.open
    /\ call.op = "none"
    /\ abandoned' = abandoned + 1
    /\ stack' = IF again THEN start_new(stack) ELSE stack
    /\ frame' = IF again THEN [frame EXCEPT !.left = frame.block, !.tries = 1] ELSE NoFrame
    /\ last' = IF again THEN last
               ELSE [last EXCEPT !.op = "batch", !.tries = frame.tries,
                         !.ended = IF Ignores(error) THEN "ignored" ELSE "raised"]
    /\ UNCHANGED <<wrap, sharded, count, solr, call, clock, wanted, doubtful, unheard>>

\* The request went well: the next one, or the call is over.
Proceeds ==
    /\ UNCHANGED <<frame, abandoned>>
    /\ IF Len(call.todo) > 1
       THEN call' = [call EXCEPT !.todo = Tail(@)] /\ UNCHANGED last
       ELSE call' = NoCall /\ Ended("ok")

\* What was asked for is done when the last request of the call went well.
Certain(keys) ==
    doubtful' = IF Len(call.todo) = 1 THEN doubtful \ keys ELSE doubtful

-----------------------------------------------------------------------------
(* Requests.  An outcome is "ok", or an error and whether Solr had applied *)
(* the request when it came.                                               *)

Outcomes == {[error |-> "none", applied |-> TRUE]}
            \cup [error : {"server", "client"}, applied : BOOLEAN]

Possible == {o \in Outcomes : o.error = "none" \/ o.error \in Errors}

\* Seeded fault: a session counts what went well only.
CountsSuccess(s, kind, outcome) ==
    count' = IF outcome.error = "none" THEN [count EXCEPT ![s] = @ \cup {kind}] ELSE count

Counts(s, kind, outcome) == count' = [count EXCEPT ![s] = @ \cup {kind}]

Docs(list) == [n \in DOMAIN list |-> [id |-> list[n], at |-> clock]]

\* The last document of an id wins.
Applied(s, docs) ==
    [k \in Keys |->
        LET at == {i \in DOMAIN docs : docs[i].id = k}
        IN  IF at = {} THEN core[s][k]
            ELSE docs[CHOOSE i \in at : \A j \in at : j <= i].at]

Adds(s, docs, outcome) ==
    /\ core' = IF outcome.applied THEN [core EXCEPT ![s] = Applied(s, docs)] ELSE core
    /\ pending' = IF outcome.applied /\ docs # << >>
                  THEN [pending EXCEPT ![s] = @ \cup {"add"}] ELSE pending
    /\ UNCHANGED searcher

\* Of the kind "delete", or "remove_by_id", which the session does not count.
Deletes(s, keys, kind, outcome) ==
    /\ core' = IF outcome.applied
               THEN [core EXCEPT ![s] = [k \in Keys |-> IF k \in keys THEN 0 ELSE @[k]]]
               ELSE core
    /\ pending' = IF outcome.applied /\ \E k \in keys : core[s][k] # 0
                  THEN [pending EXCEPT ![s] = @ \cup {kind}] ELSE pending
    /\ UNCHANGED searcher

Commits(s, outcome) ==
    /\ count' = [count EXCEPT ![s] = {}]
    /\ IF outcome.applied
       THEN /\ searcher' = [searcher EXCEPT ![s] = core[s]]
            /\ pending' = [pending EXCEPT ![s] = {}]
            /\ unheard' = unheard \ {s}
       ELSE UNCHANGED <<searcher, pending>> /\ unheard' = unheard \cup {s}
    /\ UNCHANGED core

Running(ops) == call.todo # << >> /\ Head(call.todo).op \in ops

Continues(outcome, keys) ==
    IF outcome.error = "none" THEN Proceeds /\ Certain(keys)
    ELSE CallFails(outcome.error) /\ UNCHANGED doubtful

SendIndex(outcome) ==
    LET r == Head(call.todo) IN
    /\ Running({"index"})
    /\ ~batching(stack)
    /\ Counts(r.at, "add", outcome)
    /\ Adds(r.at, Docs(r.keys), outcome)
    /\ Continues(outcome, ToSet(call.args))
    /\ UNCHANGED <<wrap, sharded, stack, clock, wanted, unheard>>

\* Inside a block, or after one was abandoned, the documents go to the batch.
BatchIndex ==
    LET r == Head(call.todo) IN
    /\ Running({"index"})
    /\ batching(stack)
    /\ count' = [count EXCEPT ![r.at] = @ \cup {"add"}]
    /\ stack' = concat(stack, Docs(r.keys))
    /\ Proceeds
    /\ UNCHANGED <<wrap, sharded, solr, clock, wanted, doubtful, unheard>>

SendRemove(outcome) ==
    LET r == Head(call.todo) IN
    /\ Running({"remove"})
    /\ Counts(r.at, "delete", outcome)
    /\ Deletes(r.at, ToSet(r.keys), "delete", outcome)
    /\ Continues(outcome, ToSet(call.args))
    /\ UNCHANGED <<wrap, sharded, stack, clock, wanted, unheard>>

SendRemoveById(outcome) ==
    LET r == Head(call.todo) IN
    /\ Running({"remove_by_id"})
    /\ Deletes(r.at, ToSet(r.keys), "remove_by_id", outcome)
    /\ Continues(outcome, ToSet(call.args))
    /\ UNCHANGED <<wrap, sharded, count, stack, clock, wanted, unheard>>

SendRemoveAll(outcome) ==
    LET r == Head(call.todo) IN
    /\ Running({"remove_all"})
    /\ Counts(r.at, "delete", outcome)
    /\ Deletes(r.at, Keys, "delete", outcome)
    /\ Continues(outcome, Keys)
    /\ UNCHANGED <<wrap, sharded, stack, clock, wanted, unheard>>

\* What each session call looks at before it commits.
Due(op, s) == CASE op = "commit_if_dirty" -> count[s] # {}
                [] op = "commit_if_delete_dirty" -> "delete" \in count[s]
                [] OTHER -> TRUE

Committing == {"commit", "commit_if_dirty", "commit_if_delete_dirty"}

\* What index! has put into a batch is not certain when its commit went well.
SendCommit(outcome) ==
    LET r == Head(call.todo) IN
    /\ Running(Committing)
    /\ Due(r.op, r.at)
    /\ Commits(r.at, outcome)
    /\ Continues(outcome, IF call.op = "index!" /\ batching(stack) THEN {}
                          ELSE Affects(call.op, call.args))
    /\ UNCHANGED <<wrap, sharded, stack, clock, wanted>>

SkipCommit ==
    LET r == Head(call.todo) IN
    /\ Running(Committing)
    /\ ~Due(r.op, r.at)
    /\ Proceeds
    /\ UNCHANGED <<wrap, sharded, count, stack, solr, clock, wanted, doubtful, unheard>>

\* The block of a batch has returned: the batch is popped, then sent.
SendFlush(outcome) ==
    LET docs == current(stack)
        again == Retries(outcome.error, frame.tries)
    IN  /\ frame.open
        /\ call.op = "none"
        /\ frame.left = << >>
        /\ Adds(Shards[1], docs, outcome)
        /\ stack' = IF again THEN start_new(end_current(stack)) ELSE end_current(stack)
        /\ frame' = IF again THEN [frame EXCEPT !.left = frame.block, !.tries = 1]
                    ELSE NoFrame
        /\ doubtful' = IF outcome.error = "none" THEN doubtful \ {docs[i].id : i \in DOMAIN docs}
                       ELSE doubtful
        /\ last' = [last EXCEPT !.op = "batch", !.tries = frame.tries,
                       !.ended = IF outcome.error = "none" THEN "ok"
                                 ELSE IF Ignores(outcome.error) THEN "ignored" ELSE "raised"]
        /\ UNCHANGED <<wrap, sharded, count, call, clock, wanted, unheard, abandoned>>

Step ==
    \/ CallInBlock
    \/ BatchIndex
    \/ SkipCommit
    \/ \E o \in Possible :
         \/ SendIndex(o) \/ SendRemove(o) \/ SendRemoveById(o) \/ SendRemoveAll(o)
         \/ SendCommit(o) \/ SendFlush(o)

Next ==
    \/ Step
    \/ \E op \in Ops, list \in Lists \cup {<< >>} : Call(op, list)
    \/ \E block \in Blocks : CallBatch(block)
    \/ \E error \in Errors : BlockRaises(error)

Spec == Init /\ [][Next]_vars

\* The thread keeps running.
FairSpec == Spec /\ WF_vars(Step)
-----------------------------------------------------------------------------
(* Properties.                                                             *)

Between == call.op = "none" /\ ~frame.open

Dirty == \E n \in DOMAIN all_sessions : count[all_sessions[n]] # {}

TypeOK ==
    /\ wrap \in Wraps
    /\ sharded \in BOOLEAN
    /\ count \in [Sessions -> SUBSET {"add", "delete"}]
    /\ core \in [Sessions -> [Keys -> 0 .. clock]]
    /\ searcher \in [Sessions -> [Keys -> 0 .. clock]]
    /\ pending \in [Sessions -> SUBSET {"add", "delete", "remove_by_id"}]
    /\ call.tries \in 0 .. 1
    /\ frame.tries \in 0 .. 1
    /\ \A i \in DOMAIN call.todo : call.todo[i].at \in Sessions
    /\ doubtful \subseteq Keys
    /\ unheard \subseteq Sessions

\* A key whose last call ended well, at whatever try, is in the index of its
\* shard as that call wanted it, and in no other shard.
CallTookEffect ==
    Between =>
        \A k \in Keys \ doubtful : \A s \in Sessions :
            core[s][k] = IF s = Home(k) THEN wanted[k] ELSE 0

\* What a shard holds unpublished and its session has to know of.
Countable(s) == pending[s] \ {"remove_by_id"}

\* sunspot.rb, dirty?, over all shards and all tries: an addition, or a removal by
\* object or of everything, that some shard holds unpublished leaves the proxy
\* dirty, also when the call that made it failed between two shards.  A removal by
\* id does not (session.rb counts none), nor does what a refused commit left.
ProxyDirtySound ==
    (\E s \in Sessions \ unheard : Countable(s) # {}) => Dirty

\* A commit of all shards that ended well has published every shard, whatever was
\* counted; a conditional one that was not made again, every shard that was due.
CommitPublishes ==
    Between /\ last.ended = "ok" =>
        /\ last.op = "commit" => \A s \in Sessions : pending[s] = {}
        /\ last.op = "commit_if_dirty" /\ last.tries = 0 =>
             \A s \in Sessions \ last.blind : Countable(s) = {}
        /\ last.op = "commit_if_delete_dirty" /\ last.tries = 0 =>
             \A s \in Sessions \ last.blind : "delete" \notin pending[s]

\* session.rb, batch: the session holds the batch of the running block and one more
\* for every run of a block that an exception has left, also where the outer proxy
\* swallowed the exception or ran the block again; a flush that failed leaves none.
BatchesLeft == depth(stack) = abandoned + (IF frame.open THEN 1 ELSE 0)

\* Whatever fails, every call returns or raises: the thread is between two calls
\* again and again.
EveryCallReturns == []<>Between
=============================================================================
