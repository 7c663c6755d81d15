---------------------------- MODULE Collections ----------------------------
(***************************************************************************)
(* The time-based collections proxy (session_proxy/tbc_session_proxy.rb)   *)
(* with the admin session (admin/admin_session.rb) and its cache           *)
(* (admin/utils.rb): objects are routed to one collection per month, which *)
(* is created when the cached list of collections does not name it;        *)
(* searches go to the collections of the list that match a range of        *)
(* months.                                                                 *)
(*                                                                         *)
(* Every process has one cache, of the collections and of the live nodes,  *)
(* with one time for both.  Solr (external) keeps the collections.  Each   *)
(* action makes at most one request.  Which host is asked, and how often a *)
(* failing call is made again, is the subject of FaultPolicy: here a call  *)
(* that fails is made again or ends.                                       *)
(***************************************************************************)
EXTENDS Naturals, FiniteSets

CONSTANTS
    Procs,      \* Ruby processes
    Ids,        \* objects
    Groups,     \* the sets of objects that are passed to one call
    Months,     \* names the proxy makes of a year and a month
    Names,      \* names of collections: months, months with a postfix, Default
    Default,    \* base_name and "_default"
    Month,      \* the month of an object's time_routed_on
    Home,       \* collection_for: its month, perhaps with a postfix
    StartsWith, \* pairs of a name and a month that is a prefix of it
    Ops,        \* per process, the calls it makes
    ExpiresIn,  \* expires_in of the cache
    MaxTime,    \* bound: the clock
    MaxCalls,   \* bound: calls of each process
    MaxFaults   \* bound: failing requests

ASSUME BoundsAssumption ==
    /\ ExpiresIn \in Nat
    /\ MaxTime \in Nat
    /\ MaxCalls \in [Procs -> Nat]
    /\ MaxFaults \in Nat

ASSUME NamesAssumption ==
    /\ Groups \subseteq SUBSET Ids
    /\ Default \in Names \ Months
    /\ Month \in [Ids -> Months]
    /\ Home \in [Ids -> Names \ {Default}]
    /\ StartsWith \subseteq Names \X Months
    /\ \A m \in Months : <<Default, m>> \notin StartsWith
    /\ \A i \in Ids : <<Home[i], Month[i]>> \in StartsWith

VARIABLES
    now,      \* the clock
    exists,   \* the collections in Solr
    docs,     \* per collection, the objects in its index
    shown,    \* per collection, the objects searches see
    cache,    \* per process, see Empty
    call,     \* per process, its running call
    calls,    \* calls made, per process
    faults,   \* requests that failed
    mine,     \* history: per process, objects it has indexed and published
    blind     \* history: per process, collections that its calls went on with
              \* although its list does not name them: a CREATE or the LIST after
              \* it has failed, or they were deleted after they were looked up

solr == <<exists, docs, shown>>
bounds == <<calls, faults>>
vars == <<now, solr, cache, call, bounds, mine, blind>>

ByObject == {"index", "index!", "remove", "remove!"}
OverAll == {"commit", "commit_if_dirty", "remove_all"}

Administration == {"delete_collection", "live_nodes"}

ASSUME OpsAssumption ==
    \A p \in Procs : Ops[p] \subseteq
        ByObject \cup OverAll \cup Administration \cup {"remove_by_id", "search"}

\* @cached: the two keys, absent at first, and the time they share.
Empty == [listed |-> FALSE, list |-> {}, nodes |-> FALSE, time |-> 0]

(***************************************************************************)
(* A call: where it is (pc); its objects (ids), its months or its          *)
(* collection (range); the collections it still needs a session for        *)
(* (todo), the one it is about (name), those it has to make a request to   *)
(* (ready); the result of search_collections (picked) and of the search    *)
(* (found).  History: the objects the call has to reach (due).             *)
(***************************************************************************)
NoCall == [op |-> "none", pc |-> "idle", ids |-> {}, range |-> {}, todo |-> {}, name |-> Default,
           ready |-> {}, picked |-> {}, found |-> {}, due |-> {}]

Init ==
    /\ now = 0
    /\ exists = {Default}
    /\ docs = [c \in Names |-> {}]
    /\ shown = [c \in Names |-> {}]
    /\ cache = [p \in Procs |-> Empty]
    /\ call = [p \in Procs |-> NoCall]
    /\ calls = [p \in Procs |-> 0]
    /\ faults = 0
    /\ mine = [p \in Procs |-> {}]
    /\ blind = [p \in Procs |-> {}]

-----------------------------------------------------------------------------
(* The cache: with_cache.                                                  *)

Expired(p) == now - cache[p].time > ExpiresIn

\* Seeded fault: once listed, never asked for again.
ListStaleNever(p) == ~cache[p].listed

ListStale(p) == ~cache[p].listed \/ Expired(p)
NodesStale(p) == ~cache[p].nodes \/ Expired(p)

\* Seeded fault: the entry is stamped with the time it expires at.
StampedExpiry(p) ==
    /\ cache' = [cache EXCEPT ![p].listed = TRUE, ![p].list = exists,
                              ![p].time = now + ExpiresIn + 1]
    /\ blind' = [blind EXCEPT ![p] = (@ \cup call[p].ready) \ exists]

\* The answer to LIST; the time also covers the nodes, read or not.
ListRead(p) ==
    /\ cache' = [cache EXCEPT ![p].listed = TRUE, ![p].list = exists, ![p].time = now]
    /\ blind' = [blind EXCEPT ![p] = (@ \cup call[p].ready) \ exists]

\* The list as the process has it after it has asked for it.
Fresh(p, force) == IF force \/ ListStale(p) THEN exists ELSE cache[p].list

\* collections(force:), which makes a request only when it has to.
AsksList(p, force) ==
    IF force \/ ListStale(p) THEN ListRead(p) ELSE UNCHANGED <<cache, blind>>

-----------------------------------------------------------------------------
(* Calls.                                                                  *)

At(p, pc) == call[p].pc = pc

Becomes(p, state) == call' = [call EXCEPT ![p] = state]

\* Where a call begins, and begins again.
Started(c) ==
    [c EXCEPT !.pc = CASE c.op \in OverAll -> "list"
                       [] c.op = "delete_collection" -> "delete"
                       [] c.op = "live_nodes" -> "session"
                       [] OTHER -> "resolve",
              !.todo = IF c.op \in ByObject THEN {Home[i] : i \in c.ids}
                       ELSE IF c.op \in {"search", "remove_by_id"} THEN {Default} ELSE {},
              !.ready = {}, !.picked = {}]

InRange(i, range) == Month[i] \in range

Published(i) == i \in shown[Home[i]]

\* A search has to find what its own process has published, and everything
\* that is published when the list has expired; commit and remove_all reach
\* every document.
Due(p, op, ids, range) ==
    CASE op \in ByObject -> ids
      [] op = "search" ->
             {i \in Ids : /\ InRange(i, range)
                          /\ Published(i) /\ i \in docs[Home[i]]
                          /\ Expired(p) \/ (i \in mine[p] /\ Home[i] \notin blind[p])}
      [] op \in OverAll -> {i \in Ids : i \in docs[Home[i]]}
      [] OTHER -> {}

Begin(p, op, ids, range) ==
    /\ At(p, "idle")
    /\ calls[p] < MaxCalls[p]
    /\ op \in Ops[p]
    /\ (op \in ByObject \cup {"remove_by_id"}) = (ids # {})
    /\ CASE op = "search" -> range \subseteq Months /\ range # {}
         [] op \in {"remove_by_id", "delete_collection"} ->
             range \subseteq Names /\ Cardinality(range) = 1
         [] OTHER -> range = {}
    /\ calls' = [calls EXCEPT ![p] = @ + 1]
    /\ Becomes(p, Started([NoCall EXCEPT !.op = op, !.ids = ids, !.range = range,
                                         !.due = Due(p, op, ids, range)]))
    /\ UNCHANGED <<now, solr, cache, faults, mine, blind>>

Ended(p) ==
    /\ Becomes(p, NoCall)
    /\ mine' = IF call[p].op = "index!" THEN [mine EXCEPT ![p] = @ \cup call[p].due] ELSE mine

\* A request fails: the handler, if there is one, makes the call again, or the
\* caller sees the error.
Raises(p) ==
    \/ Becomes(p, NoCall)
    \/ call[p].op \notin Administration /\ Becomes(p, Started(call[p]))

Fault == faults < MaxFaults /\ faults' = faults + 1

RequestFails(p) ==
    /\ call[p].pc \in {"list", "send", "commit", "execute", "delete"}
       \/ (call[p].pc \in {"resolve", "select"} /\ ListStale(p))
       \/ (At(p, "session") /\ NodesStale(p))
       \/ At(p, "refresh")
    /\ Fault
    /\ Raises(p)
    /\ UNCHANGED <<now, solr, cache, calls, mine, blind>>

-----------------------------------------------------------------------------
(* Sessions for collections.                                               *)

\* The state of a call that has its session for c.name, or all of them.
Has(c) ==
    LET left == c.todo \ {c.name}
        ready == CASE c.op \in ByObject -> c.ready \cup {c.name}
                   [] c.op = "remove_by_id" -> c.range
                   [] OTHER -> c.ready
    IN  [c EXCEPT !.todo = left, !.ready = ready, !.name = Default,
                  !.pc = IF left # {} THEN "resolve"
                         ELSE IF c.op = "search" THEN "select"
                         ELSE IF ready = {} THEN "over" ELSE "send"]

\* gen_session takes a host from the live nodes: a request only when they are
\* not cached, or have expired while the list was not just read.
Continued(p, c, read) ==
    IF cache[p].nodes /\ (read \/ ~Expired(p)) THEN Has(c) ELSE [c EXCEPT !.pc = "session"]

\* The list is asked for the name: a missing collection is created.
Resolve(p, c) ==
    LET named == [call[p] EXCEPT !.name = c] IN
    /\ At(p, "resolve")
    /\ c \in call[p].todo
    /\ AsksList(p, FALSE)
    /\ Becomes(p, IF c \in Fresh(p, FALSE) THEN Continued(p, named, ListStale(p))
                  ELSE [named EXCEPT !.pc = "create"])
    /\ UNCHANGED <<now, solr, bounds, mine>>

\* create_collection: an error of Solr, as when somebody else has created the
\* collection, is rescued without refreshing the list.
Create(p) ==
    /\ At(p, "create")
    /\ exists' = exists \cup {call[p].name}
    /\ \/ /\ call[p].name \notin exists
          /\ Becomes(p, [call[p] EXCEPT !.pc = "refresh"])
          /\ UNCHANGED <<faults, blind>>
       \/ /\ IF call[p].name \in exists THEN UNCHANGED faults ELSE Fault
          /\ Becomes(p, Continued(p, call[p], FALSE))
          /\ blind' = [blind EXCEPT ![p] = @ \cup {call[p].name}]
    /\ UNCHANGED <<now, docs, shown, cache, calls, mine>>

\* Solr refuses to create the collection.
CreateFails(p) ==
    /\ At(p, "create")
    /\ Fault
    /\ \/ /\ Becomes(p, Continued(p, call[p], FALSE))
          /\ blind' = [blind EXCEPT ![p] = @ \cup {call[p].name}]
       \/ Raises(p) /\ UNCHANGED blind
    /\ UNCHANGED <<now, solr, cache, calls, mine>>

AfterRefresh(p, read) ==
    IF call[p].op = "delete_collection" THEN [call[p] EXCEPT !.pc = "over"]
    ELSE Continued(p, call[p], read)

\* collections(force: true) of create_collection and delete_collection.
Refresh(p) ==
    /\ At(p, "refresh")
    /\ ListRead(p)
    /\ Becomes(p, AfterRefresh(p, TRUE))
    /\ UNCHANGED <<now, solr, bounds, mine>>

\* Its errors are rescued like those of the request before.
RefreshIgnored(p) ==
    /\ At(p, "refresh")
    /\ Fault
    /\ Becomes(p, AfterRefresh(p, FALSE))
    /\ blind' = [blind EXCEPT ![p] = @ \cup {call[p].name}]
    /\ UNCHANGED <<now, solr, cache, calls, mine>>

\* live_nodes, for gen_session or by itself.  For the collections of all_sessions
\* one step takes the hosts of all.
Session(p) ==
    /\ At(p, "session")
    /\ cache' = IF NodesStale(p)
                THEN [cache EXCEPT ![p].nodes = TRUE, ![p].time = now] ELSE cache
    /\ Becomes(p, IF call[p].op = "live_nodes" THEN [call[p] EXCEPT !.pc = "over"]
                  ELSE Has(call[p]))
    /\ UNCHANGED <<now, solr, bounds, mine, blind>>

\* Seeded fault: the cached list will do.
ListedUnforced(p) ==
    /\ At(p, "list")
    /\ AsksList(p, FALSE)
    /\ Becomes(p, Continued(p, [call[p] EXCEPT !.ready = Fresh(p, FALSE)], FALSE))
    /\ UNCHANGED <<now, solr, bounds, mine>>

\* all_sessions
ListAll(p) ==
    /\ At(p, "list")
    /\ AsksList(p, TRUE)
    /\ Becomes(p, Continued(p, [call[p] EXCEPT !.ready = Fresh(p, TRUE)], TRUE))
    /\ UNCHANGED <<now, solr, bounds, mine>>

-----------------------------------------------------------------------------
(* Requests to collections.                                                *)

\* The objects a call sends to collection c.
Group(p, c) ==
    CASE call[p].op = "remove_all" -> Ids
      [] call[p].op = "remove_by_id" -> call[p].ids
      [] OTHER -> {i \in call[p].ids : Home[i] = c}

Adds(op) == op \in {"index", "index!"}
Removes(op) == op \in {"remove", "remove!", "remove_by_id", "remove_all"}

\* History: an object somebody removes is nobody's concern any more, one that
\* somebody adds need not be gone.
Disturbed(op, ids) ==
    [q \in Procs |->
        IF \/ Removes(op) /\ call[q].op # "remove_all"
           \/ Adds(op) /\ call[q].op = "remove_all"
        THEN [call[q] EXCEPT !.due = @ \ ids] ELSE call[q]]

\* The request for c was the last, or there are others to make.
Without(c, state) ==
    [state EXCEPT !.ready = @ \ {c}, !.name = Default,
                  !.pc = IF state.ready \subseteq {c} THEN "over" ELSE "send"]

\* index! and remove! commit the collection next, others go on.
Sent(p, c, state) ==
    [state EXCEPT ![p] = IF call[p].op \in {"index!", "remove!"}
                         THEN [@ EXCEPT !.pc = "commit", !.name = c]
                         ELSE Without(c, @)]

Update(p, c) ==
    LET op == call[p].op
        ids == Group(p, c)
    IN  /\ At(p, "send")
        /\ Adds(op) \/ Removes(op)
        /\ c \in call[p].ready \cap exists
        /\ docs' = [docs EXCEPT ![c] = IF Adds(op) THEN @ \cup ids ELSE @ \ ids]
        /\ call' = Sent(p, c, Disturbed(op, ids \cap {i \in Ids : Home[i] = c}))
        /\ mine' = IF Removes(op) THEN [q \in Procs |-> mine[q] \ ids] ELSE mine
        /\ UNCHANGED <<now, exists, shown, cache, bounds, blind>>

\* The commit of index! and remove!, by the session that sent the update.
CommitUpdate(p) ==
    LET c == call[p].name IN
    /\ At(p, "commit")
    /\ c \in exists
    /\ shown' = [shown EXCEPT ![c] = docs[c]]
    /\ Becomes(p, Without(c, call[p]))
    /\ UNCHANGED <<now, exists, docs, cache, bounds, mine, blind>>

CommitCollection(p, c) ==
    /\ At(p, "send")
    /\ call[p].op = "commit"
    /\ c \in call[p].ready \cap exists
    /\ shown' = [shown EXCEPT ![c] = docs[c]]
    /\ Becomes(p, Without(c, call[p]))
    /\ UNCHANGED <<now, exists, docs, cache, bounds, mine, blind>>

\* commit_if_dirty of a session that all_sessions has just made: it has
\* counted nothing, and commits nothing.
SkipCommit(p, c) ==
    /\ At(p, "send")
    /\ call[p].op = "commit_if_dirty"
    /\ c \in call[p].ready
    /\ Becomes(p, Without(c, call[p]))
    /\ UNCHANGED <<now, solr, cache, bounds, mine, blind>>

\* The collection is gone: Solr answers 404, and with_exception_handling, which
\* retries any error of RSolr, makes the call again before it raises.
NotFound(p) ==
    /\ \/ At(p, "send") /\ call[p].op # "commit_if_dirty" /\ call[p].ready \ exists # {}
       \/ At(p, "commit") /\ call[p].name \notin exists
       \/ At(p, "execute") /\ call[p].picked \ exists # {}
    /\ Raises(p)
    /\ UNCHANGED <<now, solr, cache, bounds, mine, blind>>

-----------------------------------------------------------------------------
(* Search.                                                                 *)

\* filter_with_solr: the collections whose names start with a month.
Matching(list, range) == {c \in list : \E m \in range : <<c, m>> \in StartsWith}

\* search_collections: the names that match, as far as the list has them still.
\* Its reads of the cache, and new_search's second call, are one step: that the
\* list expires between two of them is left out.  When nothing matches the
\* default collection is asked.
Select(p) ==
    LET picked == Matching(Fresh(p, FALSE), call[p].range) IN
    /\ At(p, "select")
    /\ AsksList(p, FALSE)
    /\ Becomes(p, [call[p] EXCEPT
           !.picked = IF picked = {} THEN {Default} ELSE picked, !.pc = "execute"])
    /\ UNCHANGED <<now, solr, bounds, mine>>

Execute(p) ==
    /\ At(p, "execute")
    /\ call[p].picked \subseteq exists
    /\ Becomes(p, [call[p] EXCEPT
           !.found = UNION {shown[c] : c \in call[p].picked}, !.pc = "over", !.picked = {}])
    /\ UNCHANGED <<now, solr, cache, bounds, mine, blind>>

-----------------------------------------------------------------------------
(* Administration, and the clock.                                          *)

\* delete_collection of admin/admin_session.rb.
DeleteCollection(p) ==
    LET c == CHOOSE name \in call[p].range : TRUE
        held == {i \in Ids : Home[i] = c}
    IN  /\ At(p, "delete")
        /\ c \in exists
        /\ exists' = exists \ {c}
        /\ docs' = [docs EXCEPT ![c] = {}]
        /\ shown' = [shown EXCEPT ![c] = {}]
        /\ mine' = [q \in Procs |-> mine[q] \ held]
        /\ call' = [q \in Procs |->
               IF q = p THEN [call[q] EXCEPT !.pc = "refresh", !.name = c]
               ELSE [call[q] EXCEPT !.due = @ \ held]]
        /\ UNCHANGED <<now, cache, bounds, blind>>

\* There is no such collection: the error is rescued, the list stays.
DeleteNothing(p) ==
    /\ At(p, "delete")
    /\ call[p].range \cap exists = {}
    /\ Becomes(p, [call[p] EXCEPT !.pc = "over"])
    /\ UNCHANGED <<now, solr, cache, bounds, mine, blind>>

End(p) ==
    /\ At(p, "over")
    /\ Ended(p)
    /\ UNCHANGED <<now, solr, cache, bounds, blind>>

Tick ==
    /\ now < MaxTime
    /\ now' = now + 1
    /\ UNCHANGED <<solr, cache, call, bounds, mine, blind>>

Proceed(p) ==
    \/ RequestFails(p)
    \/ \E c \in Names : Resolve(p, c) \/ Update(p, c) \/ CommitCollection(p, c) \/ SkipCommit(p, c)
    \/ Create(p) \/ CreateFails(p)
    \/ Refresh(p) \/ RefreshIgnored(p)
    \/ Session(p) \/ ListAll(p)
    \/ CommitUpdate(p) \/ NotFound(p)
    \/ Select(p) \/ Execute(p)
    \/ DeleteCollection(p) \/ DeleteNothing(p)
    \/ End(p)

Next ==
    \/ Tick
    \/ \E p \in Procs :
         \/ Proceed(p)
         \/ \E op \in Ops[p], ids \in Groups \cup {{}}, range \in SUBSET (Names \cup Months) : Begin(p, op, ids, range)

Spec == Init /\ [][Next]_vars
-----------------------------------------------------------------------------
(* Properties.                                                             *)

TypeOK ==
    /\ now \in 0 .. MaxTime
    /\ exists \subseteq Names
    /\ docs \in [Names -> SUBSET Ids]
    /\ shown \in [Names -> SUBSET Ids]
    /\ cache \in [Procs -> [listed : BOOLEAN, list : SUBSET Names, nodes : BOOLEAN,
                            time : 0 .. MaxTime]]
    /\ \A p \in Procs :
         /\ call[p].ready \cup call[p].picked \cup call[p].todo \subseteq Names
         /\ call[p].found \subseteq Ids
         /\ call[p].pc \in {"send", "commit"} /\ call[p].op \in ByObject =>
              call[p].ready \subseteq {Home[i] : i \in call[p].ids}

\* tbc_session_proxy.rb, search: a search finds what its own process has
\* published in the range since, and everything published when the cached list
\* had expired as it began, whatever other processes create and delete
\* meanwhile; a collection its calls went on with unlisted is exempt.
SearchFinds ==
    \A p \in Procs : call[p].op = "search" /\ At(p, "over") => call[p].due \subseteq call[p].found

\* tbc_session_proxy.rb, commit: it publishes what was in any collection when
\* it began, whichever process has created the collection.
CommitReachesAll ==
    \A p \in Procs : call[p].op = "commit" /\ At(p, "over") =>
        \A i \in call[p].due : Published(i)

\* tbc_session_proxy.rb, remove_all: nothing is left of what was in any
\* collection when it began.
RemoveAllReachesAll ==
    \A p \in Procs : call[p].op = "remove_all" /\ At(p, "over") =>
        \A i \in call[p].due : i \notin docs[Home[i]]

\* tbc_session_proxy.rb, commit_if_dirty: "Only dirty sessions will be
\* committed."
CommitIfDirtyReachesAll ==
    \A p \in Procs : call[p].op = "commit_if_dirty" /\ At(p, "over") =>
        \A i \in call[p].due : Published(i)
=============================================================================
