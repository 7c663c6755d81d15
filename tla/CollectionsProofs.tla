------------------------- MODULE CollectionsProofs -------------------------
(***************************************************************************)
(* Proofs about the time-based collections, for any number of processes,   *)
(* objects, collections and failing requests: commit and remove_all reach  *)
(* the documents of every collection (ReachInv), all states are well       *)
(* formed (TypeInv), and searches find what they have to (FindInv).        *)
(***************************************************************************)
EXTENDS Collections, TLAPS

\* A call's record has these fields and no other.
Record(c) == DOMAIN c = {"op", "pc", "ids", "range", "todo", "name", "ready", "picked",
                         "found", "due"}

\* A call over all collections needs no session for a collection of its own
\* before it has the list.
OverAllMoves(c) == c.todo = {} /\ c.pc \in {"list", "session", "send", "over"}

\* The request for the object's collection has still to come.
Coming(c, i) == Home[i] \in c.ready /\ c.pc # "over"

\* What a commit has to publish is in its collection, and is published unless
\* the request for the collection is still to come.
CommitReaches(c) ==
    /\ \A i \in c.due : i \in docs[Home[i]]
    /\ c.pc # "list" => \A i \in c.due : Published(i) \/ Coming(c, i)

RemoveReaches(c) ==
    c.pc # "list" => \A i \in c.due : i \notin docs[Home[i]] \/ Coming(c, i)

Reaches(c) ==
    /\ Record(c)
    /\ c.op \in OverAll => OverAllMoves(c) /\ c.due \subseteq Ids
    /\ c.op = "commit" => CommitReaches(c)
    /\ c.op = "remove_all" => RemoveReaches(c)

\* Only collections that exist hold documents.
DocumentsHaveHomes == \A c \in Names : docs[c] # {} => c \in exists

ReachInv ==
    /\ DOMAIN docs = Names
    /\ DOMAIN shown = Names
    /\ DocumentsHaveHomes
    /\ call = [p \in Procs |-> call[p]]
    /\ \A p \in Procs : Reaches(call[p])

-----------------------------------------------------------------------------
(* Steps that change the record of one call.                               *)

LEMMA HomesAreNames ==
    ASSUME NEW i \in Ids
    PROVE  Home[i] \in Names
  BY NamesAssumption

\* Calls on single objects, searches and administration have nothing to prove.
LEMMA OthersReach ==
    ASSUME NEW c, Record(c), c.op \notin OverAll
    PROVE  Reaches(c)
  BY DEF Reaches, OverAll

LEMMA NoCallReaches == Reaches(NoCall)
<1>1. Record(NoCall) /\ NoCall.op \notin OverAll
  BY DEF Record, NoCall, OverAll
<1>. QED BY <1>1, OthersReach

\* A call that is made again starts with the list.
LEMMA StartedReaches ==
    ASSUME NEW c, Reaches(c)
    PROVE  Reaches(Started(c))
<1>1. /\ Record(Started(c)) /\ Started(c).op = c.op /\ Started(c).due = c.due
      /\ c.op \in OverAll => Started(c).pc = "list" /\ Started(c).todo = {}
  BY DEF Started, Reaches, Record, OverAll, ByObject
<1>2. CASE c.op \in OverAll
  BY <1>1, <1>2 DEF Reaches, OverAllMoves, CommitReaches, RemoveReaches
<1>3. CASE c.op \notin OverAll
  BY <1>1, <1>3, OthersReach
<1>. QED BY <1>2, <1>3

\* A call that has its sessions sends to the collections it listed, if any.
LEMMA HasReaches ==
    ASSUME NEW d, Reaches(d), d.op \in OverAll, d.pc = "session",
           NEW c, Record(c), c.op = d.op, c.todo = d.todo, c.ready = d.ready, c.due = d.due
    PROVE  Reaches(Has(c))
<1> DEFINE q == Has(c)
<1>1. c.todo = {}
  BY DEF Reaches, OverAllMoves
<1>2. /\ Record(q) /\ q.op = c.op /\ q.due = c.due /\ q.todo = {} /\ q.ready = c.ready
      /\ q.pc = IF c.ready = {} THEN "over" ELSE "send"
  BY <1>1 DEF Has, Record, OverAll, ByObject
<1> HIDE DEF q
<1>3. \A i : Coming(d, i) => Coming(q, i)
  BY <1>2 DEF Coming
<1>4. q.op \in OverAll => OverAllMoves(q) /\ q.due \subseteq Ids
  BY <1>2 DEF Reaches, OverAllMoves
<1>5. c.op = "commit" => CommitReaches(q)
  BY <1>2, <1>3 DEF Reaches, CommitReaches
<1>6. c.op = "remove_all" => RemoveReaches(q)
  BY <1>2, <1>3 DEF Reaches, RemoveReaches
<1>7. Reaches(q)
  BY <1>2, <1>4, <1>5, <1>6 DEF Reaches
<1>. QED BY <1>7 DEF q

\* A process whose record alone has changed keeps the invariant.
LEMMA OneCallMoves ==
    ASSUME ReachInv, NEW p \in Procs, NEW q, Reaches(q),
           call' = [call EXCEPT ![p] = q], exists \subseteq exists', UNCHANGED <<docs, shown>>
    PROVE  ReachInv'
<1>1. ASSUME NEW r \in Procs
      PROVE  Reaches(call[r])'
  <2>1. Reaches(call'[r])
    BY <1>1 DEF ReachInv
  <2>. QED BY <2>1 DEF Reaches, CommitReaches, RemoveReaches, Published, Record, Coming, OverAllMoves
<1>2. call' = [r \in Procs |-> call'[r]]
  BY DEF ReachInv
<1>. QED BY <1>1, <1>2 DEF ReachInv, DocumentsHaveHomes

LEMMA ContinuedRecord ==
    ASSUME NEW c, Record(c)
    PROVE  /\ Record(Has(c)) /\ Has(c).op = c.op
           /\ Record([c EXCEPT !.pc = "session"]) /\ [c EXCEPT !.pc = "session"].op = c.op
  BY DEF Has, Record

\* Calls over all collections do not resolve names, search or administer.
LEMMA OtherPlaces ==
    ASSUME NEW c, Reaches(c), c.pc \notin {"list", "session", "send", "over"}
    PROVE  Record(c) /\ c.op \notin OverAll
  BY DEF Reaches, OverAllMoves

\* The commit of one collection, or the last request to it, leaves the others.
LEMMA WithoutRecord ==
    ASSUME NEW c, NEW state, Record(state)
    PROVE  LET q == Without(c, state) IN
           /\ Record(q) /\ q.op = state.op /\ q.due = state.due /\ q.todo = state.todo
           /\ q.pc \in {"send", "over"}
           /\ \A i : Coming(state, i) /\ Home[i] # c => Coming(q, i)
<1> DEFINE q == Without(c, state)
<1>1. /\ Record(q) /\ q.op = state.op /\ q.due = state.due /\ q.todo = state.todo
      /\ q.ready = state.ready \ {c}
      /\ q.pc = IF state.ready \subseteq {c} THEN "over" ELSE "send"
  BY DEF Without, Record
<1> HIDE DEF q
<1>2. \A i : Coming(state, i) /\ Home[i] # c => Coming(q, i)
  BY <1>1 DEF Coming
<1>3. q.pc \in {"send", "over"}
  BY <1>1
<1>. QED BY <1>1, <1>2, <1>3 DEF q

LEMMA BeginKeeps ==
    ASSUME ReachInv, NEW p \in Procs, NEW op, NEW ids, NEW range, Begin(p, op, ids, range)
    PROVE  ReachInv'
<1> DEFINE c == [NoCall EXCEPT !.op = op, !.ids = ids, !.range = range,
                               !.due = Due(p, op, ids, range)]
           q == Started(c)
<1>1. call' = [call EXCEPT ![p] = q] /\ UNCHANGED <<exists, docs, shown>>
  BY DEF Begin, Becomes, solr
<1>2. /\ Record(q) /\ q.op = op /\ q.due = Due(p, op, ids, range)
      /\ op \in OverAll => q.pc = "list" /\ q.todo = {}
  <2>1. Record(c) /\ c.op = op /\ c.due = Due(p, op, ids, range)
    BY DEF Record, NoCall
  <2> HIDE DEF c
  <2>. QED BY <2>1 DEF Record, Started, OverAll, ByObject
<1>3. op \in OverAll => Due(p, op, ids, range) = {i \in Ids : i \in docs[Home[i]]}
  BY DEF Due, OverAll, ByObject
<1> HIDE DEF q
<1>4. Reaches(q)
  <2>1. CASE op \in OverAll
    BY <1>2, <1>3, <2>1 DEF Reaches, OverAllMoves, CommitReaches, RemoveReaches
  <2>2. CASE op \notin OverAll
    BY <1>2, <2>2, OthersReach
  <2>. QED BY <2>1, <2>2
<1>. QED BY <1>1, <1>4, OneCallMoves

\* A call that fails, is made again, or ends.
LEMMA EndsKeep ==
    ASSUME ReachInv, NEW p \in Procs, RequestFails(p) \/ NotFound(p) \/ End(p)
    PROVE  ReachInv'
<1>1. UNCHANGED <<exists, docs, shown>>
  BY DEF RequestFails, NotFound, End, solr
<1>2. \/ call' = [call EXCEPT ![p] = NoCall]
      \/ call' = [call EXCEPT ![p] = Started(call[p])]
  BY DEF RequestFails, Raises, NotFound, End, Ended, Becomes
<1>3. Reaches(call[p])
  BY DEF ReachInv
<1>. QED BY <1>1, <1>2, <1>3, OneCallMoves, NoCallReaches, StartedReaches

\* Steps of calls that are not over all collections.
LEMMA OtherCallsKeep ==
    ASSUME ReachInv, NEW p \in Procs,
           \/ \E c \in Names : Resolve(p, c)
           \/ Create(p) \/ CreateFails(p) \/ Refresh(p) \/ RefreshIgnored(p)
           \/ Select(p) \/ Execute(p) \/ DeleteNothing(p)
    PROVE  ReachInv'
<1> DEFINE r == call[p]
<1>1. Record(r) /\ r.op \notin OverAll
  <2>1. r.pc \in {"resolve", "create", "refresh", "select", "execute", "delete"}
    BY DEF Resolve, Create, CreateFails, Refresh, RefreshIgnored, Select, Execute, DeleteNothing, At
  <2>. QED BY <2>1, OtherPlaces DEF ReachInv
<1>2. exists \subseteq exists' /\ UNCHANGED <<docs, shown>>
  BY DEF Resolve, Create, CreateFails, Refresh, RefreshIgnored, Select, Execute, DeleteNothing, solr
<1>3. ASSUME NEW c, Resolve(p, c)
      PROVE  \E q : Record(q) /\ q.op = r.op /\ call' = [call EXCEPT ![p] = q]
  <2> DEFINE named == [r EXCEPT !.name = c]
  <2>1. Record(named) /\ named.op = r.op /\ Record([named EXCEPT !.pc = "create"])
        /\ [named EXCEPT !.pc = "create"].op = r.op
    BY <1>1 DEF Record
  <2>2. \/ call' = [call EXCEPT ![p] = Has(named)]
        \/ call' = [call EXCEPT ![p] = [named EXCEPT !.pc = "session"]]
        \/ call' = [call EXCEPT ![p] = [named EXCEPT !.pc = "create"]]
    BY <1>3 DEF Resolve, Becomes, Continued
  <2> HIDE DEF named, r
  <2>. QED BY <2>1, <2>2, ContinuedRecord
<1>4. ASSUME Create(p) \/ CreateFails(p) \/ Refresh(p) \/ RefreshIgnored(p)
      PROVE  \/ call' = [call EXCEPT ![p] = NoCall]
             \/ \E q : Record(q) /\ q.op = r.op /\ call' = [call EXCEPT ![p] = q]
  <2>1. \/ call' = [call EXCEPT ![p] = [r EXCEPT !.pc = "refresh"]]
        \/ call' = [call EXCEPT ![p] = [r EXCEPT !.pc = "over"]]
        \/ call' = [call EXCEPT ![p] = Has(r)]
        \/ call' = [call EXCEPT ![p] = [r EXCEPT !.pc = "session"]]
        \/ call' = [call EXCEPT ![p] = Started(r)]
        \/ call' = [call EXCEPT ![p] = NoCall]
    BY <1>4 DEF Create, CreateFails, Raises, Refresh, RefreshIgnored, AfterRefresh, Becomes,
                Continued
  <2>2. /\ Record([r EXCEPT !.pc = "refresh"]) /\ [r EXCEPT !.pc = "refresh"].op = r.op
        /\ Record([r EXCEPT !.pc = "over"]) /\ [r EXCEPT !.pc = "over"].op = r.op
        /\ Record(Started(r)) /\ Started(r).op = r.op
    BY <1>1 DEF Record, Started
  <2> HIDE DEF r
  <2>. QED BY <1>1, <2>1, <2>2, ContinuedRecord
<1>5. ASSUME Select(p) \/ Execute(p) \/ DeleteNothing(p)
      PROVE  \E q : Record(q) /\ q.op = r.op /\ call' = [call EXCEPT ![p] = q]
  <2>1. CASE Select(p)
    <3> DEFINE picked == Matching(Fresh(p, FALSE), call[p].range)
               q == [r EXCEPT !.picked = IF picked = {} THEN {Default} ELSE picked, !.pc = "execute"]
    <3>1. call' = [call EXCEPT ![p] = q]
      BY <2>1 DEF Select, Becomes
    <3>2. Record(q) /\ q.op = r.op
      <4> HIDE DEF r, picked
      <4>. QED BY <1>1 DEF Record
    <3>. QED BY <3>1, <3>2
  <2>2. CASE Execute(p)
    <3> DEFINE q == [r EXCEPT !.found = UNION {shown[c] : c \in call[p].picked},
                              !.pc = "over", !.picked = {}]
    <3>1. call' = [call EXCEPT ![p] = q]
      BY <2>2 DEF Execute, Becomes
    <3>2. Record(q) /\ q.op = r.op
      BY <1>1 DEF Record
    <3>. QED BY <3>1, <3>2
  <2>3. CASE DeleteNothing(p)
    <3>1. call' = [call EXCEPT ![p] = [r EXCEPT !.pc = "over"]]
      BY <2>3 DEF DeleteNothing, Becomes
    <3>2. Record([r EXCEPT !.pc = "over"]) /\ [r EXCEPT !.pc = "over"].op = r.op
      BY <1>1 DEF Record
    <3>. QED BY <3>1, <3>2
  <2>. QED BY <1>5, <2>1, <2>2, <2>3
<1>6. \/ call' = [call EXCEPT ![p] = NoCall]
      \/ \E q : Record(q) /\ q.op = r.op /\ call' = [call EXCEPT ![p] = q]
  BY <1>3, <1>4, <1>5
<1>. QED BY <1>1, <1>2, <1>6, NoCallReaches, OthersReach, OneCallMoves

LEMMA SessionKeeps ==
    ASSUME ReachInv, NEW p \in Procs, Session(p)
    PROVE  ReachInv'
<1> DEFINE r == call[p]
<1>1. Reaches(r) /\ Record(r) /\ r.pc = "session" /\ UNCHANGED <<exists, docs, shown>>
  BY DEF ReachInv, Reaches, Session, At, solr
<1>2. CASE r.op = "live_nodes"
  <2> DEFINE q == [r EXCEPT !.pc = "over"]
  <2>1. call' = [call EXCEPT ![p] = q]
    BY <1>2 DEF Session, Becomes
  <2>2. Record(q) /\ q.op \notin OverAll
    BY <1>1, <1>2 DEF Record, OverAll
  <2> HIDE DEF q
  <2>. QED BY <1>1, <2>1, <2>2, OthersReach, OneCallMoves
<1>3. CASE r.op # "live_nodes"
  <2>1. call' = [call EXCEPT ![p] = Has(r)]
    BY <1>3 DEF Session, Becomes
  <2>2. Reaches(Has(r))
    <3> HIDE DEF r
    <3>. QED BY <1>1, HasReaches, ContinuedRecord, OthersReach
  <2>. QED BY <1>1, <2>1, <2>2, OneCallMoves
<1>. QED BY <1>2, <1>3

\* The list is as fresh as it can be: it has every collection with a document.
LEMMA ListAllKeeps ==
    ASSUME ReachInv, NEW p \in Procs, ListAll(p)
    PROVE  ReachInv'
<1> DEFINE r == call[p]
           c == [r EXCEPT !.ready = exists]
           d == [c EXCEPT !.pc = "session"]
<1>1. Reaches(r) /\ Record(r) /\ r.pc = "list" /\ UNCHANGED <<exists, docs, shown>>
  BY DEF ReachInv, Reaches, ListAll, At, solr
<1>2. call' = [call EXCEPT ![p] = Has(c)] \/ call' = [call EXCEPT ![p] = d]
  BY DEF ListAll, Fresh, Continued, Becomes
<1>3. /\ Record(c) /\ c.op = r.op /\ c.todo = r.todo /\ c.ready = exists /\ c.due = r.due
      /\ Record(d) /\ d.op = r.op /\ d.todo = r.todo /\ d.ready = exists /\ d.due = r.due
      /\ d.pc = "session"
  <2> HIDE DEF r
  <2>. QED BY <1>1 DEF Record
<1> HIDE DEF c, d
<1>4. Reaches(d)
  <2>1. CASE r.op \in OverAll
    <3>1. r.due \subseteq Ids /\ OverAllMoves(r)
      BY <1>1, <2>1 DEF Reaches
    <3>2. \A i \in r.due : i \in docs[Home[i]] => Coming(d, i)
      <4> SUFFICES ASSUME NEW i \in r.due, i \in docs[Home[i]] PROVE Home[i] \in exists
        BY <1>3 DEF Coming
      <4>1. Home[i] \in Names
        BY <3>1, HomesAreNames
      <4>. QED BY <4>1 DEF ReachInv, DocumentsHaveHomes
    <3>3. OverAllMoves(d)
      BY <1>3, <3>1 DEF OverAllMoves
    <3>4. r.op = "commit" => \A i \in r.due : i \in docs[Home[i]]
      BY <1>1 DEF Reaches, CommitReaches
    <3>. QED BY <1>3, <3>1, <3>2, <3>3, <3>4 DEF Reaches, CommitReaches, RemoveReaches
  <2>2. CASE r.op \notin OverAll
    BY <1>3, <2>2, OthersReach
  <2>. QED BY <2>1, <2>2
<1>5. Reaches(Has(c))
  <2>1. CASE r.op \in OverAll
    BY <1>3, <1>4, <2>1, HasReaches
  <2>2. CASE r.op \notin OverAll
    BY <1>3, <2>2, ContinuedRecord, OthersReach
  <2>. QED BY <2>1, <2>2
<1>. QED BY <1>1, <1>2, <1>4, <1>5, OneCallMoves

LEMMA SkipCommitKeeps ==
    ASSUME ReachInv, NEW p \in Procs, NEW c, SkipCommit(p, c)
    PROVE  ReachInv'
<1> DEFINE r == call[p]
           q == Without(c, r)
<1>1. /\ Reaches(r) /\ Record(r) /\ r.op = "commit_if_dirty"
      /\ UNCHANGED <<exists, docs, shown>>
  BY DEF ReachInv, Reaches, SkipCommit, At, solr
<1>2. call' = [call EXCEPT ![p] = q]
  BY DEF SkipCommit, Becomes
<1> HIDE DEF r
<1>3. /\ Record(q) /\ q.op = r.op /\ q.due = r.due /\ q.todo = r.todo
      /\ q.pc \in {"send", "over"}
  BY <1>1, WithoutRecord
<1> HIDE DEF q
<1>4. Reaches(q)
  BY <1>1, <1>3 DEF Reaches, OverAll, OverAllMoves
<1>. QED BY <1>1, <1>2, <1>4, OneCallMoves

\* A commit of one collection publishes what the commits in progress are due
\* there, and nothing that is due is hidden again.
LEMMA CommitsKeep ==
    ASSUME ReachInv, NEW p \in Procs, NEW c,
           CommitCollection(p, c) \/ (CommitUpdate(p) /\ c = call[p].name)
    PROVE  ReachInv'
<1> DEFINE q == Without(c, call[p])
<1>1. /\ Reaches(call[p]) /\ Record(call[p]) /\ UNCHANGED <<exists, docs>>
      /\ shown' = [shown EXCEPT ![c] = docs[c]]
      /\ call' = [call EXCEPT ![p] = q]
  BY DEF ReachInv, Reaches, CommitCollection, CommitUpdate, Becomes
<1>2. call[p].op = "commit" \/ call[p].op \notin OverAll
  BY <1>1, OtherPlaces DEF CommitCollection, CommitUpdate, At
<1>3. DOMAIN shown' = Names
  BY <1>1 DEF ReachInv
<1>4. ASSUME NEW i \in Ids, i \in docs[Home[i]]
      PROVE  (Published(i) \/ Home[i] = c) => Published(i)'
  BY <1>1, <1>4, HomesAreNames DEF Published, ReachInv
<1>5. ASSUME NEW r \in Procs, r # p
      PROVE  Reaches(call[r])'
  <2>1. call'[r] = call[r] /\ Reaches(call[r])
    BY <1>1, <1>5 DEF ReachInv
  <2>2. call[r].op = "commit" => CommitReaches(call[r])'
    <3> SUFFICES ASSUME call[r].op = "commit" PROVE CommitReaches(call[r])'
      OBVIOUS
    <3>1. CommitReaches(call[r]) /\ call[r].due \subseteq Ids
      BY <2>1 DEF Reaches, OverAll
    <3>. QED BY <1>1, <1>4, <2>1, <3>1 DEF CommitReaches, Coming
  <2>. QED BY <1>1, <2>1, <2>2 DEF Reaches, Record, OverAllMoves, RemoveReaches, Coming
<1>6. Reaches(call[p])'
  <2>1. call'[p] = q
    BY <1>1 DEF ReachInv
  <2>2. /\ Record(q) /\ q.op = call[p].op /\ q.due = call[p].due /\ q.todo = call[p].todo
        /\ q.pc \in {"send", "over"}
        /\ \A i : Coming(call[p], i) /\ Home[i] # c => Coming(q, i)
    BY <1>1, WithoutRecord
  <2> HIDE DEF q
  <2>3. CASE q.op \notin OverAll
    BY <2>1, <2>2, <2>3 DEF Reaches, Record, OverAll
  <2>4. CASE q.op = "commit"
    <3>1. /\ CommitReaches(call[p]) /\ call[p].due \subseteq Ids /\ OverAllMoves(call[p])
      BY <1>1, <2>2, <2>4 DEF Reaches, OverAll
    <3>2. call[p].pc # "list"
      <4>1. call[p].pc = "send"
        BY <2>2, <2>4, <3>1 DEF CommitCollection, CommitUpdate, At, OverAllMoves
      <4>. QED BY <4>1
    <3>3. \A i \in q.due : Published(i)' \/ Coming(q, i)
      BY <1>4, <2>2, <3>1, <3>2 DEF CommitReaches
    <3>4. \A i \in q.due : i \in docs'[Home[i]]
      BY <1>1, <2>2, <3>1 DEF CommitReaches
    <3>. QED BY <2>1, <2>2, <2>4, <3>1, <3>3, <3>4
             DEF Reaches, Record, OverAllMoves, CommitReaches, Coming
  <2>. QED BY <1>2, <2>2, <2>3, <2>4
<1>7. call' = [r \in Procs |-> call'[r]]
  BY <1>1 DEF ReachInv
<1>. QED BY <1>1, <1>3, <1>5, <1>6, <1>7 DEF ReachInv, DocumentsHaveHomes

\* What an update takes from or adds to a collection is not due any more to the
\* calls of others.
LEMMA DisturbedReaches ==
    ASSUME ReachInv, NEW op, NEW ids, NEW c \in Names, NEW r \in Procs,
           docs' = [docs EXCEPT ![c] = IF Adds(op) THEN @ \cup ids ELSE @ \ ids],
           UNCHANGED <<exists, shown>>, Removes(op) <=> ~Adds(op),
           call'[r] = Disturbed(op, ids \cap {i \in Ids : Home[i] = c})[r]
    PROVE  Reaches(call[r])'
<1> DEFINE x == ids \cap {i \in Ids : Home[i] = c}
           o == call[r]
           n == call'[r]
<1>1. Reaches(o) /\ Record(o)
  BY DEF ReachInv, Reaches
<1>2. n = IF \/ Removes(op) /\ o.op # "remove_all"
             \/ Adds(op) /\ o.op = "remove_all"
          THEN [o EXCEPT !.due = @ \ x] ELSE o
  BY DEF Disturbed
<1>3. /\ Record(n) /\ n.op = o.op /\ n.pc = o.pc /\ n.todo = o.todo /\ n.ready = o.ready
      /\ n.due = IF \/ Removes(op) /\ o.op # "remove_all"
                    \/ Adds(op) /\ o.op = "remove_all"
                 THEN o.due \ x ELSE o.due
  <2> HIDE DEF x, o
  <2>. QED BY <1>1, <1>2 DEF Record
<1>4. \A i \in Ids : docs'[Home[i]] = IF Home[i] # c THEN docs[Home[i]]
                                     ELSE IF Adds(op) THEN docs[Home[i]] \cup ids
                                     ELSE docs[Home[i]] \ ids
  BY HomesAreNames DEF ReachInv
<1>5. \A i \in Ids : i \in x <=> i \in ids /\ Home[i] = c
  OBVIOUS
<1>6. \A i : Coming(o, i) => Coming(n, i)
  BY <1>3 DEF Coming
<1> HIDE DEF x
<1>7. o.op = "commit" => CommitReaches(o)'
  <2> SUFFICES ASSUME o.op = "commit" PROVE CommitReaches(o)'
    OBVIOUS
  <2>1. CommitReaches(o) /\ o.due \subseteq Ids
    BY <1>1 DEF Reaches, OverAll
  <2>2. n.due \subseteq o.due /\ (Removes(op) => n.due = o.due \ x)
    BY <1>3
  <2>3. \A i \in n.due : i \in docs'[Home[i]]
    BY <1>4, <1>5, <2>1, <2>2 DEF CommitReaches
  <2>4. \A i \in n.due : n.pc # "list" => Published(i)' \/ Coming(n, i)
    BY <1>3, <1>6, <2>1, <2>2 DEF CommitReaches, Published
  <2>. QED BY <2>3, <2>4 DEF CommitReaches, Coming
<1>8. o.op = "remove_all" => RemoveReaches(o)'
  <2> SUFFICES ASSUME o.op = "remove_all" PROVE RemoveReaches(o)'
    OBVIOUS
  <2>1. RemoveReaches(o) /\ o.due \subseteq Ids
    BY <1>1 DEF Reaches, OverAll
  <2>2. n.due \subseteq o.due /\ (Adds(op) => n.due = o.due \ x)
    BY <1>3
  <2>3. \A i \in n.due : n.pc # "list" => i \notin docs'[Home[i]] \/ Coming(n, i)
    BY <1>3, <1>4, <1>5, <1>6, <2>1, <2>2 DEF RemoveReaches
  <2>. QED BY <2>3 DEF RemoveReaches, Coming
<1>9. n.op \in OverAll => OverAllMoves(n) /\ n.due \subseteq Ids
  BY <1>1, <1>3 DEF Reaches, OverAllMoves
<1>. QED BY <1>3, <1>7, <1>8, <1>9 DEF Reaches, Record, OverAllMoves

LEMMA UpdateKeeps ==
    ASSUME ReachInv, NEW p \in Procs, NEW c \in Names, Update(p, c)
    PROVE  ReachInv'
<1> DEFINE op == call[p].op
           ids == Group(p, c)
           d == Disturbed(op, ids \cap {i \in Ids : Home[i] = c})
<1>1. /\ Adds(op) \/ Removes(op)
      /\ call[p].pc = "send" /\ c \in exists
      /\ docs' = [docs EXCEPT ![c] = IF Adds(op) THEN @ \cup ids ELSE @ \ ids]
      /\ call' = Sent(p, c, d)
      /\ UNCHANGED <<exists, shown>>
  BY DEF Update, At
<1>2. Removes(op) <=> ~Adds(op)
  BY <1>1 DEF Adds, Removes
<1>3. d = [r \in Procs |-> d[r]]
  BY DEF Disturbed
<1>4. \A r \in Procs \ {p} : call'[r] = d[r]
  BY <1>1, <1>3 DEF Sent
<1>5. call' = [r \in Procs |-> call'[r]]
  BY <1>1, <1>3 DEF Sent
<1>6. DOMAIN docs' = Names /\ DOMAIN shown' = Names /\ DocumentsHaveHomes'
  BY <1>1 DEF ReachInv, DocumentsHaveHomes
<1>7. ASSUME NEW r \in Procs, r # p
      PROVE  Reaches(call[r])'
  BY <1>1, <1>2, <1>4, <1>7, DisturbedReaches
<1>8. Reaches(call[p])'
  <2>1. Reaches(call[p]) /\ Record(call[p])
    BY DEF ReachInv, Reaches
  <2>2. CASE op # "remove_all"
    <3>1. op \notin OverAll
      BY <1>1, <2>2 DEF Adds, Removes, OverAll
    <3>2. Record(d[p]) /\ d[p].op = op
      BY <2>1 DEF Disturbed, Record
    <3>3. call'[p] = IF op \in {"index!", "remove!"}
                     THEN [d[p] EXCEPT !.pc = "commit", !.name = c] ELSE Without(c, d[p])
      BY <1>1, <1>3 DEF Sent
    <3> HIDE DEF d, op
    <3>4. Record(call'[p]) /\ call'[p].op = op
      <4>1. CASE op \in {"index!", "remove!"}
        BY <3>2, <3>3, <4>1 DEF Record
      <4>2. CASE op \notin {"index!", "remove!"}
        BY <3>2, <3>3, <4>2, WithoutRecord
      <4>. QED BY <4>1, <4>2
    <3>. QED BY <3>1, <3>4 DEF Reaches, Record, OverAll
  <2>3. CASE op = "remove_all"
    <3> DEFINE q == Without(c, call[p])
    <3>1. call'[p] = q
      <4>1. d[p] = call[p]
        BY <2>3 DEF Disturbed, Adds
      <4>. QED BY <1>1, <1>3, <2>3, <4>1 DEF Sent
    <3>2. /\ Record(q) /\ q.op = op /\ q.due = call[p].due /\ q.todo = call[p].todo
          /\ q.pc \in {"send", "over"}
          /\ \A i : Coming(call[p], i) /\ Home[i] # c => Coming(q, i)
      BY <2>1, WithoutRecord
    <3> HIDE DEF q
    <3>3. ids = Ids /\ ~Adds(op)
      BY <2>3 DEF Group, Adds
    <3>4. RemoveReaches(call[p]) /\ call[p].due \subseteq Ids /\ OverAllMoves(call[p])
      BY <2>1, <2>3 DEF Reaches, OverAll
    <3>5. \A i \in Ids : docs'[Home[i]] = IF Home[i] = c THEN docs[Home[i]] \ Ids ELSE docs[Home[i]]
      BY <1>1, <3>3, HomesAreNames DEF ReachInv
    <3>6. \A i \in q.due : i \notin docs'[Home[i]] \/ Coming(q, i)
      <4> SUFFICES ASSUME NEW i \in call[p].due PROVE i \notin docs'[Home[i]] \/ Coming(q, i)
        BY <3>2
      <4>1. CASE Home[i] = c
        BY <3>4, <3>5, <4>1
      <4>2. CASE Home[i] # c
        <5>1. i \notin docs[Home[i]] \/ Coming(call[p], i)
          BY <1>1, <3>4 DEF RemoveReaches
        <5>. QED BY <3>2, <3>4, <3>5, <4>2, <5>1
      <4>. QED BY <4>1, <4>2
    <3>. QED BY <2>3, <3>1, <3>2, <3>4, <3>6 DEF Reaches, Record, OverAllMoves, RemoveReaches, Coming
  <2>. QED BY <2>2, <2>3
<1>. QED BY <1>5, <1>6, <1>7, <1>8 DEF ReachInv

\* A collection that is deleted takes what was due there with it.
LEMMA DeleteKeeps ==
    ASSUME ReachInv, NEW p \in Procs, DeleteCollection(p)
    PROVE  ReachInv'
<1> DEFINE c == CHOOSE name \in call[p].range : TRUE
           held == {i \in Ids : Home[i] = c}
<1>1. /\ call[p].pc = "delete" /\ exists' = exists \ {c}
      /\ docs' = [docs EXCEPT ![c] = {}] /\ shown' = [shown EXCEPT ![c] = {}]
      /\ call' = [q \in Procs |->
             IF q = p THEN [call[q] EXCEPT !.pc = "refresh", !.name = c]
             ELSE [call[q] EXCEPT !.due = @ \ held]]
  BY DEF DeleteCollection, At
<1> HIDE DEF c
<1>2. DOMAIN docs' = Names /\ DOMAIN shown' = Names /\ DocumentsHaveHomes'
  BY <1>1 DEF ReachInv, DocumentsHaveHomes
<1>3. Reaches(call[p])'
  <2>1. Record(call[p]) /\ call[p].op \notin OverAll
    BY <1>1, OtherPlaces DEF ReachInv
  <2>2. Record(call'[p]) /\ call'[p].op = call[p].op
    BY <1>1, <2>1 DEF Record
  <2>. QED BY <2>1, <2>2 DEF Reaches, Record, OverAll
<1>4. ASSUME NEW r \in Procs, r # p
      PROVE  Reaches(call[r])'
  <2> DEFINE o == call[r]
             n == call'[r]
  <2>1. Reaches(o) /\ Record(o)
    BY DEF ReachInv, Reaches
  <2>2. /\ Record(n) /\ n.op = o.op /\ n.pc = o.pc /\ n.todo = o.todo /\ n.ready = o.ready
        /\ n.due = o.due \ held
    <3>1. n = [o EXCEPT !.due = @ \ held]
      BY <1>1, <1>4
    <3> HIDE DEF held, o
    <3>. QED BY <2>1, <3>1 DEF Record
  <2>3. \A i : Coming(o, i) => Coming(n, i)
    BY <2>2 DEF Coming
  <2>4. \A i \in Ids : i \in n.due =>
           Home[i] # c /\ docs'[Home[i]] = docs[Home[i]] /\ shown'[Home[i]] = shown[Home[i]]
    BY <1>1, <2>2, HomesAreNames DEF ReachInv
  <2>5. o.op = "commit" => CommitReaches(o)'
    <3> SUFFICES ASSUME o.op = "commit" PROVE CommitReaches(o)'
      OBVIOUS
    <3>1. CommitReaches(o) /\ o.due \subseteq Ids
      BY <2>1 DEF Reaches, OverAll
    <3>. QED BY <2>2, <2>3, <2>4, <3>1 DEF CommitReaches, Coming, Published
  <2>6. o.op = "remove_all" => RemoveReaches(o)'
    <3> SUFFICES ASSUME o.op = "remove_all" PROVE RemoveReaches(o)'
      OBVIOUS
    <3>1. RemoveReaches(o) /\ o.due \subseteq Ids
      BY <2>1 DEF Reaches, OverAll
    <3>. QED BY <2>2, <2>3, <2>4, <3>1 DEF RemoveReaches, Coming
  <2>7. n.op \in OverAll => OverAllMoves(n) /\ n.due \subseteq Ids
    BY <2>1, <2>2 DEF Reaches, OverAllMoves
  <2>. QED BY <2>2, <2>5, <2>6, <2>7 DEF Reaches, Record, OverAllMoves
<1>5. call' = [r \in Procs |-> call'[r]]
  BY <1>1
<1>. QED BY <1>2, <1>3, <1>4, <1>5 DEF ReachInv

-----------------------------------------------------------------------------
(* The invariant.                                                          *)

LEMMA ReachInductive == Spec => []ReachInv
<1>1. Init => ReachInv
  BY NoCallReaches DEF Init, ReachInv, DocumentsHaveHomes
<1>2. ReachInv /\ [Next]_vars => ReachInv'
  <2> SUFFICES ASSUME ReachInv, [Next]_vars PROVE ReachInv'
    OBVIOUS
  <2>1. CASE Tick \/ UNCHANGED vars
    <3>1. UNCHANGED <<exists, docs, shown, call>>
      BY <2>1 DEF Tick, vars, solr
    <3>. QED BY <3>1 DEF ReachInv, DocumentsHaveHomes, Reaches, Record, OverAllMoves,
                         CommitReaches, RemoveReaches, Coming, Published
  <2>2. ASSUME NEW p \in Procs, Proceed(p)
        PROVE  ReachInv'
    <3>1. CASE RequestFails(p) \/ NotFound(p) \/ End(p)
      BY <3>1, EndsKeep
    <3>2. CASE \E c \in Names : Resolve(p, c)
      BY <3>2, OtherCallsKeep
    <3>3. CASE \/ Create(p) \/ CreateFails(p) \/ Refresh(p) \/ RefreshIgnored(p)
               \/ Select(p) \/ Execute(p) \/ DeleteNothing(p)
      BY <3>3, OtherCallsKeep
    <3>4. CASE \E c \in Names : Update(p, c)
      BY <3>4, UpdateKeeps
    <3>5. CASE \E c \in Names : CommitCollection(p, c)
      BY <3>5, CommitsKeep
    <3>6. CASE \E c \in Names : SkipCommit(p, c)
      BY <3>6, SkipCommitKeeps
    <3>7. CASE Session(p)
      BY <3>7, SessionKeeps
    <3>8. CASE ListAll(p)
      BY <3>8, ListAllKeeps
    <3>9. CASE CommitUpdate(p)
      BY <3>9, CommitsKeep
    <3>10. CASE DeleteCollection(p)
      BY <3>10, DeleteKeeps
    <3>. QED BY <2>2, <3>1, <3>2, <3>3, <3>4, <3>5, <3>6, <3>7, <3>8, <3>9, <3>10 DEF Proceed
  <2>3. ASSUME NEW p \in Procs, NEW op \in Ops[p], NEW ids \in Groups \cup {{}},
               NEW range \in SUBSET (Names \cup Months), Begin(p, op, ids, range)
        PROVE  ReachInv'
    BY <2>3, BeginKeeps
  <2>. QED BY <2>1, <2>2, <2>3 DEF Next
<1>. QED BY <1>1, <1>2, PTL DEF Spec

\* tbc_session_proxy.rb, commit: whatever processes create and delete meanwhile
\* and whatever requests fail, a commit that ends well has published every
\* document that was in any collection when it began and is not removed since.
THEOREM CommitsReach == Spec => []CommitReachesAll
<1>1. ReachInv => CommitReachesAll
  <2> SUFFICES ASSUME ReachInv, NEW p \in Procs, call[p].op = "commit", call[p].pc = "over",
                      NEW i \in call[p].due
               PROVE  Published(i)
    BY DEF CommitReachesAll, At
  <2>. QED BY DEF ReachInv, Reaches, CommitReaches, Coming
<1>. QED BY <1>1, ReachInductive, PTL

\* The same of remove_all: nothing is left of what it found, except what is
\* added again while it runs.
THEOREM RemovalsReach == Spec => []RemoveAllReachesAll
<1>1. ReachInv => RemoveAllReachesAll
  <2> SUFFICES ASSUME ReachInv, NEW p \in Procs, call[p].op = "remove_all", call[p].pc = "over",
                      NEW i \in call[p].due
               PROVE  i \notin docs[Home[i]]
    BY DEF RemoveAllReachesAll, At
  <2>. QED BY DEF ReachInv, Reaches, RemoveReaches, Coming
<1>. QED BY <1>1, ReachInductive, PTL

-----------------------------------------------------------------------------
(* Every state is well formed.                                             *)

HomesOf(c) == {Home[i] : i \in c.ids}

\* A call: what it holds are names of collections and objects, and a call on
\* single objects goes to their collections only.
CallTyped(c) ==
    /\ Record(c)
    /\ c.ids \subseteq Ids /\ c.found \subseteq Ids /\ c.due \subseteq Ids
    /\ c.todo \subseteq Names /\ c.ready \subseteq Names /\ c.picked \subseteq Names
    /\ c.name \in Names
    /\ c.pc = "list" => c.op \in OverAll
    /\ c.pc = "delete" => c.op = "delete_collection"
    /\ c.op = "remove_by_id" => c.range \subseteq Names
    /\ c.op \in ByObject =>
         /\ c.todo \subseteq HomesOf(c) /\ c.ready \subseteq HomesOf(c)
         /\ c.pc \in {"create", "refresh", "session"} => c.name \in HomesOf(c)

CacheTyped ==
    cache \in [Procs -> [listed : BOOLEAN, list : SUBSET Names, nodes : BOOLEAN,
                         time : 0 .. MaxTime]]

SolrTyped ==
    /\ exists \subseteq Names
    /\ docs \in [Names -> SUBSET Ids]
    /\ shown \in [Names -> SUBSET Ids]

CallsTyped == call = [p \in Procs |-> call[p]] /\ \A p \in Procs : CallTyped(call[p])

TypeInv == now \in 0 .. MaxTime /\ SolrTyped /\ CacheTyped /\ CallsTyped

LEMMA HomesNamed ==
    ASSUME NEW c, c.ids \subseteq Ids
    PROVE  HomesOf(c) \subseteq Names
  BY HomesAreNames DEF HomesOf

LEMMA NoCallTyped == CallTyped(NoCall)
<1>1. Default \in Names
  BY NamesAssumption
<1>2. Record(NoCall)
  BY DEF Record, NoCall
<1>. QED BY <1>1, <1>2 DEF CallTyped, NoCall, ByObject, OverAll

LEMMA StartedTyped ==
    ASSUME NEW c, CallTyped(c)
    PROVE  CallTyped(Started(c))
<1> DEFINE q == Started(c)
<1>1. /\ Record(q) /\ q.op = c.op /\ q.ids = c.ids /\ q.range = c.range /\ q.name = c.name
      /\ q.found = c.found /\ q.due = c.due /\ q.ready = {} /\ q.picked = {}
      /\ q.todo = (IF c.op \in ByObject THEN HomesOf(c)
                   ELSE IF c.op \in {"search", "remove_by_id"} THEN {Default} ELSE {})
  BY DEF Started, CallTyped, Record, HomesOf
<1>2. /\ q.pc \in {"list", "delete", "session", "resolve"}
      /\ q.pc = "list" => q.op \in OverAll
      /\ q.pc = "delete" => q.op = "delete_collection"
      /\ q.pc = "session" => q.op = "live_nodes"
  BY DEF Started, CallTyped, Record
<1> HIDE DEF q
<1>3. q.todo \subseteq Names
  BY <1>1, HomesNamed, NamesAssumption DEF CallTyped
<1>4. HomesOf(q) = HomesOf(c)
  BY <1>1 DEF HomesOf
<1>5. q.op \in ByObject => q.pc \notin {"create", "refresh", "session"}
  BY <1>2 DEF ByObject
<1>6. CallTyped(q)
  BY <1>1, <1>2, <1>3, <1>4, <1>5 DEF CallTyped
<1>. QED BY <1>6 DEF q

LEMMA HasTyped ==
    ASSUME NEW c, CallTyped(c), c.op \in ByObject => c.name \in HomesOf(c)
    PROVE  CallTyped(Has(c))
<1> DEFINE q == Has(c)
<1>1. /\ Record(q) /\ q.op = c.op /\ q.ids = c.ids /\ q.range = c.range /\ q.name = Default
      /\ q.found = c.found /\ q.due = c.due /\ q.picked = c.picked /\ q.todo = c.todo \ {c.name}
      /\ q.ready = (CASE c.op \in ByObject -> c.ready \cup {c.name}
                      [] c.op = "remove_by_id" -> c.range
                      [] OTHER -> c.ready)
      /\ q.pc \in {"resolve", "select", "over", "send"}
  BY DEF Has, CallTyped, Record
<1> HIDE DEF q
<1>2. q.ready \subseteq Names /\ Default \in Names
  BY <1>1, NamesAssumption DEF CallTyped
<1>3. HomesOf(q) = HomesOf(c)
  BY <1>1 DEF HomesOf
<1>4. ASSUME q.op \in ByObject
      PROVE  q.todo \subseteq HomesOf(q) /\ q.ready \subseteq HomesOf(q)
  <2>1. q.ready = c.ready \cup {c.name}
    BY <1>1, <1>4 DEF ByObject
  <2>. QED BY <1>1, <1>3, <1>4, <2>1 DEF CallTyped
<1>5. CallTyped(q)
  BY <1>1, <1>2, <1>3, <1>4 DEF CallTyped
<1>. QED BY <1>5 DEF q

LEMMA ContinuedTyped ==
    ASSUME NEW p, NEW c, NEW read, CallTyped(c), c.op \in ByObject => c.name \in HomesOf(c)
    PROVE  CallTyped(Continued(p, c, read))
<1>1. CallTyped(Has(c))
  BY HasTyped
<1> DEFINE q == [c EXCEPT !.pc = "session"]
<1>2. /\ Record(q) /\ q.op = c.op /\ q.ids = c.ids /\ q.range = c.range /\ q.name = c.name
      /\ q.found = c.found /\ q.due = c.due /\ q.picked = c.picked /\ q.todo = c.todo
      /\ q.ready = c.ready /\ q.pc = "session"
  BY DEF CallTyped, Record
<1> HIDE DEF q
<1>3. HomesOf(q) = HomesOf(c)
  BY <1>2 DEF HomesOf
<1>4. CallTyped(q)
  BY <1>2, <1>3 DEF CallTyped
<1>. QED BY <1>1, <1>4 DEF Continued, q

LEMMA WithoutTyped ==
    ASSUME NEW c, NEW state, CallTyped(state)
    PROVE  CallTyped(Without(c, state))
<1> DEFINE q == Without(c, state)
<1>1. /\ Record(q) /\ q.op = state.op /\ q.ids = state.ids /\ q.range = state.range
      /\ q.name = Default /\ q.found = state.found /\ q.due = state.due
      /\ q.picked = state.picked /\ q.todo = state.todo /\ q.ready = state.ready \ {c}
      /\ q.pc \in {"over", "send"}
  BY DEF Without, CallTyped, Record
<1> HIDE DEF q
<1>2. HomesOf(q) = HomesOf(state)
  BY <1>1 DEF HomesOf
<1>3. CallTyped(q)
  BY <1>1, <1>2, NamesAssumption DEF CallTyped
<1>. QED BY <1>3 DEF q

\* A call that changes its place, its name or what a search has.
LEMMA MovedTyped ==
    ASSUME NEW c, CallTyped(c), NEW q, Record(q),
           q.op = c.op, q.ids = c.ids, q.range = c.range, q.todo = c.todo,
           q.name \in Names, q.found \subseteq Ids, q.due \subseteq c.due, q.picked \subseteq Names,
           q.ready \subseteq c.ready, q.pc \notin {"list", "delete"} \/ q.pc = c.pc,
           q.op \in ByObject /\ q.pc \in {"create", "refresh", "session"} => q.name \in HomesOf(c)
    PROVE  CallTyped(q)
<1>1. HomesOf(q) = HomesOf(c)
  BY DEF HomesOf
<1>. QED BY <1>1 DEF CallTyped

LEMMA BecomesTyped ==
    ASSUME CallsTyped, NEW p \in Procs, NEW q, CallTyped(q), call' = [call EXCEPT ![p] = q]
    PROVE  CallsTyped'
<1>1. \A r \in Procs : call'[r] \in {call[r], q}
  BY DEF CallsTyped
<1>2. \A r \in Procs : CallTyped(call'[r])
  BY <1>1 DEF CallsTyped
<1>3. call' = [r \in Procs |-> call'[r]]
  BY DEF CallsTyped
<1>4. (\A r \in Procs : CallTyped(call[r]))' <=> \A r \in Procs : CallTyped(call'[r])
  BY DEF CallTyped, Record, HomesOf
<1>. QED BY <1>2, <1>3, <1>4 DEF CallsTyped

LEMMA ListReadTyped ==
    ASSUME now \in 0 .. MaxTime, SolrTyped, CacheTyped, NEW p \in Procs, ListRead(p)
    PROVE  CacheTyped'
<1>1. cache' = [cache EXCEPT ![p].listed = TRUE, ![p].list = exists, ![p].time = now]
  BY DEF ListRead
<1>2. exists \in SUBSET Names
  BY DEF SolrTyped
<1>. QED BY <1>1, <1>2 DEF CacheTyped

\* A list that is asked for is well formed, and the collections it has are.
LEMMA AskedTyped ==
    ASSUME now \in 0 .. MaxTime, SolrTyped, CacheTyped, NEW p \in Procs, NEW force,
           AsksList(p, force)
    PROVE  CacheTyped' /\ Fresh(p, force) \subseteq Names
<1>1. CacheTyped'
  <2>1. CASE force \/ ListStale(p)
    BY <2>1, ListReadTyped DEF AsksList
  <2>2. CASE ~(force \/ ListStale(p))
    BY <2>2 DEF AsksList, CacheTyped
  <2>. QED BY <2>1, <2>2
<1>. QED BY <1>1 DEF Fresh, SolrTyped, CacheTyped

LEMMA BeginTyped ==
    ASSUME TypeInv, NEW p \in Procs, NEW op \in Ops[p], NEW ids \in Groups \cup {{}}, NEW range,
           Begin(p, op, ids, range)
    PROVE  TypeInv'
<1> DEFINE due == Due(p, op, ids, range)
           c == [NoCall EXCEPT !.op = op, !.ids = ids, !.range = range, !.due = due]
<1>1. call' = [call EXCEPT ![p] = Started(c)] /\ UNCHANGED <<now, exists, docs, shown, cache>>
  BY DEF Begin, Becomes, solr
<1>2. ids \subseteq Ids
  BY NamesAssumption
<1>3. due \subseteq Ids
  BY <1>2 DEF Due
<1>4. op = "remove_by_id" => range \subseteq Names
  BY DEF Begin
<1> HIDE DEF due
<1>5. /\ Record(c) /\ c.op = op /\ c.ids = ids /\ c.range = range /\ c.due = due
      /\ c.todo = {} /\ c.ready = {} /\ c.picked = {} /\ c.found = {} /\ c.name = Default
      /\ c.pc = "idle"
  BY DEF NoCall, Record
<1> HIDE DEF c
<1>6. CallTyped(c)
  BY <1>2, <1>3, <1>4, <1>5, NamesAssumption DEF CallTyped
<1>7. CallTyped(Started(c))
  BY <1>6, StartedTyped
<1>8. CallsTyped'
  BY <1>1, <1>7, BecomesTyped DEF TypeInv
<1>. QED BY <1>1, <1>8 DEF TypeInv, SolrTyped, CacheTyped

\* A step that ends a call or moves it on, and leaves Solr and the cache.
LEMMA StepTyped ==
    ASSUME TypeInv, NEW p \in Procs, NEW q, CallTyped(q), call' = [call EXCEPT ![p] = q],
           now' = now, SolrTyped', CacheTyped'
    PROVE  TypeInv'
  BY BecomesTyped DEF TypeInv

LEMMA ResolveTyped ==
    ASSUME TypeInv, NEW p \in Procs, NEW c \in Names, Resolve(p, c)
    PROVE  TypeInv'
<1> DEFINE named == [call[p] EXCEPT !.name = c]
           create == [named EXCEPT !.pc = "create"]
<1>1. /\ c \in call[p].todo /\ AsksList(p, FALSE) /\ UNCHANGED <<now, exists, docs, shown>>
      /\ call[p].pc = "resolve"
      /\ \/ call' = [call EXCEPT ![p] = Continued(p, named, ListStale(p))]
         \/ call' = [call EXCEPT ![p] = create]
  BY DEF Resolve, Becomes, solr, At
<1>2. CallTyped(call[p])
  BY DEF TypeInv, CallsTyped
<1>3. /\ Record(named) /\ named.op = call[p].op /\ named.ids = call[p].ids
      /\ named.range = call[p].range /\ named.todo = call[p].todo /\ named.name = c
      /\ named.found = call[p].found /\ named.due = call[p].due
      /\ named.picked = call[p].picked /\ named.ready = call[p].ready /\ named.pc = call[p].pc
  BY <1>2 DEF CallTyped, Record
<1>4. named.op \in ByObject => c \in HomesOf(call[p])
  BY <1>1, <1>2, <1>3 DEF CallTyped
<1> HIDE DEF named
<1>5. CallTyped(named)
  BY <1>2, <1>3, <1>4, MovedTyped DEF CallTyped
<1>6. HomesOf(named) = HomesOf(call[p])
  BY <1>3 DEF HomesOf
<1>7. CallTyped(Continued(p, named, ListStale(p)))
  BY <1>3, <1>4, <1>5, <1>6, ContinuedTyped
<1>8. /\ Record(create) /\ create.op = named.op /\ create.ids = named.ids
      /\ create.range = named.range /\ create.todo = named.todo /\ create.name = c
      /\ create.found = named.found /\ create.due = named.due
      /\ create.picked = named.picked /\ create.ready = named.ready /\ create.pc = "create"
  BY <1>3 DEF Record
<1> HIDE DEF create
<1>9. CallTyped(create)
  BY <1>3, <1>4, <1>5, <1>6, <1>8, MovedTyped DEF CallTyped
<1>10. SolrTyped' /\ CacheTyped'
  BY <1>1, AskedTyped DEF TypeInv, SolrTyped
<1>. QED BY <1>1, <1>7, <1>9, <1>10, StepTyped

\* A call that is at its collection's session, or has just made or found it.
LEMMA AtNameTyped ==
    ASSUME TypeInv, NEW p \in Procs, call[p].pc \in {"create", "refresh", "session"}, NEW read
    PROVE  CallTyped(call[p]) /\ CallTyped(Has(call[p])) /\ CallTyped(Continued(p, call[p], read))
<1>1. CallTyped(call[p]) /\ (call[p].op \in ByObject => call[p].name \in HomesOf(call[p]))
  BY DEF TypeInv, CallsTyped, CallTyped
<1>. QED BY <1>1, HasTyped, ContinuedTyped

LEMMA PlaceTyped ==
    ASSUME NEW c, CallTyped(c), NEW pc, pc \notin {"list", "delete"},
           c.op \in ByObject /\ pc \in {"create", "refresh", "session"} => c.name \in HomesOf(c)
    PROVE  CallTyped([c EXCEPT !.pc = pc])
<1> DEFINE q == [c EXCEPT !.pc = pc]
<1>1. /\ Record(q) /\ q.op = c.op /\ q.ids = c.ids /\ q.range = c.range /\ q.name = c.name
      /\ q.found = c.found /\ q.due = c.due /\ q.picked = c.picked /\ q.todo = c.todo
      /\ q.ready = c.ready /\ q.pc = pc
  BY DEF CallTyped, Record
<1> HIDE DEF q
<1>2. CallTyped(q)
  BY <1>1, MovedTyped DEF CallTyped
<1>. QED BY <1>2 DEF q

LEMMA CreateTyped ==
    ASSUME TypeInv, NEW p \in Procs, Create(p) \/ CreateFails(p)
    PROVE  TypeInv'
<1>1. /\ call[p].pc = "create" /\ UNCHANGED <<now, docs, shown, cache>>
      /\ exists' \subseteq exists \cup {call[p].name}
      /\ \/ call' = [call EXCEPT ![p] = [call[p] EXCEPT !.pc = "refresh"]]
         \/ call' = [call EXCEPT ![p] = Continued(p, call[p], FALSE)]
         \/ call' = [call EXCEPT ![p] = Started(call[p])]
         \/ call' = [call EXCEPT ![p] = NoCall]
  BY DEF Create, CreateFails, Raises, Becomes, At, solr
<1>2. /\ CallTyped(call[p]) /\ CallTyped(Continued(p, call[p], FALSE))
      /\ call[p].op \in ByObject => call[p].name \in HomesOf(call[p])
      /\ call[p].name \in Names
  BY <1>1, AtNameTyped DEF CallTyped
<1>3. CallTyped([call[p] EXCEPT !.pc = "refresh"])
  BY <1>2, PlaceTyped
<1>4. CallTyped(Started(call[p])) /\ CallTyped(NoCall)
  BY <1>2, StartedTyped, NoCallTyped
<1>5. SolrTyped' /\ CacheTyped'
  BY <1>1, <1>2 DEF TypeInv, SolrTyped, CacheTyped
<1>. QED BY <1>1, <1>2, <1>3, <1>4, <1>5, StepTyped

LEMMA RefreshTyped ==
    ASSUME TypeInv, NEW p \in Procs, Refresh(p) \/ RefreshIgnored(p)
    PROVE  TypeInv'
<1>1. /\ call[p].pc = "refresh" /\ UNCHANGED <<now, exists, docs, shown>>
      /\ ListRead(p) \/ cache' = cache
      /\ \E read : call' = [call EXCEPT ![p] = AfterRefresh(p, read)]
  BY DEF Refresh, RefreshIgnored, Becomes, At, solr
<1>2. PICK read : call' = [call EXCEPT ![p] = AfterRefresh(p, read)]
  BY <1>1
<1>3. CallTyped(call[p]) /\ CallTyped(Continued(p, call[p], read))
  BY <1>1, AtNameTyped
<1>4. CallTyped([call[p] EXCEPT !.pc = "over"])
  BY <1>3, PlaceTyped
<1>5. CallTyped(AfterRefresh(p, read))
  BY <1>3, <1>4 DEF AfterRefresh
<1>6. SolrTyped'
  BY <1>1 DEF TypeInv, SolrTyped
<1>7. CacheTyped'
  <2>1. CASE ListRead(p)
    BY <2>1, ListReadTyped DEF TypeInv
  <2>2. CASE cache' = cache
    BY <2>2 DEF TypeInv, CacheTyped
  <2>. QED BY <1>1, <2>1, <2>2
<1>. QED BY <1>1, <1>2, <1>5, <1>6, <1>7, StepTyped

LEMMA SessionTyped ==
    ASSUME TypeInv, NEW p \in Procs, Session(p)
    PROVE  TypeInv'
<1>1. /\ call[p].pc = "session" /\ UNCHANGED <<now, exists, docs, shown>>
      /\ cache' = IF NodesStale(p)
                  THEN [cache EXCEPT ![p].nodes = TRUE, ![p].time = now] ELSE cache
      /\ \/ call' = [call EXCEPT ![p] = [call[p] EXCEPT !.pc = "over"]]
         \/ call' = [call EXCEPT ![p] = Has(call[p])]
  BY DEF Session, Becomes, At, solr
<1>2. CallTyped(call[p]) /\ CallTyped(Has(call[p]))
  BY <1>1, AtNameTyped
<1>3. CallTyped([call[p] EXCEPT !.pc = "over"])
  BY <1>2, PlaceTyped
<1>4. SolrTyped'
  BY <1>1 DEF TypeInv, SolrTyped
<1>5. CacheTyped'
  <2>1. CASE NodesStale(p)
    BY <1>1, <2>1 DEF TypeInv, CacheTyped
  <2>2. CASE ~NodesStale(p)
    BY <1>1, <2>2 DEF TypeInv, CacheTyped
  <2>. QED BY <2>1, <2>2
<1>. QED BY <1>1, <1>2, <1>3, <1>4, <1>5, StepTyped

LEMMA ListAllTyped ==
    ASSUME TypeInv, NEW p \in Procs, ListAll(p)
    PROVE  TypeInv'
<1> DEFINE c == [call[p] EXCEPT !.ready = Fresh(p, TRUE)]
<1>1. /\ call[p].pc = "list" /\ UNCHANGED <<now, exists, docs, shown>> /\ AsksList(p, TRUE)
      /\ call' = [call EXCEPT ![p] = Continued(p, c, TRUE)]
  BY DEF ListAll, Becomes, At, solr
<1>2. CallTyped(call[p]) /\ call[p].op \in OverAll
  BY <1>1 DEF TypeInv, CallsTyped, CallTyped
<1>3. call[p].op \notin ByObject
  BY <1>2 DEF OverAll, ByObject
<1>4. CacheTyped' /\ Fresh(p, TRUE) \subseteq Names
  BY <1>1, AskedTyped DEF TypeInv
<1>5. /\ Record(c) /\ c.op = call[p].op /\ c.ids = call[p].ids /\ c.range = call[p].range
      /\ c.name = call[p].name /\ c.found = call[p].found /\ c.due = call[p].due
      /\ c.picked = call[p].picked /\ c.todo = call[p].todo
      /\ c.ready = Fresh(p, TRUE) /\ c.pc = call[p].pc
  BY <1>2 DEF CallTyped, Record
<1> HIDE DEF c
<1>6. CallTyped(c)
  BY <1>2, <1>3, <1>4, <1>5 DEF CallTyped
<1>7. CallTyped(Continued(p, c, TRUE))
  BY <1>3, <1>5, <1>6, ContinuedTyped
<1>8. SolrTyped'
  BY <1>1 DEF TypeInv, SolrTyped
<1>. QED BY <1>1, <1>4, <1>7, <1>8, StepTyped

LEMMA GroupTyped ==
    ASSUME TypeInv, NEW p \in Procs, NEW c
    PROVE  Group(p, c) \subseteq Ids
  BY DEF TypeInv, CallsTyped, CallTyped, Group

LEMMA UpdateTyped ==
    ASSUME TypeInv, NEW p \in Procs, NEW c \in Names, Update(p, c)
    PROVE  TypeInv'
<1> DEFINE op == call[p].op
           ids == Group(p, c)
           x == ids \cap {i \in Ids : Home[i] = c}
           d == Disturbed(op, x)
<1>1. /\ docs' = [docs EXCEPT ![c] = IF Adds(op) THEN @ \cup ids ELSE @ \ ids]
      /\ call' = Sent(p, c, d) /\ UNCHANGED <<now, exists, shown, cache>>
  BY DEF Update
<1>2. \A r \in Procs : d[r] \in {call[r], [call[r] EXCEPT !.due = @ \ x]}
  BY DEF Disturbed
<1>3. ASSUME NEW r \in Procs
      PROVE  CallTyped(d[r])
  <2>1. CallTyped(call[r])
    BY DEF TypeInv, CallsTyped
  <2> DEFINE q == [call[r] EXCEPT !.due = @ \ x]
  <2>2. /\ Record(q) /\ q.op = call[r].op /\ q.ids = call[r].ids /\ q.range = call[r].range
        /\ q.name = call[r].name /\ q.found = call[r].found /\ q.due \subseteq call[r].due
        /\ q.picked = call[r].picked /\ q.todo = call[r].todo
        /\ q.ready = call[r].ready /\ q.pc = call[r].pc
    BY <2>1 DEF CallTyped, Record
  <2> HIDE DEF q, x
  <2>3. CallTyped(q)
    BY <2>1, <2>2, MovedTyped DEF CallTyped
  <2>. QED BY <1>2, <2>1, <2>3 DEF q
<1>4. DOMAIN d = Procs /\ d = [r \in Procs |-> d[r]]
  BY DEF Disturbed
<1> HIDE DEF d, x
<1> DEFINE q == [d[p] EXCEPT !.pc = "commit", !.name = c]
<1>5. call' = [d EXCEPT ![p] = q] \/ call' = [d EXCEPT ![p] = Without(c, d[p])]
  BY <1>1 DEF Sent
<1>6. CallTyped(q)
  <2>1. CallTyped(d[p])
    BY <1>3
  <2>2. /\ Record(q) /\ q.op = d[p].op /\ q.ids = d[p].ids /\ q.range = d[p].range
        /\ q.name = c /\ q.found = d[p].found /\ q.due = d[p].due
        /\ q.picked = d[p].picked /\ q.todo = d[p].todo
        /\ q.ready = d[p].ready /\ q.pc = "commit"
    BY <2>1 DEF CallTyped, Record
  <2> HIDE DEF q
  <2>. QED BY <2>1, <2>2, MovedTyped DEF CallTyped
<1>7. CallTyped(Without(c, d[p]))
  BY <1>3, WithoutTyped
<1> HIDE DEF q
<1>8. call' = [r \in Procs |-> call'[r]] /\ \A r \in Procs : CallTyped(call'[r])
  BY <1>3, <1>4, <1>5, <1>6, <1>7
<1>9. CallsTyped'
  <2>1. (\A r \in Procs : CallTyped(call[r]))' <=> \A r \in Procs : CallTyped(call'[r])
    BY DEF CallTyped, Record, HomesOf
  <2>. QED BY <1>8, <2>1 DEF CallsTyped
<1>10. SolrTyped'
  <2>1. ids \subseteq Ids
    BY GroupTyped
  <2> HIDE DEF ids
  <2>. QED BY <1>1, <2>1 DEF TypeInv, SolrTyped
<1>. QED BY <1>1, <1>9, <1>10 DEF TypeInv, CacheTyped

LEMMA CommitsTyped ==
    ASSUME TypeInv, NEW p \in Procs, NEW c,
           CommitCollection(p, c) \/ SkipCommit(p, c) \/ (CommitUpdate(p) /\ c = call[p].name)
    PROVE  TypeInv'
<1>1. /\ call' = [call EXCEPT ![p] = Without(c, call[p])] /\ UNCHANGED <<now, exists, docs, cache>>
      /\ shown' \in {shown, [shown EXCEPT ![c] = docs[c]]}
  BY DEF CommitCollection, SkipCommit, CommitUpdate, Becomes, solr
<1>2. CallTyped(call[p])
  BY DEF TypeInv, CallsTyped
<1>3. CallTyped(Without(c, call[p]))
  BY <1>2, WithoutTyped
<1>4. SolrTyped' /\ CacheTyped'
  BY <1>1 DEF TypeInv, SolrTyped, CacheTyped
<1>. QED BY <1>1, <1>3, <1>4, StepTyped

LEMMA EndsTyped ==
    ASSUME TypeInv, NEW p \in Procs, RequestFails(p) \/ NotFound(p) \/ End(p) \/ DeleteNothing(p)
    PROVE  TypeInv'
<1>1. /\ UNCHANGED <<now, exists, docs, shown, cache>>
      /\ \/ call' = [call EXCEPT ![p] = NoCall]
         \/ call' = [call EXCEPT ![p] = Started(call[p])]
         \/ call' = [call EXCEPT ![p] = [call[p] EXCEPT !.pc = "over"]]
  BY DEF RequestFails, Raises, NotFound, End, Ended, DeleteNothing, Becomes, solr
<1>2. CallTyped(call[p])
  BY DEF TypeInv, CallsTyped
<1>3. CallTyped(NoCall) /\ CallTyped(Started(call[p])) /\ CallTyped([call[p] EXCEPT !.pc = "over"])
  BY <1>2, NoCallTyped, StartedTyped, PlaceTyped
<1>4. SolrTyped' /\ CacheTyped'
  BY <1>1 DEF TypeInv, SolrTyped, CacheTyped
<1>. QED BY <1>1, <1>3, <1>4, StepTyped

LEMMA SelectTyped ==
    ASSUME TypeInv, NEW p \in Procs, Select(p)
    PROVE  TypeInv'
<1> DEFINE matching == Matching(Fresh(p, FALSE), call[p].range)
           picked == IF matching = {} THEN {Default} ELSE matching
           q == [call[p] EXCEPT !.picked = picked, !.pc = "execute"]
<1>1. /\ UNCHANGED <<now, exists, docs, shown>> /\ AsksList(p, FALSE)
      /\ call' = [call EXCEPT ![p] = q]
  BY DEF Select, Becomes, solr
<1>2. CallTyped(call[p])
  BY DEF TypeInv, CallsTyped
<1>3. CacheTyped' /\ Fresh(p, FALSE) \subseteq Names
  BY <1>1, AskedTyped DEF TypeInv
<1>4. picked \subseteq Names
  BY <1>3, NamesAssumption DEF Matching
<1> HIDE DEF picked
<1>5. /\ Record(q) /\ q.op = call[p].op /\ q.ids = call[p].ids /\ q.range = call[p].range
      /\ q.name = call[p].name /\ q.found = call[p].found /\ q.due = call[p].due
      /\ q.picked = picked /\ q.todo = call[p].todo
      /\ q.ready = call[p].ready /\ q.pc = "execute"
  BY <1>2 DEF CallTyped, Record
<1> HIDE DEF q
<1>6. CallTyped(q)
  BY <1>2, <1>4, <1>5, MovedTyped DEF CallTyped
<1>7. SolrTyped'
  BY <1>1 DEF TypeInv, SolrTyped
<1>. QED BY <1>1, <1>3, <1>6, <1>7, StepTyped DEF q

LEMMA ExecuteTyped ==
    ASSUME TypeInv, NEW p \in Procs, Execute(p)
    PROVE  TypeInv'
<1> DEFINE found == UNION {shown[c] : c \in call[p].picked}
           q == [call[p] EXCEPT !.found = found, !.pc = "over", !.picked = {}]
<1>1. /\ UNCHANGED <<now, exists, docs, shown, cache>> /\ call[p].picked \subseteq exists
      /\ call' = [call EXCEPT ![p] = q]
  BY DEF Execute, Becomes, solr
<1>2. CallTyped(call[p])
  BY DEF TypeInv, CallsTyped
<1>3. found \subseteq Ids
  BY <1>1 DEF TypeInv, SolrTyped
<1> HIDE DEF found
<1>5. /\ Record(q) /\ q.op = call[p].op /\ q.ids = call[p].ids /\ q.range = call[p].range
      /\ q.name = call[p].name /\ q.found = found /\ q.due = call[p].due
      /\ q.picked = {} /\ q.todo = call[p].todo
      /\ q.ready = call[p].ready /\ q.pc = "over"
  BY <1>2 DEF CallTyped, Record
<1> HIDE DEF q
<1>6. CallTyped(q)
  BY <1>2, <1>3, <1>5, MovedTyped DEF CallTyped
<1>7. SolrTyped' /\ CacheTyped'
  BY <1>1 DEF TypeInv, SolrTyped, CacheTyped
<1>. QED BY <1>1, <1>6, <1>7, StepTyped DEF q

LEMMA DeleteTyped ==
    ASSUME TypeInv, NEW p \in Procs, DeleteCollection(p)
    PROVE  TypeInv'
<1> DEFINE c == CHOOSE name \in call[p].range : TRUE
           held == {i \in Ids : Home[i] = c}
<1>1. /\ call[p].pc = "delete" /\ c \in exists /\ exists' = exists \ {c}
      /\ docs' = [docs EXCEPT ![c] = {}] /\ shown' = [shown EXCEPT ![c] = {}]
      /\ call' = [r \in Procs |->
             IF r = p THEN [call[r] EXCEPT !.pc = "refresh", !.name = c]
             ELSE [call[r] EXCEPT !.due = @ \ held]]
      /\ UNCHANGED <<now, cache>>
  BY DEF DeleteCollection, At
<1> HIDE DEF c, held
<1>2. c \in Names
  BY <1>1 DEF TypeInv, SolrTyped
<1>3. ASSUME NEW r \in Procs
      PROVE  CallTyped(call'[r])
  <2> DEFINE q == call'[r]
  <2>1. CallTyped(call[r]) /\ (r = p => call[r].op \notin ByObject)
    BY <1>1 DEF TypeInv, CallsTyped, CallTyped, ByObject
  <2>2. CASE r = p
    <3>1. q = [call[r] EXCEPT !.pc = "refresh", !.name = c]
      BY <1>1, <2>2
    <3>2. /\ Record(q) /\ q.op = call[r].op /\ q.ids = call[r].ids /\ q.range = call[r].range
          /\ q.name = c /\ q.found = call[r].found /\ q.due = call[r].due
          /\ q.picked = call[r].picked /\ q.todo = call[r].todo
          /\ q.ready = call[r].ready /\ q.pc = "refresh"
      BY <2>1, <3>1 DEF CallTyped, Record
    <3> HIDE DEF q
    <3>3. CallTyped(q)
      BY <1>2, <2>1, <2>2, <3>2, MovedTyped DEF CallTyped
    <3>. QED BY <3>3 DEF q
  <2>3. CASE r # p
    <3>1. q = [call[r] EXCEPT !.due = @ \ held]
      BY <1>1, <2>3
    <3>2. /\ Record(q) /\ q.op = call[r].op /\ q.ids = call[r].ids /\ q.range = call[r].range
          /\ q.name = call[r].name /\ q.found = call[r].found /\ q.due \subseteq call[r].due
          /\ q.picked = call[r].picked /\ q.todo = call[r].todo
          /\ q.ready = call[r].ready /\ q.pc = call[r].pc
      BY <2>1, <3>1 DEF CallTyped, Record
    <3> HIDE DEF q
    <3>3. CallTyped(q)
      BY <2>1, <3>2, MovedTyped DEF CallTyped
    <3>. QED BY <3>3 DEF q
  <2>. QED BY <2>2, <2>3
<1>4. CallsTyped'
  <2>1. (\A r \in Procs : CallTyped(call[r]))' <=> \A r \in Procs : CallTyped(call'[r])
    BY DEF CallTyped, Record, HomesOf
  <2>2. call' = [r \in Procs |-> call'[r]]
    BY <1>1
  <2>. QED BY <1>3, <2>1, <2>2 DEF CallsTyped
<1>. QED BY <1>1, <1>4 DEF TypeInv, SolrTyped, CacheTyped

LEMMA TypeStep == TypeInv /\ [Next]_vars => TypeInv'
<1> SUFFICES ASSUME TypeInv, [Next]_vars PROVE TypeInv'
  OBVIOUS
<1>1. CASE Tick \/ UNCHANGED vars
  <2>1. UNCHANGED <<exists, docs, shown, cache, call>> /\ now' \in 0 .. MaxTime
    BY <1>1, BoundsAssumption DEF Tick, vars, solr, TypeInv
  <2>. QED BY <2>1 DEF TypeInv, SolrTyped, CacheTyped, CallsTyped, CallTyped, Record, HomesOf
<1>2. ASSUME NEW p \in Procs, Proceed(p)
      PROVE  TypeInv'
  BY <1>2, ResolveTyped, UpdateTyped, CommitsTyped, CreateTyped, RefreshTyped, SessionTyped,
     ListAllTyped, EndsTyped, SelectTyped, ExecuteTyped, DeleteTyped DEF Proceed
<1>3. ASSUME NEW p \in Procs, NEW op \in Ops[p], NEW ids \in Groups \cup {{}},
             NEW range \in SUBSET (Names \cup Months), Begin(p, op, ids, range)
      PROVE  TypeInv'
  BY <1>3, BeginTyped
<1>. QED BY <1>1, <1>2, <1>3 DEF Next

LEMMA TypeStart == Init => TypeInv
<1> SUFFICES ASSUME Init PROVE TypeInv
  OBVIOUS
<1>1. CallsTyped
  BY NoCallTyped DEF Init, CallsTyped
<1>2. SolrTyped
  BY NamesAssumption DEF Init, SolrTyped
<1>3. now \in 0 .. MaxTime /\ 0 \in 0 .. MaxTime
  BY BoundsAssumption DEF Init
<1>4. CacheTyped
  <2>1. cache = [p \in Procs |-> Empty]
    BY DEF Init
  <2>2. Empty \in [listed : BOOLEAN, list : SUBSET Names, nodes : BOOLEAN, time : 0 .. MaxTime]
    BY <1>3 DEF Empty
  <2>. QED BY <2>1, <2>2 DEF CacheTyped
<1>. QED BY <1>1, <1>2, <1>3, <1>4 DEF TypeInv

LEMMA TypeInductive == Spec => []TypeInv
  BY TypeStart, TypeStep, PTL DEF Spec

\* Whatever fails, is made again, created and deleted, every process's call
\* holds names of collections and objects, and a call on single objects sends
\* to the collections of these objects only.
THEOREM TypeCorrect == Spec => []TypeOK
<1>1. TypeInv => TypeOK
  <2> SUFFICES ASSUME TypeInv PROVE TypeOK
    OBVIOUS
  <2>1. \A p \in Procs : CallTyped(call[p])
    BY DEF TypeInv, CallsTyped
  <2>. QED BY <2>1 DEF TypeInv, SolrTyped, CacheTyped, TypeOK, CallTyped, HomesOf
<1>. QED BY <1>1, TypeInductive, PTL

-----------------------------------------------------------------------------
(* What a process knows of the collections it has to search.               *)

\* While objects are indexed: a collection that is looked up is in the list, or
\* among the unseen; and an object is in its collection once that is looked up
\* and the request was made.  D are the documents, E the collections.
IndexKnows(c, list, unseen, D, E) ==
    c.op = "index!" =>
      /\ c.pc \in {"resolve", "create", "refresh", "session", "send", "commit", "over"}
      /\ c.pc \in {"send", "commit", "over"} => c.todo = {}
      /\ c.pc = "over" => c.ready = {}
      /\ c.due \subseteq c.ids
      /\ \A i \in c.due :
           /\ Home[i] \in c.todo \cup list \cup unseen
           /\ c.pc = "session" /\ c.name = Home[i] => Home[i] \in list \cup unseen
           /\ Home[i] \in c.todo \cup c.ready \/ i \in D[Home[i]]
           /\ c.pc = "refresh" /\ c.name = Home[i] => Home[i] \in E
           /\ c.pc = "commit" /\ c.name = Home[i] => i \in D[Home[i]]

\* While a search runs: what it has to find is published, in the range, and in
\* a collection of the list, unless the list has yet to be asked for.
SearchKnows(c, list, stale, D, S) ==
    c.op = "search" =>
      /\ c.pc \in {"resolve", "create", "refresh", "session", "select", "execute", "over"}
      /\ \A i \in c.due :
           /\ InRange(i, c.range) /\ i \in S[Home[i]] /\ i \in D[Home[i]]
           /\ Home[i] \in list \/ (c.pc = "resolve" /\ stale)
           /\ c.pc = "execute" => Home[i] \in c.picked
           /\ c.pc = "over" => i \in c.found

\* What the process has published is in a collection that is in its list.
MineKnown(m, list, unseen, D) ==
    m \subseteq Ids /\ \A i \in m : i \in D[Home[i]] /\ Home[i] \in list \cup unseen

Knows(p) ==
    /\ IndexKnows(call[p], cache[p].list, blind[p], docs, exists)
    /\ SearchKnows(call[p], cache[p].list, ListStale(p), docs, shown)
    /\ MineKnown(mine[p], cache[p].list, blind[p], docs)

FindInv ==
    /\ blind = [p \in Procs |-> blind[p]] /\ mine = [p \in Procs |-> mine[p]]
    /\ \A p \in Procs : Knows(p)

\* What holds in all states.
Base == TypeInv /\ DocumentsHaveHomes

LEMMA HeldExists ==
    ASSUME Base, NEW i \in Ids, i \in docs[Home[i]]
    PROVE  Home[i] \in exists
  BY HomesAreNames DEF Base, DocumentsHaveHomes

SameCall(c, n) ==
    /\ n.op = c.op /\ n.pc = c.pc /\ n.ids = c.ids /\ n.range = c.range /\ n.todo = c.todo
    /\ n.name = c.name /\ n.ready = c.ready /\ n.picked = c.picked /\ n.found = c.found
    /\ n.due \subseteq c.due

\* A step of another process, or of the clock.
LEMMA StillKnows ==
    ASSUME NEW p \in Procs, Knows(p), SameCall(call[p], call'[p]),
           cache'[p] = cache[p], blind'[p] = blind[p], mine'[p] \subseteq mine[p],
           ListStale(p) => ListStale(p)',
           call[p].op \in {"index!", "search"} =>
             \A i \in call'[p].due :
               /\ i \in docs[Home[i]] => i \in docs'[Home[i]]
               /\ i \in shown[Home[i]] /\ i \in docs[Home[i]] => i \in shown'[Home[i]]
               /\ Home[i] \in exists => Home[i] \in exists',
           \A i \in mine'[p] : i \in docs[Home[i]] => i \in docs'[Home[i]]
    PROVE  Knows(p)'
<1> DEFINE c == call[p]
           n == call'[p]
<1>1. IndexKnows(n, cache[p].list, blind[p], docs', exists')
  <2> SUFFICES ASSUME n.op = "index!"
               PROVE  IndexKnows(n, cache[p].list, blind[p], docs', exists')
    BY DEF IndexKnows
  <2>1. IndexKnows(c, cache[p].list, blind[p], docs, exists) /\ c.op = "index!"
    BY DEF Knows, SameCall
  <2>2. n.due \subseteq n.ids
    BY <2>1 DEF IndexKnows, SameCall
  <2>. QED BY <2>1, <2>2 DEF IndexKnows, SameCall
<1>2. SearchKnows(n, cache[p].list, ListStale(p)', docs', shown')
  <2> SUFFICES ASSUME n.op = "search"
               PROVE  SearchKnows(n, cache[p].list, ListStale(p)', docs', shown')
    BY DEF SearchKnows
  <2>1. SearchKnows(c, cache[p].list, ListStale(p), docs, shown) /\ c.op = "search"
    BY DEF Knows, SameCall
  <2>. QED BY <2>1 DEF SearchKnows, SameCall
<1>3. MineKnown(mine'[p], cache[p].list, blind[p], docs')
  BY DEF Knows, MineKnown
<1>. QED BY <1>1, <1>2, <1>3 DEF Knows

\* A step of p that takes nothing away leaves what the others know.
LEMMA OthersKnow ==
    ASSUME Base, FindInv, NEW p \in Procs, NEW q, call' = [call EXCEPT ![p] = q],
           \A r \in Procs \ {p} : cache'[r] = cache[r] /\ blind'[r] = blind[r] /\ mine'[r] = mine[r],
           now' = now, docs' = docs, exists \subseteq exists',
           \A i \in Ids : i \in shown[Home[i]] /\ i \in docs[Home[i]] => i \in shown'[Home[i]]
    PROVE  \A r \in Procs \ {p} : Knows(r)'
<1> SUFFICES ASSUME NEW r \in Procs, r # p PROVE Knows(r)'
  OBVIOUS
<1>1. call'[r] = call[r] /\ CallTyped(call[r])
  BY DEF Base, TypeInv, CallsTyped
<1>2. SameCall(call[r], call'[r])
  BY <1>1 DEF SameCall
<1>3. ListStale(r) => ListStale(r)'
  BY DEF ListStale, Expired
<1>4. call'[r].due \subseteq Ids
  BY <1>1 DEF CallTyped
<1>5. Knows(r) /\ cache'[r] = cache[r] /\ blind'[r] = blind[r] /\ mine'[r] \subseteq mine[r]
  BY DEF FindInv
<1>. QED BY <1>2, <1>3, <1>4, <1>5, StillKnows

-----------------------------------------------------------------------------
(* The process's own steps.                                                *)

\* Calls of other kinds need to know nothing.
LEMMA OthersNeedNothing ==
    ASSUME NEW c, c.op \notin {"index!", "search"}, NEW list, NEW unseen, NEW stale,
           NEW D, NEW S, NEW E
    PROVE  IndexKnows(c, list, unseen, D, E) /\ SearchKnows(c, list, stale, D, S)
  BY DEF IndexKnows, SearchKnows

LEMMA StartedKnows ==
    ASSUME NEW c, Record(c), NEW list, NEW unseen, NEW stale, NEW D, NEW S, NEW E,
           IndexKnows(c, list, unseen, D, E), SearchKnows(c, list, stale, D, S)
    PROVE  /\ IndexKnows(Started(c), list, unseen, D, E)
           /\ SearchKnows(Started(c), list, stale, D, S)
<1> DEFINE q == Started(c)
<1>1. /\ q.op = c.op /\ q.due = c.due /\ q.ids = c.ids /\ q.range = c.range
      /\ q.op = "index!" => q.pc = "resolve" /\ q.todo = HomesOf(q)
      /\ q.op = "search" => q.pc = "resolve"
  BY DEF Started, Record, HomesOf, ByObject, OverAll
<1> HIDE DEF q
<1>2. IndexKnows(q, list, unseen, D, E)
  BY <1>1 DEF IndexKnows, HomesOf
<1>3. SearchKnows(q, list, stale, D, S)
  BY <1>1 DEF SearchKnows
<1>. QED BY <1>2, <1>3 DEF q

\* A call that has the collection it is about.
GoesOn(c, list, unseen, D, S) ==
    /\ c.op = "index!" =>
         /\ c.due \subseteq c.ids
         /\ \A i \in c.due :
              /\ Home[i] \in c.todo \cup list \cup unseen
              /\ c.name = Home[i] => Home[i] \in list \cup unseen
              /\ Home[i] \in c.todo \cup c.ready \/ i \in D[Home[i]]
    /\ c.op = "search" =>
         \A i \in c.due : /\ InRange(i, c.range) /\ i \in S[Home[i]] /\ i \in D[Home[i]]
                          /\ Home[i] \in list

LEMMA HasKnows ==
    ASSUME NEW c, Record(c), NEW list, NEW unseen, NEW stale, NEW D, NEW S, NEW E,
           GoesOn(c, list, unseen, D, S)
    PROVE  /\ IndexKnows(Has(c), list, unseen, D, E)
           /\ SearchKnows(Has(c), list, stale, D, S)
<1> DEFINE q == Has(c)
<1>1. /\ q.op = c.op /\ q.due = c.due /\ q.ids = c.ids /\ q.range = c.range
      /\ q.todo = c.todo \ {c.name}
      /\ c.op = "index!" => q.ready = c.ready \cup {c.name}
      /\ c.op = "index!" => q.pc = IF q.todo # {} THEN "resolve" ELSE "send"
      /\ c.op = "search" => q.pc \in {"resolve", "select"}
  BY DEF Has, Record, ByObject
<1> HIDE DEF q
<1>2. IndexKnows(q, list, unseen, D, E)
  <2> SUFFICES ASSUME c.op = "index!" PROVE IndexKnows(q, list, unseen, D, E)
    BY <1>1 DEF IndexKnows
  <2>1. ASSUME NEW i \in c.due
        PROVE  /\ Home[i] \in q.todo \cup list \cup unseen
               /\ Home[i] \in q.todo \cup q.ready \/ i \in D[Home[i]]
    BY <1>1, <2>1 DEF GoesOn
  <2>2. q.pc \in {"resolve", "send"} /\ (q.pc = "send" => q.todo = {}) /\ q.due \subseteq q.ids
    BY <1>1 DEF GoesOn
  <2>. QED BY <1>1, <2>1, <2>2 DEF IndexKnows
<1>3. SearchKnows(q, list, stale, D, S)
  BY <1>1 DEF SearchKnows, GoesOn
<1>. QED BY <1>2, <1>3 DEF q

LEMMA ContinuedKnows ==
    ASSUME NEW p, NEW read, NEW c, Record(c), NEW list, NEW unseen, NEW stale,
           NEW D, NEW S, NEW E, GoesOn(c, list, unseen, D, S)
    PROVE  /\ IndexKnows(Continued(p, c, read), list, unseen, D, E)
           /\ SearchKnows(Continued(p, c, read), list, stale, D, S)
<1> DEFINE q == [c EXCEPT !.pc = "session"]
<1>1. /\ q.op = c.op /\ q.due = c.due /\ q.ids = c.ids /\ q.range = c.range
      /\ q.todo = c.todo /\ q.ready = c.ready /\ q.name = c.name /\ q.pc = "session"
  BY DEF Record
<1> HIDE DEF q
<1>2. IndexKnows(q, list, unseen, D, E) /\ SearchKnows(q, list, stale, D, S)
  BY <1>1 DEF IndexKnows, SearchKnows, GoesOn
<1>. QED BY <1>2, HasKnows DEF Continued, q

\* What the list knows after it was asked for.
LEMMA AskedKnows ==
    ASSUME Base, FindInv, NEW p \in Procs, NEW force, AsksList(p, force)
    PROVE  /\ Fresh(p, force) = cache'[p].list
           /\ \A n \in exists : force \/ ListStale(p) \/ n \in cache[p].list => n \in cache'[p].list
           /\ \A n \in exists \cup call[p].ready :
                n \in cache[p].list \cup blind[p] => n \in cache'[p].list \cup blind'[p]
           /\ blind' = [r \in Procs |-> blind'[r]]
           /\ \A r \in Procs \ {p} : cache'[r] = cache[r] /\ blind'[r] = blind[r]
<1>1. DOMAIN cache = Procs /\ DOMAIN cache[p] = {"listed", "list", "nodes", "time"}
      /\ blind = [r \in Procs |-> blind[r]]
  BY DEF Base, TypeInv, CacheTyped, FindInv
<1>2. CASE force \/ ListStale(p)
  <2>1. /\ cache' = [cache EXCEPT ![p].listed = TRUE, ![p].list = exists, ![p].time = now]
        /\ blind' = [blind EXCEPT ![p] = (@ \cup call[p].ready) \ exists]
        /\ Fresh(p, force) = exists
    BY <1>2 DEF AsksList, ListRead, Fresh
  <2>2. /\ cache'[p].list = exists /\ blind'[p] = (blind[p] \cup call[p].ready) \ exists
        /\ \A r \in Procs \ {p} : cache'[r] = cache[r] /\ blind'[r] = blind[r]
    BY <1>1, <2>1
  <2>3. blind' = [r \in Procs |-> blind'[r]]
    BY <1>1, <2>1
  <2>. QED BY <2>1, <2>2, <2>3
<1>3. CASE ~(force \/ ListStale(p))
  BY <1>1, <1>3 DEF AsksList, Fresh
<1>. QED BY <1>2, <1>3

\* What is published stays known when the list is asked for.
LEMMA MineAsked ==
    ASSUME Base, FindInv, NEW p \in Procs, NEW force, AsksList(p, force), docs' = docs
    PROVE  MineKnown(mine[p], cache'[p].list, blind'[p], docs')
<1>1. MineKnown(mine[p], cache[p].list, blind[p], docs)
  BY DEF FindInv, Knows
<1>2. \A i \in mine[p] : Home[i] \in exists
  BY <1>1, HeldExists DEF MineKnown
<1>. QED BY <1>1, <1>2, AskedKnows DEF MineKnown

\* It is enough that the process that moves knows what it has to.
LEMMA OneKnows ==
    ASSUME Base, FindInv, NEW p \in Procs, NEW q, call' = [call EXCEPT ![p] = q],
           IndexKnows(q, cache'[p].list, blind'[p], docs', exists'),
           SearchKnows(q, cache'[p].list, ListStale(p)', docs', shown'),
           MineKnown(mine'[p], cache'[p].list, blind'[p], docs'),
           blind' = [r \in Procs |-> blind'[r]], mine' = [r \in Procs |-> mine'[r]],
           \A r \in Procs \ {p} : cache'[r] = cache[r] /\ blind'[r] = blind[r] /\ mine'[r] = mine[r],
           now' = now, docs' = docs, exists \subseteq exists',
           \A i \in Ids : i \in shown[Home[i]] /\ i \in docs[Home[i]] => i \in shown'[Home[i]]
    PROVE  FindInv'
<1>1. \A r \in Procs \ {p} : Knows(r)'
  BY OthersKnow
<1>2. call'[p] = q
  BY DEF Base, TypeInv, CallsTyped
<1>3. Knows(p)'
  BY <1>2 DEF Knows
<1>. QED BY <1>1, <1>3 DEF FindInv

\* What is known of a process, and of the objects its call is due.
LEMMA OwnKnown ==
    ASSUME Base, FindInv, NEW p \in Procs
    PROVE  /\ Record(call[p]) /\ CallTyped(call[p]) /\ call[p].due \subseteq Ids
           /\ IndexKnows(call[p], cache[p].list, blind[p], docs, exists)
           /\ SearchKnows(call[p], cache[p].list, ListStale(p), docs, shown)
           /\ MineKnown(mine[p], cache[p].list, blind[p], docs)
           /\ blind = [r \in Procs |-> blind[r]] /\ mine = [r \in Procs |-> mine[r]]
  BY DEF Base, TypeInv, CallsTyped, CallTyped, FindInv, Knows

LEMMA BeginFinds ==
    ASSUME Base, FindInv, NEW p \in Procs, NEW op, NEW ids, NEW range, Begin(p, op, ids, range)
    PROVE  FindInv'
<1> DEFINE due == Due(p, op, ids, range)
           c == [NoCall EXCEPT !.op = op, !.ids = ids, !.range = range, !.due = due]
           q == Started(c)
<1>1. /\ call' = [call EXCEPT ![p] = q]
      /\ UNCHANGED <<now, exists, docs, shown, cache, blind, mine>>
  BY DEF Begin, Becomes, solr
<1> HIDE DEF due
<1>2. /\ q.op = op /\ q.due = due /\ q.ids = ids /\ q.range = range
      /\ op = "index!" => q.pc = "resolve" /\ q.todo = HomesOf(q)
      /\ op = "search" => q.pc = "resolve"
  BY DEF Started, NoCall, HomesOf, ByObject, OverAll
<1> HIDE DEF c, q
<1>3. op = "index!" => due = ids
  BY DEF due, Due, ByObject, OverAll
<1>4. IndexKnows(q, cache[p].list, blind[p], docs, exists)
  BY <1>2, <1>3 DEF IndexKnows, HomesOf
<1>5. SearchKnows(q, cache[p].list, ListStale(p), docs, shown)
  <2> SUFFICES ASSUME op = "search", NEW i \in due
               PROVE  /\ InRange(i, range) /\ i \in shown[Home[i]] /\ i \in docs[Home[i]]
                      /\ Home[i] \in cache[p].list \/ ListStale(p)
    BY <1>2 DEF SearchKnows
  <2>1. due = {k \in Ids : /\ InRange(k, range)
                           /\ Published(k) /\ k \in docs[Home[k]]
                           /\ Expired(p) \/ (k \in mine[p] /\ Home[k] \notin blind[p])}
    BY DEF due, Due, ByObject, OverAll
  <2>2. i \in mine[p] /\ Home[i] \notin blind[p] => Home[i] \in cache[p].list
    BY OwnKnown DEF MineKnown
  <2>. QED BY <2>1, <2>2 DEF Published, ListStale
<1>6. ListStale(p)' = ListStale(p)
  BY <1>1 DEF ListStale, Expired
<1>. QED BY <1>1, <1>4, <1>5, <1>6, OwnKnown, OneKnows

LEMMA EndsFind ==
    ASSUME Base, FindInv, NEW p \in Procs, RequestFails(p) \/ NotFound(p) \/ End(p) \/ DeleteNothing(p)
    PROVE  FindInv'
<1> DEFINE c == call[p]
<1>1. /\ UNCHANGED <<now, exists, docs, shown, cache, blind>>
      /\ \/ call' = [call EXCEPT ![p] = NoCall]
         \/ call' = [call EXCEPT ![p] = Started(c)]
         \/ DeleteNothing(p) /\ call' = [call EXCEPT ![p] = [c EXCEPT !.pc = "over"]]
      /\ \/ mine' = mine
         \/ c.pc = "over" /\ c.op = "index!" /\ mine' = [mine EXCEPT ![p] = @ \cup c.due]
  BY DEF RequestFails, Raises, NotFound, End, Ended, DeleteNothing, Becomes, At, solr
<1>2. MineKnown(mine'[p], cache[p].list, blind[p], docs)
  <2>1. CASE mine' = mine
    BY <2>1, OwnKnown
  <2>2. CASE c.pc = "over" /\ c.op = "index!" /\ mine' = [mine EXCEPT ![p] = @ \cup c.due]
    <3>1. \A i \in c.due : i \in docs[Home[i]] /\ Home[i] \in cache[p].list \cup blind[p]
      BY <2>2, OwnKnown DEF IndexKnows
    <3>2. mine'[p] = mine[p] \cup c.due
      BY <2>2, OwnKnown
    <3>. QED BY <3>1, <3>2, OwnKnown DEF MineKnown
  <2>. QED BY <1>1, <2>1, <2>2
<1>3. /\ mine' = [r \in Procs |-> mine'[r]] /\ \A r \in Procs \ {p} : mine'[r] = mine[r]
  BY <1>1, OwnKnown
<1>4. ListStale(p)' = ListStale(p)
  BY <1>1 DEF ListStale, Expired
<1>5. ASSUME NEW q, call' = [call EXCEPT ![p] = q],
             IndexKnows(q, cache[p].list, blind[p], docs, exists),
             SearchKnows(q, cache[p].list, ListStale(p), docs, shown)
      PROVE  FindInv'
  BY <1>1, <1>2, <1>3, <1>4, <1>5, OwnKnown, OneKnows
<1>6. CASE call' = [call EXCEPT ![p] = NoCall]
  <2>1. NoCall.op \notin {"index!", "search"}
    BY DEF NoCall
  <2>. QED BY <1>5, <1>6, <2>1, OthersNeedNothing
<1>7. CASE call' = [call EXCEPT ![p] = Started(c)]
  BY <1>5, <1>7, OwnKnown, StartedKnows
<1>8. CASE DeleteNothing(p) /\ call' = [call EXCEPT ![p] = [c EXCEPT !.pc = "over"]]
  <2>1. c.pc = "delete"
    BY <1>8 DEF DeleteNothing, At
  <2>2. c.op = "delete_collection" /\ Record(c)
    BY <2>1, OwnKnown DEF CallTyped
  <2>3. [c EXCEPT !.pc = "over"].op \notin {"index!", "search"}
    BY <2>2 DEF Record
  <2>. QED BY <1>5, <1>8, <2>3, OthersNeedNothing
<1>. QED BY <1>1, <1>6, <1>7, <1>8

LEMMA ResolveFinds ==
    ASSUME Base, FindInv, NEW p \in Procs, NEW n \in Names, Resolve(p, n)
    PROVE  FindInv'
<1> DEFINE c == call[p]
           named == [c EXCEPT !.name = n]
           create == [named EXCEPT !.pc = "create"]
           list == cache'[p].list
           unseen == blind'[p]
<1>1. /\ c.pc = "resolve" /\ n \in c.todo /\ AsksList(p, FALSE)
      /\ UNCHANGED <<now, exists, docs, shown, mine>>
      /\ call' = [call EXCEPT ![p] = IF n \in Fresh(p, FALSE) THEN Continued(p, named, ListStale(p))
                                     ELSE create]
  BY DEF Resolve, Becomes, solr, At
<1>2. /\ Fresh(p, FALSE) = list
      /\ \A k \in exists : ListStale(p) \/ k \in cache[p].list => k \in list
      /\ \A k \in exists \cup c.ready :
           k \in cache[p].list \cup blind[p] => k \in list \cup unseen
      /\ blind' = [r \in Procs |-> blind'[r]]
      /\ \A r \in Procs \ {p} : cache'[r] = cache[r] /\ blind'[r] = blind[r]
  BY <1>1, AskedKnows
<1>3. MineKnown(mine[p], list, unseen, docs)
  BY <1>1, MineAsked
<1> HIDE DEF list, unseen
<1>4. /\ named.op = c.op /\ named.pc = c.pc /\ named.ids = c.ids /\ named.range = c.range
      /\ named.todo = c.todo /\ named.name = n /\ named.ready = c.ready /\ named.due = c.due
      /\ Record(named)
  BY OwnKnown DEF Record
<1>5. /\ create.op = c.op /\ create.pc = "create" /\ create.ids = c.ids /\ create.range = c.range
      /\ create.todo = c.todo /\ create.name = n /\ create.ready = c.ready /\ create.due = c.due
  BY OwnKnown DEF Record
<1> HIDE DEF named, create
<1>6. c.op = "index!" =>
        /\ c.due \subseteq c.ids
        /\ \A i \in c.due : /\ Home[i] \in c.todo \cup list \cup unseen
                            /\ Home[i] \in c.todo \cup c.ready \/ i \in docs[Home[i]]
  <2> SUFFICES ASSUME c.op = "index!", NEW i \in c.due
               PROVE  /\ Home[i] \in c.todo \cup list \cup unseen
                      /\ Home[i] \in c.todo \cup c.ready \/ i \in docs[Home[i]]
    BY OwnKnown DEF IndexKnows
  <2>1. /\ Home[i] \in c.todo \cup cache[p].list \cup blind[p]
        /\ Home[i] \in c.todo \cup c.ready \/ i \in docs[Home[i]]
    BY OwnKnown DEF IndexKnows
  <2>2. i \in docs[Home[i]] => Home[i] \in exists
    BY OwnKnown, HeldExists
  <2>. QED BY <1>2, <2>1, <2>2
<1>7. c.op = "search" =>
        \A i \in c.due : /\ InRange(i, c.range) /\ i \in shown[Home[i]] /\ i \in docs[Home[i]]
                         /\ Home[i] \in list
  <2> SUFFICES ASSUME c.op = "search", NEW i \in c.due
               PROVE  /\ InRange(i, c.range) /\ i \in shown[Home[i]] /\ i \in docs[Home[i]]
                      /\ Home[i] \in list
    OBVIOUS
  <2>1. /\ InRange(i, c.range) /\ i \in shown[Home[i]] /\ i \in docs[Home[i]]
        /\ Home[i] \in cache[p].list \/ ListStale(p)
    BY OwnKnown DEF SearchKnows
  <2>2. Home[i] \in exists
    BY <2>1, OwnKnown, HeldExists
  <2>. QED BY <1>2, <2>1, <2>2
<1>8. ASSUME NEW q, call' = [call EXCEPT ![p] = q],
             IndexKnows(q, list, unseen, docs, exists),
             SearchKnows(q, list, ListStale(p)', docs, shown)
      PROVE  FindInv'
  BY <1>1, <1>2, <1>3, <1>8, OwnKnown, OneKnows DEF list, unseen
<1>9. CASE n \in list
  <2>1. GoesOn(named, list, unseen, docs, shown)
    BY <1>4, <1>6, <1>7, <1>9 DEF GoesOn
  <2>2. call' = [call EXCEPT ![p] = Continued(p, named, ListStale(p))]
    BY <1>1, <1>2, <1>9
  <2>3. /\ IndexKnows(Continued(p, named, ListStale(p)), list, unseen, docs, exists)
        /\ SearchKnows(Continued(p, named, ListStale(p)), list, ListStale(p)', docs, shown)
    BY <1>4, <2>1, ContinuedKnows
  <2>. QED BY <1>8, <2>2, <2>3
<1>10. CASE n \notin list
  <2>1. call' = [call EXCEPT ![p] = create]
    BY <1>1, <1>2, <1>10
  <2>2. IndexKnows(create, list, unseen, docs, exists)
    BY <1>5, <1>6 DEF IndexKnows
  <2>3. SearchKnows(create, list, ListStale(p)', docs, shown)
    BY <1>5, <1>7 DEF SearchKnows
  <2>. QED BY <1>8, <2>1, <2>2, <2>3
<1>. QED BY <1>9, <1>10

LEMMA CreateFinds ==
    ASSUME Base, FindInv, NEW p \in Procs, Create(p) \/ CreateFails(p)
    PROVE  FindInv'
<1> DEFINE c == call[p]
           refresh == [c EXCEPT !.pc = "refresh"]
           unseen == blind[p] \cup {c.name}
<1>1. /\ c.pc = "create" /\ UNCHANGED <<now, docs, shown, cache, mine>>
      /\ exists \subseteq exists'
      /\ \/ /\ call' = [call EXCEPT ![p] = refresh] /\ c.name \in exists'
            /\ blind' = blind
         \/ /\ call' = [call EXCEPT ![p] = Continued(p, c, FALSE)]
            /\ blind' = [blind EXCEPT ![p] = unseen]
         \/ call' = [call EXCEPT ![p] = Started(c)] /\ blind' = blind
         \/ call' = [call EXCEPT ![p] = NoCall] /\ blind' = blind
  BY DEF Create, CreateFails, Raises, Becomes, At, solr
<1>2. /\ Record(c) /\ c.due \subseteq Ids
      /\ IndexKnows(c, cache[p].list, blind[p], docs, exists)
      /\ SearchKnows(c, cache[p].list, ListStale(p), docs, shown)
      /\ MineKnown(mine[p], cache[p].list, blind[p], docs)
      /\ blind = [r \in Procs |-> blind[r]] /\ mine = [r \in Procs |-> mine[r]]
  BY OwnKnown
<1>3. ListStale(p)' = ListStale(p)
  BY <1>1 DEF ListStale, Expired
<1> HIDE DEF c
<1>4. IndexKnows(c, cache[p].list, blind[p], docs, exists')
  BY <1>1, <1>2 DEF IndexKnows
<1>5. ASSUME NEW q, call' = [call EXCEPT ![p] = q], blind' = blind,
             IndexKnows(q, cache[p].list, blind[p], docs, exists'),
             SearchKnows(q, cache[p].list, ListStale(p), docs, shown)
      PROVE  FindInv'
  BY <1>1, <1>2, <1>3, <1>5, OneKnows
<1>6. CASE call' = [call EXCEPT ![p] = refresh] /\ c.name \in exists' /\ blind' = blind
  <2>1. /\ refresh.op = c.op /\ refresh.pc = "refresh" /\ refresh.ids = c.ids
        /\ refresh.range = c.range /\ refresh.todo = c.todo /\ refresh.name = c.name
        /\ refresh.ready = c.ready /\ refresh.due = c.due
    BY <1>2 DEF Record
  <2> HIDE DEF refresh
  <2>2. IndexKnows(refresh, cache[p].list, blind[p], docs, exists')
    BY <1>4, <1>6, <2>1 DEF IndexKnows
  <2>3. SearchKnows(refresh, cache[p].list, ListStale(p), docs, shown)
    BY <1>1, <1>2, <2>1 DEF SearchKnows
  <2>. QED BY <1>5, <1>6, <2>2, <2>3
<1>7. CASE /\ call' = [call EXCEPT ![p] = Continued(p, c, FALSE)]
           /\ blind' = [blind EXCEPT ![p] = unseen]
  <2>1. blind'[p] = unseen /\ \A r \in Procs \ {p} : blind'[r] = blind[r]
    BY <1>2, <1>7
  <2>2. blind' = [r \in Procs |-> blind'[r]]
    BY <1>2, <1>7
  <2>3. GoesOn(c, cache[p].list, unseen, docs, shown)
    BY <1>1, <1>2 DEF GoesOn, IndexKnows, SearchKnows
  <2>4. MineKnown(mine[p], cache[p].list, unseen, docs)
    BY <1>2 DEF MineKnown
  <2>5. /\ IndexKnows(Continued(p, c, FALSE), cache[p].list, unseen, docs, exists')
        /\ SearchKnows(Continued(p, c, FALSE), cache[p].list, ListStale(p), docs, shown)
    BY <1>2, <2>3, ContinuedKnows
  <2> HIDE DEF unseen
  <2>6. ASSUME NEW q, call' = [call EXCEPT ![p] = q],
               IndexKnows(q, cache[p].list, unseen, docs, exists'),
               SearchKnows(q, cache[p].list, ListStale(p), docs, shown)
        PROVE  FindInv'
    BY <1>1, <1>2, <1>3, <2>1, <2>2, <2>4, <2>6, OneKnows
  <2>. QED BY <1>7, <2>5, <2>6
<1>8. CASE call' = [call EXCEPT ![p] = Started(c)] /\ blind' = blind
  BY <1>2, <1>4, <1>5, <1>8, StartedKnows
<1>9. CASE call' = [call EXCEPT ![p] = NoCall] /\ blind' = blind
  <2>1. NoCall.op \notin {"index!", "search"}
    BY DEF NoCall
  <2>. QED BY <1>5, <1>9, <2>1, OthersNeedNothing
<1>. QED BY <1>1, <1>6, <1>7, <1>8, <1>9

LEMMA RefreshFinds ==
    ASSUME Base, FindInv, NEW p \in Procs, Refresh(p) \/ RefreshIgnored(p)
    PROVE  FindInv'
<1> DEFINE c == call[p]
           list == cache'[p].list
           unseen == blind'[p]
<1>1. /\ c.pc = "refresh" /\ UNCHANGED <<now, exists, docs, shown, mine>>
      /\ \/ AsksList(p, TRUE)
         \/ cache' = cache /\ blind' = [blind EXCEPT ![p] = @ \cup {c.name}]
      /\ \E read : call' = [call EXCEPT ![p] = AfterRefresh(p, read)]
  BY DEF Refresh, RefreshIgnored, Becomes, At, solr, AsksList
<1>2. /\ Record(c) /\ c.due \subseteq Ids
      /\ IndexKnows(c, cache[p].list, blind[p], docs, exists)
      /\ SearchKnows(c, cache[p].list, ListStale(p), docs, shown)
      /\ MineKnown(mine[p], cache[p].list, blind[p], docs)
      /\ blind = [r \in Procs |-> blind[r]] /\ mine = [r \in Procs |-> mine[r]]
  BY OwnKnown
<1>3. \A i \in c.due : i \in docs[Home[i]] => Home[i] \in exists
  BY <1>2, HeldExists
<1>4. /\ blind' = [r \in Procs |-> blind'[r]]
      /\ \A r \in Procs \ {p} : cache'[r] = cache[r] /\ blind'[r] = blind[r]
      /\ MineKnown(mine[p], list, unseen, docs)
      /\ GoesOn(c, list, unseen, docs, shown)
  <2>1. CASE AsksList(p, TRUE)
    <3>1. /\ \A n \in exists : n \in list
          /\ \A n \in exists \cup c.ready :
               n \in cache[p].list \cup blind[p] => n \in list \cup unseen
          /\ blind' = [r \in Procs |-> blind'[r]]
          /\ \A r \in Procs \ {p} : cache'[r] = cache[r] /\ blind'[r] = blind[r]
      BY <2>1, AskedKnows
    <3>2. MineKnown(mine[p], list, unseen, docs)
      BY <1>1, <2>1, MineAsked
    <3> HIDE DEF list, unseen, c
    <3>3. ASSUME c.op = "index!", NEW i \in c.due
          PROVE  /\ Home[i] \in c.todo \cup list \cup unseen
                 /\ c.name = Home[i] => Home[i] \in list \cup unseen
                 /\ Home[i] \in c.todo \cup c.ready \/ i \in docs[Home[i]]
      <4>1. /\ Home[i] \in c.todo \cup cache[p].list \cup blind[p]
            /\ Home[i] \in c.todo \cup c.ready \/ i \in docs[Home[i]]
            /\ c.name = Home[i] => Home[i] \in exists
        BY <1>1, <1>2, <3>3 DEF IndexKnows
      <4>. QED BY <1>3, <3>1, <4>1
    <3>4. c.op = "index!" => c.due \subseteq c.ids
      BY <1>2 DEF IndexKnows
    <3>5. GoesOn(c, list, unseen, docs, shown)
      BY <1>2, <1>3, <3>1, <3>3, <3>4 DEF GoesOn, SearchKnows
    <3>. QED BY <3>1, <3>2, <3>5
  <2>2. CASE cache' = cache /\ blind' = [blind EXCEPT ![p] = @ \cup {c.name}]
    <3>1. /\ list = cache[p].list /\ unseen = blind[p] \cup {c.name}
          /\ blind' = [r \in Procs |-> blind'[r]]
          /\ \A r \in Procs \ {p} : cache'[r] = cache[r] /\ blind'[r] = blind[r]
      BY <1>2, <2>2
    <3> HIDE DEF list, unseen, c
    <3>2. MineKnown(mine[p], list, unseen, docs)
      BY <1>2, <3>1 DEF MineKnown
    <3>3. GoesOn(c, list, unseen, docs, shown)
      BY <1>1, <1>2, <3>1 DEF GoesOn, IndexKnows, SearchKnows
    <3>. QED BY <3>1, <3>2, <3>3
  <2>. QED BY <1>1, <2>1, <2>2
<1>5. PICK read : call' = [call EXCEPT ![p] = AfterRefresh(p, read)]
  BY <1>1
<1>6. /\ IndexKnows(AfterRefresh(p, read), list, unseen, docs, exists)
      /\ SearchKnows(AfterRefresh(p, read), list, ListStale(p)', docs, shown)
  <2>1. CASE c.op = "delete_collection"
    <3>1. AfterRefresh(p, read).op = "delete_collection"
      BY <1>2, <2>1 DEF AfterRefresh, Record
    <3>. QED BY <3>1, OthersNeedNothing
  <2>2. CASE c.op # "delete_collection"
    <3>1. AfterRefresh(p, read) = Continued(p, c, read)
      BY <2>2 DEF AfterRefresh
    <3> HIDE DEF list, unseen, c
    <3>. QED BY <1>2, <1>4, <3>1, ContinuedKnows
  <2>. QED BY <2>1, <2>2
<1> HIDE DEF list, unseen
<1>7. ASSUME NEW q, call' = [call EXCEPT ![p] = q],
             IndexKnows(q, list, unseen, docs, exists),
             SearchKnows(q, list, ListStale(p)', docs, shown)
      PROVE  FindInv'
  BY <1>1, <1>2, <1>4, <1>7, OneKnows DEF list, unseen
<1>. QED BY <1>5, <1>6, <1>7

LEMMA SessionFinds ==
    ASSUME Base, FindInv, NEW p \in Procs, Session(p)
    PROVE  FindInv'
<1> DEFINE c == call[p]
<1>1. /\ c.pc = "session" /\ UNCHANGED <<now, exists, docs, shown, blind, mine>>
      /\ cache' = IF NodesStale(p)
                  THEN [cache EXCEPT ![p].nodes = TRUE, ![p].time = now] ELSE cache
      /\ \/ call' = [call EXCEPT ![p] = [c EXCEPT !.pc = "over"]] /\ c.op = "live_nodes"
         \/ call' = [call EXCEPT ![p] = Has(c)]
  BY DEF Session, Becomes, At, solr
<1>2. /\ Record(c) /\ c.due \subseteq Ids
      /\ IndexKnows(c, cache[p].list, blind[p], docs, exists)
      /\ SearchKnows(c, cache[p].list, ListStale(p), docs, shown)
      /\ MineKnown(mine[p], cache[p].list, blind[p], docs)
      /\ blind = [r \in Procs |-> blind[r]] /\ mine = [r \in Procs |-> mine[r]]
  BY OwnKnown
<1>3. cache'[p].list = cache[p].list /\ \A r \in Procs \ {p} : cache'[r] = cache[r]
  BY <1>1 DEF Base, TypeInv, CacheTyped
<1>4. GoesOn(c, cache[p].list, blind[p], docs, shown)
  BY <1>1, <1>2 DEF GoesOn, IndexKnows, SearchKnows
<1>5. ASSUME NEW q, call' = [call EXCEPT ![p] = q],
             IndexKnows(q, cache[p].list, blind[p], docs, exists),
             SearchKnows(q, cache[p].list, ListStale(p)', docs, shown)
      PROVE  FindInv'
  BY <1>1, <1>2, <1>3, <1>5, OneKnows
<1>6. CASE call' = [call EXCEPT ![p] = [c EXCEPT !.pc = "over"]] /\ c.op = "live_nodes"
  <2>1. [c EXCEPT !.pc = "over"].op = "live_nodes"
    BY <1>2, <1>6 DEF Record
  <2> DEFINE q == [c EXCEPT !.pc = "over"]
  <2> HIDE DEF q
  <2>2. q.op \notin {"index!", "search"}
    BY <2>1 DEF q
  <2>3. call' = [call EXCEPT ![p] = q]
    BY <1>6 DEF q
  <2>. QED BY <1>5, <2>2, <2>3, OthersNeedNothing
<1>7. CASE call' = [call EXCEPT ![p] = Has(c)]
  <2>1. /\ IndexKnows(Has(c), cache[p].list, blind[p], docs, exists)
        /\ SearchKnows(Has(c), cache[p].list, ListStale(p)', docs, shown)
    BY <1>2, <1>4, HasKnows
  <2>. QED BY <1>7, <1>5, <2>1
<1>. QED BY <1>1, <1>6, <1>7

LEMMA ListAllFinds ==
    ASSUME Base, FindInv, NEW p \in Procs, ListAll(p)
    PROVE  FindInv'
<1> DEFINE c == [call[p] EXCEPT !.ready = Fresh(p, TRUE)]
           q == Continued(p, c, TRUE)
<1>1. /\ call[p].pc = "list" /\ UNCHANGED <<now, exists, docs, shown, mine>>
      /\ AsksList(p, TRUE) /\ call' = [call EXCEPT ![p] = q]
  BY DEF ListAll, Becomes, At, solr
<1>2. Record(call[p]) /\ call[p].op \in OverAll
  BY <1>1, OwnKnown DEF CallTyped
<1>3. Record(c) /\ c.op = call[p].op
  BY <1>2 DEF Record
<1> HIDE DEF c
<1>4. q.op = c.op
  BY <1>3, ContinuedRecord DEF Continued
<1>5. q.op \notin {"index!", "search"}
  BY <1>2, <1>3, <1>4 DEF OverAll
<1> HIDE DEF q
<1>6. /\ blind' = [r \in Procs |-> blind'[r]]
      /\ \A r \in Procs \ {p} : cache'[r] = cache[r] /\ blind'[r] = blind[r]
      /\ MineKnown(mine[p], cache'[p].list, blind'[p], docs')
  BY <1>1, AskedKnows, MineAsked
<1>. QED BY <1>1, <1>5, <1>6, OwnKnown, OthersNeedNothing, OneKnows

LEMMA SelectFinds ==
    ASSUME Base, FindInv, NEW p \in Procs, Select(p)
    PROVE  FindInv'
<1> DEFINE c == call[p]
           matching == Matching(Fresh(p, FALSE), c.range)
           picked == IF matching = {} THEN {Default} ELSE matching
           q == [c EXCEPT !.picked = picked, !.pc = "execute"]
           list == cache'[p].list
<1>1. /\ c.pc = "select" /\ UNCHANGED <<now, exists, docs, shown, mine>>
      /\ AsksList(p, FALSE) /\ call' = [call EXCEPT ![p] = q]
  BY DEF Select, Becomes, At, solr
<1>2. /\ Fresh(p, FALSE) = list
      /\ \A k \in exists : ListStale(p) \/ k \in cache[p].list => k \in list
      /\ blind' = [r \in Procs |-> blind'[r]]
      /\ \A r \in Procs \ {p} : cache'[r] = cache[r] /\ blind'[r] = blind[r]
      /\ MineKnown(mine[p], list, blind'[p], docs')
  BY <1>1, AskedKnows, MineAsked
<1>3. /\ Record(c) /\ c.due \subseteq Ids
      /\ IndexKnows(c, cache[p].list, blind[p], docs, exists)
      /\ SearchKnows(c, cache[p].list, ListStale(p), docs, shown)
      /\ blind = [r \in Procs |-> blind[r]] /\ mine = [r \in Procs |-> mine[r]]
  BY OwnKnown
<1>4. ASSUME c.op = "search", NEW i \in c.due
      PROVE  /\ InRange(i, c.range) /\ i \in shown[Home[i]] /\ i \in docs[Home[i]]
             /\ Home[i] \in list /\ Home[i] \in picked
  <2>1. /\ InRange(i, c.range) /\ i \in shown[Home[i]] /\ i \in docs[Home[i]]
        /\ Home[i] \in cache[p].list \/ ListStale(p)
    BY <1>3, <1>4 DEF SearchKnows
  <2>2. Home[i] \in exists
    BY <1>3, <2>1, HeldExists
  <2>3. Home[i] \in list
    BY <1>2, <2>1, <2>2
  <2>4. <<Home[i], Month[i]>> \in StartsWith
    BY <1>3, NamesAssumption
  <2>5. Home[i] \in matching
    BY <1>2, <2>1, <2>3, <2>4 DEF Matching, InRange
  <2>. QED BY <2>1, <2>3, <2>5
<1> HIDE DEF picked, list
<1>5. q.op = c.op /\ q.pc = "execute" /\ q.range = c.range /\ q.due = c.due /\ q.picked = picked
  BY <1>3 DEF Record
<1>6. c.op # "index!"
  BY <1>1, <1>3 DEF IndexKnows
<1> HIDE DEF q, c
<1>7. SearchKnows(q, list, ListStale(p)', docs, shown)
  BY <1>4, <1>5 DEF SearchKnows
<1>8. IndexKnows(q, list, blind'[p], docs, exists)
  BY <1>5, <1>6 DEF IndexKnows
<1>9. MineKnown(mine'[p], list, blind'[p], docs') /\ mine' = [r \in Procs |-> mine'[r]]
      /\ \A r \in Procs : mine'[r] = mine[r]
  BY <1>1, <1>2, <1>3
<1>10. /\ IndexKnows(q, list, blind'[p], docs', exists')
       /\ SearchKnows(q, list, ListStale(p)', docs', shown')
  BY <1>1, <1>7, <1>8
<1>. QED BY <1>1, <1>2, <1>9, <1>10, OneKnows DEF list

LEMMA ExecuteFinds ==
    ASSUME Base, FindInv, NEW p \in Procs, Execute(p)
    PROVE  FindInv'
<1> DEFINE c == call[p]
           found == UNION {shown[n] : n \in c.picked}
           q == [c EXCEPT !.found = found, !.pc = "over", !.picked = {}]
<1>1. /\ c.pc = "execute" /\ UNCHANGED <<now, exists, docs, shown, cache, blind, mine>>
      /\ call' = [call EXCEPT ![p] = q]
  BY DEF Execute, Becomes, At, solr
<1>2. /\ Record(c)
      /\ IndexKnows(c, cache[p].list, blind[p], docs, exists)
      /\ SearchKnows(c, cache[p].list, ListStale(p), docs, shown)
      /\ MineKnown(mine[p], cache[p].list, blind[p], docs)
      /\ blind = [r \in Procs |-> blind[r]] /\ mine = [r \in Procs |-> mine[r]]
  BY OwnKnown
<1>3. ASSUME c.op = "search", NEW i \in c.due
      PROVE  /\ InRange(i, c.range) /\ i \in shown[Home[i]] /\ i \in docs[Home[i]]
             /\ Home[i] \in cache[p].list /\ i \in found
  BY <1>1, <1>2, <1>3 DEF SearchKnows
<1> HIDE DEF found
<1>5. q.op = c.op /\ q.pc = "over" /\ q.range = c.range /\ q.due = c.due /\ q.found = found
  BY <1>2 DEF Record
<1>6. c.op # "index!"
  BY <1>1, <1>2 DEF IndexKnows
<1>7. ListStale(p)' = ListStale(p)
  BY <1>1 DEF ListStale, Expired
<1> HIDE DEF q, c
<1>8. SearchKnows(q, cache[p].list, ListStale(p), docs, shown)
  BY <1>3, <1>5 DEF SearchKnows
<1>9. IndexKnows(q, cache[p].list, blind[p], docs, exists)
  BY <1>5, <1>6 DEF IndexKnows
<1>. QED BY <1>1, <1>2, <1>7, <1>8, <1>9, OneKnows

\* An update takes no object from anybody who still has to find it.
LEMMA UpdateFinds ==
    ASSUME Base, FindInv, NEW p \in Procs, NEW n \in Names, Update(p, n)
    PROVE  FindInv'
<1> DEFINE c == call[p]
           op == c.op
           ids == Group(p, n)
           x == ids \cap {i \in Ids : Home[i] = n}
           d == Disturbed(op, x)
<1>1. /\ c.pc = "send" /\ (Adds(op) \/ Removes(op))
      /\ docs' = [docs EXCEPT ![n] = IF Adds(op) THEN @ \cup ids ELSE @ \ ids]
      /\ call' = Sent(p, n, d)
      /\ mine' = IF Removes(op) THEN [r \in Procs |-> mine[r] \ ids] ELSE mine
      /\ UNCHANGED <<now, exists, shown, cache, blind>>
  BY DEF Update, At
<1>2. Adds(op) <=> ~Removes(op)
  BY <1>1 DEF Adds, Removes
<1>3. /\ d = [r \in Procs |-> d[r]]
      /\ \A r \in Procs : d[r] = IF \/ Removes(op) /\ call[r].op # "remove_all"
                                    \/ Adds(op) /\ call[r].op = "remove_all"
                                 THEN [call[r] EXCEPT !.due = @ \ x] ELSE call[r]
  BY DEF Disturbed
<1>4. \A r \in Procs : Record(call[r]) /\ call[r].due \subseteq Ids
  BY DEF Base, TypeInv, CallsTyped, CallTyped
<1>5. blind = [r \in Procs |-> blind[r]] /\ mine = [r \in Procs |-> mine[r]]
      /\ \A r \in Procs : Knows(r)
  BY DEF FindInv
<1>6. ASSUME NEW i \in Ids, i \in docs[Home[i]], Removes(op) => i \notin x
      PROVE  i \in docs'[Home[i]]
  BY <1>1, <1>6 DEF Base, TypeInv, SolrTyped
<1>7. mine' = [r \in Procs |-> mine'[r]] /\ blind' = [r \in Procs |-> blind'[r]]
      /\ \A r \in Procs : /\ mine'[r] \subseteq mine[r]
                          /\ Removes(op) => mine'[r] \cap ids = {}
  BY <1>1, <1>5
<1>8. ASSUME NEW r \in Procs, NEW i \in mine'[r], i \in docs[Home[i]]
      PROVE  i \in docs'[Home[i]]
  <2>1. i \in Ids
    BY <1>5, <1>7, <1>8 DEF Knows, MineKnown
  <2>. QED BY <1>6, <1>7, <1>8, <2>1
<1>9. ListStale(p)' = ListStale(p) /\ \A r \in Procs : ListStale(r) => ListStale(r)'
  BY <1>1 DEF ListStale, Expired
<1>10. ASSUME NEW r \in Procs, r # p
       PROVE  Knows(r)'
  <2>1. call'[r] = d[r]
    BY <1>1, <1>3, <1>10 DEF Sent
  <2> DEFINE e == [call[r] EXCEPT !.due = @ \ x]
  <2>2. SameCall(call[r], e) /\ e.due = call[r].due \ x
    <3> HIDE DEF x
    <3>. QED BY <1>4 DEF SameCall, Record
  <2>3. SameCall(call[r], call[r])
    BY DEF SameCall
  <2> HIDE DEF d, e
  <2>4. SameCall(call[r], call'[r])
    BY <1>3, <2>1, <2>2, <2>3 DEF e
  <2>5. ASSUME call[r].op \in {"index!", "search"}, NEW i \in call'[r].due
        PROVE  i \in docs[Home[i]] => i \in docs'[Home[i]]
    <3>1. Removes(op) => call'[r].due = call[r].due \ x
      <4>1. ASSUME Removes(op) PROVE call'[r] = e
        BY <1>3, <2>1, <2>5, <4>1 DEF e
      <4>. QED BY <2>2, <4>1
    <3>2. i \in Ids
      BY <1>4, <2>4, <2>5 DEF SameCall
    <3>. QED BY <1>6, <2>5, <3>1, <3>2
  <2>. QED BY <1>1, <1>5, <1>7, <1>8, <1>9, <2>4, <2>5, StillKnows
<1>11. Knows(p)'
  <2> DEFINE q == call'[p]
  <2>1. q = IF op \in {"index!", "remove!"} THEN [d[p] EXCEPT !.pc = "commit", !.name = n]
            ELSE Without(n, d[p])
    BY <1>1, <1>3 DEF Sent
  <2>2. Record(d[p]) /\ d[p].op = op
    BY <1>3, <1>4 DEF Record
  <2>3. q.op = op
    <3>1. Without(n, d[p]).op = op
      BY <2>2 DEF Without, Record
    <3>2. [d[p] EXCEPT !.pc = "commit", !.name = n].op = op
      BY <2>2 DEF Record
    <3>. QED BY <2>1, <3>1, <3>2
  <2>4. MineKnown(mine'[p], cache[p].list, blind[p], docs')
    BY <1>5, <1>7, <1>8 DEF Knows, MineKnown
  <2>5. CASE op # "index!"
    <3>1. op # "search"
      BY <1>1 DEF Adds, Removes
    <3>2. /\ IndexKnows(q, cache'[p].list, blind'[p], docs', exists')
          /\ SearchKnows(q, cache'[p].list, ListStale(p)', docs', shown')
      BY <2>3, <2>5, <3>1, OthersNeedNothing
    <3>. QED BY <1>1, <2>4, <3>2 DEF Knows
  <2>6. CASE op = "index!"
    <3>1. Adds(op) /\ d[p] = c
      BY <1>2, <1>3, <2>6 DEF Adds
    <3>2. /\ q.op = "index!" /\ q.pc = "commit" /\ q.name = n /\ q.ids = c.ids
          /\ q.todo = c.todo /\ q.ready = c.ready /\ q.due = c.due
      BY <1>4, <2>1, <2>6, <3>1 DEF Record
    <3>3. IndexKnows(c, cache[p].list, blind[p], docs, exists) /\ c.due \subseteq Ids
      BY <1>4, <1>5 DEF Knows
    <3>4. ASSUME NEW i \in c.due
          PROVE  /\ i \in docs[Home[i]] => i \in docs'[Home[i]]
                 /\ Home[i] = n => i \in docs'[n]
      <4>1. i \in c.ids /\ i \in Ids
        BY <1>4, <2>6, <3>3, <3>4 DEF IndexKnows
      <4>2. Home[i] = n => i \in ids
        BY <2>6, <4>1 DEF Group
      <4>3. docs'[n] = docs[n] \cup ids
        BY <1>1, <3>1 DEF Base, TypeInv, SolrTyped
      <4>4. i \in docs[Home[i]] => i \in docs'[Home[i]]
        BY <1>2, <1>6, <3>1, <4>1
      <4>. QED BY <4>2, <4>3, <4>4
    <3>5. c.op = "index!" /\ c.pc = "send"
      BY <1>1, <2>6
    <3> HIDE DEF q, c
    <3>6. IndexKnows(q, cache[p].list, blind[p], docs', exists)
      <4>2. c.todo = {} /\ c.due \subseteq c.ids
        BY <3>3, <3>5 DEF IndexKnows
      <4>3. ASSUME NEW i \in c.due
            PROVE  /\ Home[i] \in c.todo \cup cache[p].list \cup blind[p]
                   /\ Home[i] \in c.todo \cup c.ready \/ i \in docs'[Home[i]]
                   /\ n = Home[i] => i \in docs'[Home[i]]
        BY <3>3, <3>4, <3>5, <4>3 DEF IndexKnows
      <4>. QED BY <3>2, <4>2, <4>3 DEF IndexKnows
    <3>7. SearchKnows(q, cache[p].list, ListStale(p)', docs', shown)
      BY <3>2 DEF SearchKnows
    <3>. QED BY <1>1, <2>4, <3>6, <3>7 DEF Knows, q
  <2>. QED BY <2>5, <2>6
<1>. QED BY <1>7, <1>10, <1>11 DEF FindInv

\* A request for one collection that has been made, or is not needed.
LEMMA WithoutKnows ==
    ASSUME NEW n, NEW c, Record(c),
           c.op \in {"index!", "search"} => c.op = "index!" /\ c.pc = "commit" /\ c.name = n,
           NEW list, NEW unseen, NEW stale, NEW D, NEW S, NEW E,
           IndexKnows(c, list, unseen, D, E)
    PROVE  /\ IndexKnows(Without(n, c), list, unseen, D, E)
           /\ SearchKnows(Without(n, c), list, stale, D, S)
<1> DEFINE q == Without(n, c)
<1>1. /\ q.op = c.op /\ q.due = c.due /\ q.ids = c.ids /\ q.todo = c.todo
      /\ q.ready = c.ready \ {n} /\ q.name = Default
      /\ q.pc = IF c.ready \subseteq {n} THEN "over" ELSE "send"
  BY DEF Without, Record
<1> HIDE DEF q
<1>2. q.pc = "over" => q.ready = {}
  BY <1>1
<1>3. q.pc \in {"send", "over"}
  BY <1>1
<1>4. IndexKnows(q, list, unseen, D, E)
  <2> SUFFICES ASSUME c.op = "index!" PROVE IndexKnows(q, list, unseen, D, E)
    BY <1>1 DEF IndexKnows
  <2>1. ASSUME NEW i \in c.due
        PROVE  /\ Home[i] \in q.todo \cup list \cup unseen
               /\ Home[i] \in q.todo \cup q.ready \/ i \in D[Home[i]]
    BY <1>1, <2>1 DEF IndexKnows
  <2>2. q.todo = {} /\ q.due \subseteq q.ids
    BY <1>1 DEF IndexKnows
  <2>. QED BY <1>1, <1>2, <1>3, <2>1, <2>2 DEF IndexKnows
<1>5. SearchKnows(q, list, stale, D, S)
  BY <1>1 DEF SearchKnows
<1>. QED BY <1>4, <1>5 DEF q

LEMMA CommitsFind ==
    ASSUME Base, FindInv, NEW p \in Procs, NEW n,
           CommitCollection(p, n) \/ SkipCommit(p, n) \/ (CommitUpdate(p) /\ n = call[p].name)
    PROVE  FindInv'
<1> DEFINE c == call[p]
           q == Without(n, c)
<1>1. /\ call' = [call EXCEPT ![p] = q]
      /\ UNCHANGED <<now, exists, docs, cache, blind, mine>>
      /\ shown' \in {shown, [shown EXCEPT ![n] = docs[n]]}
      /\ c.op \in {"index!", "search"} => c.pc = "commit" /\ c.name = n
  BY DEF CommitCollection, SkipCommit, CommitUpdate, Becomes, solr, At
<1>2. /\ Record(c)
      /\ IndexKnows(c, cache[p].list, blind[p], docs, exists)
      /\ SearchKnows(c, cache[p].list, ListStale(p), docs, shown)
      /\ MineKnown(mine[p], cache[p].list, blind[p], docs)
      /\ blind = [r \in Procs |-> blind[r]] /\ mine = [r \in Procs |-> mine[r]]
  BY OwnKnown
<1>3. c.op # "search"
  BY <1>1, <1>2 DEF SearchKnows
<1>4. \A i \in Ids : i \in shown[Home[i]] /\ i \in docs[Home[i]] => i \in shown'[Home[i]]
  BY <1>1, HomesAreNames DEF Base, TypeInv, SolrTyped
<1> HIDE DEF c
<1>5. /\ IndexKnows(q, cache[p].list, blind[p], docs, exists)
      /\ SearchKnows(q, cache[p].list, ListStale(p)', docs, shown')
  BY <1>1, <1>2, <1>3, WithoutKnows
<1> HIDE DEF q
<1>. QED BY <1>1, <1>2, <1>4, <1>5, OneKnows

\* Whoever has to find what is deleted need not find it any more.
LEMMA DeleteFinds ==
    ASSUME Base, FindInv, NEW p \in Procs, DeleteCollection(p)
    PROVE  FindInv'
<1> DEFINE c == CHOOSE name \in call[p].range : TRUE
           held == {i \in Ids : Home[i] = c}
<1>1. /\ call[p].pc = "delete" /\ c \in exists /\ exists' = exists \ {c}
      /\ docs' = [docs EXCEPT ![c] = {}] /\ shown' = [shown EXCEPT ![c] = {}]
      /\ mine' = [r \in Procs |-> mine[r] \ held]
      /\ call' = [r \in Procs |->
             IF r = p THEN [call[r] EXCEPT !.pc = "refresh", !.name = c]
             ELSE [call[r] EXCEPT !.due = @ \ held]]
      /\ UNCHANGED <<now, cache, blind>>
  BY DEF DeleteCollection, At
<1> HIDE DEF c
<1>2. \A r \in Procs : Record(call[r]) /\ call[r].due \subseteq Ids
  BY DEF Base, TypeInv, CallsTyped, CallTyped
<1>3. blind = [r \in Procs |-> blind[r]] /\ \A r \in Procs : Knows(r)
  BY DEF FindInv
<1>4. ASSUME NEW i \in Ids, i \notin held
      PROVE  /\ docs'[Home[i]] = docs[Home[i]] /\ shown'[Home[i]] = shown[Home[i]]
             /\ Home[i] \in exists => Home[i] \in exists'
  <2>1. Home[i] # c /\ Home[i] \in Names
    BY <1>4, HomesAreNames
  <2>2. DOMAIN docs = Names /\ DOMAIN shown = Names
    BY DEF Base, TypeInv, SolrTyped
  <2> HIDE DEF held
  <2>. QED BY <1>1, <2>1, <2>2
<1>5. \A r \in Procs : ListStale(r) => ListStale(r)'
  BY <1>1 DEF ListStale, Expired
<1>6. ASSUME NEW r \in Procs
      PROVE  /\ mine'[r] \subseteq mine[r]
             /\ \A i \in mine'[r] : i \in docs[Home[i]] => i \in docs'[Home[i]]
  <2>1. mine'[r] = mine[r] \ held /\ mine[r] \subseteq Ids
    BY <1>1, <1>3 DEF Knows, MineKnown
  <2> HIDE DEF held
  <2>. QED BY <1>4, <2>1
<1>7. ASSUME NEW r \in Procs, r # p
      PROVE  Knows(r)'
  <2>1. SameCall(call[r], call'[r]) /\ call'[r].due = call[r].due \ held
    BY <1>1, <1>2, <1>7 DEF SameCall, Record
  <2>2. ASSUME NEW i \in call'[r].due
        PROVE  /\ docs'[Home[i]] = docs[Home[i]] /\ shown'[Home[i]] = shown[Home[i]]
               /\ Home[i] \in exists => Home[i] \in exists'
    <3>1. i \in Ids /\ i \notin held
      BY <1>2, <2>1, <2>2
    <3>. QED BY <1>4, <3>1
  <2>. QED BY <1>1, <1>3, <1>5, <1>6, <2>1, <2>2, StillKnows
<1>8. Knows(p)'
  <2>1. call[p].op = "delete_collection"
    BY <1>1 DEF Base, TypeInv, CallsTyped, CallTyped
  <2>2. call'[p].op = "delete_collection"
    BY <1>1, <1>2, <2>1 DEF Record
  <2>3. /\ IndexKnows(call'[p], cache'[p].list, blind'[p], docs', exists')
        /\ SearchKnows(call'[p], cache'[p].list, ListStale(p)', docs', shown')
    BY <2>2, OthersNeedNothing
  <2>4. MineKnown(mine'[p], cache'[p].list, blind'[p], docs')
    BY <1>1, <1>3, <1>6 DEF Knows, MineKnown
  <2>. QED BY <2>3, <2>4 DEF Knows
<1>9. mine' = [r \in Procs |-> mine'[r]] /\ blind' = [r \in Procs |-> blind'[r]]
  BY <1>1, <1>3
<1>. QED BY <1>7, <1>8, <1>9 DEF FindInv

LEMMA TickFinds ==
    ASSUME Base, FindInv, Tick \/ UNCHANGED vars
    PROVE  FindInv'
<1>1. /\ UNCHANGED <<exists, docs, shown, cache, call, mine, blind>>
      /\ now' = now \/ now' = now + 1
  BY DEF Tick, vars, solr
<1>2. ASSUME NEW p \in Procs
      PROVE  Knows(p)'
  <2>1. cache[p].time \in Nat /\ now \in Nat /\ ExpiresIn \in Nat
    BY BoundsAssumption DEF Base, TypeInv, CacheTyped
  <2>2. Expired(p) => Expired(p)'
    BY <1>1, <2>1 DEF Expired
  <2>3. ListStale(p) => ListStale(p)'
    BY <1>1, <2>2 DEF ListStale
  <2>4. SameCall(call[p], call'[p])
    BY <1>1 DEF SameCall
  <2>. QED BY <1>1, <2>3, <2>4, StillKnows DEF FindInv
<1>. QED BY <1>1, <1>2 DEF FindInv

LEMMA FindStep == Base /\ FindInv /\ [Next]_vars => FindInv'
<1> SUFFICES ASSUME Base, FindInv, [Next]_vars PROVE FindInv'
  OBVIOUS
<1>1. CASE Tick \/ UNCHANGED vars
  BY <1>1, TickFinds
<1>2. ASSUME NEW p \in Procs, Proceed(p)
      PROVE  FindInv'
  BY <1>2, ResolveFinds, UpdateFinds, CommitsFind, CreateFinds, RefreshFinds, SessionFinds,
     ListAllFinds, EndsFind, SelectFinds, ExecuteFinds, DeleteFinds DEF Proceed
<1>3. ASSUME NEW p \in Procs, NEW op, NEW ids, NEW range, Begin(p, op, ids, range)
      PROVE  FindInv'
  BY <1>3, BeginFinds
<1>. QED BY <1>1, <1>2, <1>3 DEF Next

LEMMA FindStart == Init => FindInv
<1> SUFFICES ASSUME Init PROVE FindInv
  OBVIOUS
<1>1. NoCall.op \notin {"index!", "search"}
  BY DEF NoCall
<1>2. ASSUME NEW p \in Procs
      PROVE  Knows(p)
  <2>1. call[p] = NoCall /\ mine[p] = {}
    BY DEF Init
  <2>. QED BY <1>1, <2>1, OthersNeedNothing DEF Knows, MineKnown
<1>. QED BY <1>2 DEF Init, FindInv

\* A search finds all its own process has published in the range and, when the
\* list had expired as it began, all anybody had; the list of a process misses
\* no collection it has published to but those its calls went on with unlisted.
THEOREM SearchesFind == Spec => []SearchFinds
<1>1. ReachInv => DocumentsHaveHomes
  BY DEF ReachInv
<1>2. FindInv => SearchFinds
  <2> SUFFICES ASSUME FindInv, NEW p \in Procs, call[p].op = "search", call[p].pc = "over",
                      NEW i \in call[p].due
               PROVE  i \in call[p].found
    BY DEF SearchFinds, At
  <2>. QED BY DEF FindInv, Knows, SearchKnows
<1>3. Base <=> TypeInv /\ DocumentsHaveHomes
  BY DEF Base
<1>. QED BY <1>1, <1>2, <1>3, FindStart, FindStep, TypeInductive, ReachInductive, PTL DEF Spec
=============================================================================
