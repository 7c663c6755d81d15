--------------------------- MODULE SessionProofs ---------------------------
(***************************************************************************)
(* Theorems about Session, for any sessions, calls, batch blocks and       *)
(* failures: the counters, the contract of the public API (IndexContract), *)
(* that no document is lost or sent twice and a batch stays whole; and,    *)
(* for a core with one writer, that the last write is kept and that a      *)
(* session that is not dirty has published everything.                     *)
(***************************************************************************)
EXTENDS Session, SequenceTheorems, WellFoundedInduction, TLAPS

-----------------------------------------------------------------------------
(* Lemmas about the operators.                                             *)

\* A non-empty set of numbers up to a bound has a greatest element.
LEMMA MaxExists ==
    ASSUME NEW n \in Nat, NEW S, S \subseteq 1 .. n, S # {}
    PROVE  \E i \in S : \A j \in S : j <= i
<1> DEFINE T == {n - i : i \in S}
<1>1. T \subseteq Nat /\ T # {}
  <2>1. \A i \in S : i \in Int /\ n - i \in Nat
    OBVIOUS
  <2>2. PICK i \in S : TRUE
    OBVIOUS
  <2>3. n - i \in T
    BY <2>2
  <2>. QED BY <2>1, <2>3
<1>2. PICK x \in T : \A y \in T : ~ (<<y, x>> \in OpToRel(<, Nat))
  BY <1>1, NatLessThanWellFounded, WFMin
<1>3. \A y \in T : ~ (y < x)
  BY <1>1, <1>2 DEF OpToRel
<1>4. PICK i \in S : x = n - i
  OBVIOUS
<1>5. \A j \in S : j <= i
  BY <1>3, <1>4
<1>. QED BY <1>5

\* An add request leaves a version, or 0, for every key.
LEMMA OverwrittenType ==
    ASSUME core \in [Keys -> Nat], NEW docs \in Seq(Docs)
    PROVE  Core!Overwritten(docs) \in [Keys -> Nat]
<1> SUFFICES ASSUME NEW k \in Keys, Core!At(docs, k) # {}
             PROVE  docs[CHOOSE i \in Core!At(docs, k) :
                            \A j \in Core!At(docs, k) : j <= i].at \in Nat
  BY DEF Core!Overwritten
<1>1. Core!At(docs, k) \subseteq 1 .. Len(docs) /\ Len(docs) \in Nat
  BY LenProperties DEF Core!At
<1>2. \E i \in Core!At(docs, k) : \A j \in Core!At(docs, k) : j <= i
  BY <1>1, MaxExists
<1>3. PICK i \in 1 .. Len(docs) :
         i = CHOOSE m \in Core!At(docs, k) : \A j \in Core!At(docs, k) : j <= m
  BY <1>1, <1>2
<1>4. docs[i] \in Docs
  BY ElementOfSeq
<1>. QED BY <1>3, <1>4 DEF Docs, Core!Docs

\* The arguments of a call are a sequence of ids.
LEMMA ListType ==
    ASSUME NEW list \in Lists
    PROVE  /\ list \in Seq(Keys)
           /\ Len(list) \in Nat
           /\ DOMAIN list = 1 .. Len(list)
           /\ \A i \in 1 .. Len(list) : list[i] \in Keys
<1>1. PICK n \in 0 .. MaxArgs : list \in [1 .. n -> Keys]
  BY DEF Lists
<1>2. n \in Nat
  BY <1>1, BoundsAssumption
<1>3. list \in Seq(Keys)
  BY <1>1, <1>2, SeqDef
<1>. QED BY <1>3, LenProperties, ElementOfSeq

\* What is prepared for a call is one document per argument.
LEMMA PreparedType ==
    ASSUME NEW list \in Lists, clock \in Nat
    PROVE  Prepared(list) \in Seq(Docs)
<1>1. /\ Len(list) \in Nat
      /\ DOMAIN list = 1 .. Len(list)
      /\ \A i \in 1 .. Len(list) : list[i] \in Keys
  BY ListType
<1>2. Prepared(list) \in [1 .. Len(list) -> Docs]
  BY <1>1 DEF Prepared, Docs, Core!Docs
<1>. QED BY <1>1, <1>2, SeqDef

LEMMA RequestTypes ==
    /\ CommitRequest \in Requests
    /\ \A docs \in Seq(Docs) : AddRequest(docs) \in Requests
    /\ \A ids \in SUBSET Keys : DeleteRequest(ids) \in Requests
<1>1. << >> \in Seq(Docs)
  BY EmptySeq
<1>. QED BY <1>1 DEF Requests, CommitRequest, AddRequest, DeleteRequest

LEMMA RemoveRequestsType ==
    ASSUME NEW list \in Lists
    PROVE  /\ RemoveRequests(list) \in Seq(Requests)
           /\ RemoveRequests(list) \o <<CommitRequest>> \in Seq(Requests)
<1>1. /\ Len(list) \in Nat
      /\ DOMAIN list = 1 .. Len(list)
      /\ \A i \in 1 .. Len(list) : list[i] \in Keys
  BY ListType
<1>2. RemoveRequests(list) \in [1 .. Len(list) -> Requests]
  BY <1>1, RequestTypes DEF RemoveRequests
<1>3. RemoveRequests(list) \in Seq(Requests)
  BY <1>1, <1>2, SeqDef
<1>4. <<CommitRequest>> \in Seq(Requests)
  BY RequestTypes
<1>. QED BY <1>3, <1>4, ConcatProperties

LEMMA RemoveAllType ==
    ASSUME NEW classes \in RemoveAllArgs
    PROVE  /\ Len(classes) \in Nat
           /\ DOMAIN classes = 1 .. Len(classes)
           /\ Len(classes) > 0
           /\ RemoveAllRequests(classes) \in Seq(Requests)
           /\ RemoveAllRequests(classes) \o <<CommitRequest>> \in Seq(Requests)
<1>1. PICK n \in Nat : n > 0 /\ classes \in [1 .. n -> SUBSET Keys]
  <2>1. CASE classes = <<Keys>>
    BY <2>1
  <2>2. CASE classes \in UNION {[1 .. n -> Types] : n \in 1 .. MaxArgs}
    BY <2>2, BoundsAssumption, TypesAssumption
  <2>. QED BY <2>1, <2>2 DEF RemoveAllArgs
<1>2. classes \in Seq(SUBSET Keys)
  BY <1>1, SeqDef
<1>3. Len(classes) = n /\ DOMAIN classes = 1 .. n
  BY <1>1, <1>2, LenProperties
<1>4. RemoveAllRequests(classes) \in [1 .. n -> Requests]
  BY <1>1, <1>3, RequestTypes DEF RemoveAllRequests
<1>5. RemoveAllRequests(classes) \in Seq(Requests)
  BY <1>1, <1>4, SeqDef
<1>6. <<CommitRequest>> \in Seq(Requests)
  BY RequestTypes
<1>. QED BY <1>1, <1>3, <1>5, <1>6, ConcatProperties
-----------------------------------------------------------------------------
(* Type correctness.                                                       *)

LEMMA TypeInit == Init => TypeOK
<1>1. << >> \in Seq(Seq(Docs)) /\ << >> \in Seq(Requests)
  BY EmptySeq
<1>. QED BY <1>1 DEF Init, TypeOK, Core!SolrInit, Core!SolrTypeOK

\* The stack operators keep a stack a stack, and their effect on its depth.
LEMMA StackTypes ==
    ASSUME NEW st \in Seq(Seq(Docs))
    PROVE  /\ start_new(st) \in Seq(Seq(Docs))
           /\ Len(start_new(st)) = Len(st) + 1
           /\ \A i \in 1 .. Len(st) : start_new(st)[i] = st[i]
           /\ start_new(st)[Len(st) + 1] = << >>
           /\ st # << >> =>
                /\ current(st) \in Seq(Docs)
                /\ end_current(st) \in Seq(Seq(Docs))
                /\ Len(end_current(st)) = Len(st) - 1
                /\ \A i \in 1 .. Len(st) - 1 : end_current(st)[i] = st[i]
<1>1. << >> \in Seq(Docs)
  BY EmptySeq
<1>2. Len(st) \in Nat /\ (st # << >> => Len(st) \in Nat \ {0})
  BY LenProperties, EmptySeq
<1>3. ASSUME st # << >>
      PROVE  current(st) \in Seq(Docs)
  BY <1>2, <1>3, ElementOfSeq DEF current
<1>4. ASSUME st # << >>
      PROVE  /\ end_current(st) \in Seq(Seq(Docs))
             /\ Len(end_current(st)) = Len(st) - 1
             /\ \A i \in 1 .. Len(st) - 1 : end_current(st)[i] = st[i]
  <2> DEFINE n == Len(st) - 1
  <2>1. n \in Nat /\ \A i \in 1 .. n : st[i] \in Seq(Docs)
    BY <1>2, <1>4, ElementOfSeq
  <2>2. /\ SubSeq(st, 1, n) \in Seq(Seq(Docs))
        /\ Len(SubSeq(st, 1, n)) = IF 1 <= n THEN n - 1 + 1 ELSE 0
        /\ \A i \in 1 .. n - 1 + 1 : SubSeq(st, 1, n)[i] = st[1 + i - 1]
    <3>. HIDE DEF n
    <3>. QED BY <2>1, SubSeqProperties
  <2>3. Len(SubSeq(st, 1, n)) = n
    <3>. HIDE DEF n
    <3>1. (IF 1 <= n THEN n - 1 + 1 ELSE 0) = n
      BY <2>1
    <3>. QED BY <2>2, <3>1
  <2>4. \A i \in 1 .. n : SubSeq(st, 1, n)[i] = st[i]
    <3>. HIDE DEF n
    <3>1. \A i \in 1 .. n : i \in 1 .. n - 1 + 1 /\ 1 + i - 1 = i
      BY <2>1
    <3>. QED BY <2>2, <3>1
  <2>5. end_current(st) = SubSeq(st, 1, n)
    BY DEF end_current
  <2>. QED BY <2>2, <2>3, <2>4, <2>5
<1>. QED BY <1>1, <1>2, <1>3, <1>4, AppendProperties DEF start_new

LEMMA ConcatType ==
    ASSUME NEW st \in Seq(Seq(Docs)), batching(st), NEW docs \in Seq(Docs)
    PROVE  /\ concat(st, docs) \in Seq(Seq(Docs))
           /\ Len(concat(st, docs)) = Len(st)
           /\ \A i \in 1 .. Len(st) :
                 concat(st, docs)[i] = IF i = Len(st) THEN st[i] \o docs ELSE st[i]
<1>1. Len(st) \in Nat /\ Len(st) \in 1 .. Len(st)
  BY LenProperties DEF batching, depth
<1>2. st[Len(st)] \in Seq(Docs)
  BY <1>1, ElementOfSeq
<1>3. st[Len(st)] \o docs \in Seq(Docs)
  BY <1>2, ConcatProperties
<1>4. concat(st, docs) = [st EXCEPT ![Len(st)] = st[Len(st)] \o docs]
  BY DEF concat
<1>. QED BY <1>1, <1>3, <1>4, ExceptSeq

LEMMA UnwindType ==
    ASSUME TypeOK, NEW s \in Sessions, Unwind(s)
    PROVE  /\ todo' \in [Sessions -> Seq(Requests)]
           /\ blocks' \in [Sessions -> Nat]
<1>1. << >> \in Seq(Requests)
  BY EmptySeq
<1>. QED BY <1>1 DEF Unwind, TypeOK

LEMMA AddDocumentsType ==
    ASSUME TypeOK, NEW s \in Sessions, NEW list \in Lists,
           NEW after \in Seq(Requests), clock' = clock + 1,
           AddDocuments(s, list, after)
    PROVE  TypeOK'
<1> DEFINE docs == Prepared(list)
<1>1. /\ docs \in Seq(Docs)
      /\ \A i \in DOMAIN docs : docs[i] \in Docs
  BY PreparedType, LenProperties, ElementOfSeq DEF TypeOK
<1>2. Len(list) \in Nat
  BY ListType
<1>3. adds' \in [Sessions -> Nat]
  BY <1>2 DEF AddDocuments, TypeOK
<1>4. accepted' \subseteq Docs
  BY <1>1 DEF AddDocuments, TypeOK
<1>5. wanted' \in [Keys -> Nat]
  BY DEF AddDocuments, TypeOK
<1>6. /\ stack' \in [Sessions -> Seq(Seq(Docs))]
      /\ todo' \in [Sessions -> Seq(Requests)]
  <2>1. CASE batching(stack[s])
    <3>1. concat(stack[s], docs) \in Seq(Seq(Docs))
      BY <1>1, <2>1, ConcatType DEF TypeOK
    <3>. QED BY <2>1, <3>1 DEF AddDocuments, TypeOK
  <2>2. CASE ~ batching(stack[s])
    <3>1. <<AddRequest(docs)>> \in Seq(Requests)
      BY <1>1, RequestTypes
    <3>2. <<AddRequest(docs)>> \o after \in Seq(Requests)
      BY <3>1, ConcatProperties
    <3>. QED BY <2>2, <3>2 DEF AddDocuments, TypeOK
  <2>. QED BY <2>1, <2>2
<1>. QED
  BY <1>3, <1>4, <1>5, <1>6 DEF AddDocuments, TypeOK, solr, Core!SolrTypeOK

LEMMA DeleteDocumentsType ==
    ASSUME TypeOK, NEW s \in Sessions, NEW n \in Nat, NEW ids,
           NEW requests \in Seq(Requests), clock' = clock + 1,
           DeleteDocuments(s, n, ids, requests)
    PROVE  TypeOK'
BY DEF DeleteDocuments, TypeOK, solr, Core!SolrTypeOK

LEMMA JustCommitType ==
    ASSUME TypeOK, NEW s \in Sessions, clock' = clock + 1, JustCommit(s)
    PROVE  TypeOK'
<1>1. <<CommitRequest>> \in Seq(Requests)
  BY RequestTypes
<1>. QED BY <1>1 DEF JustCommit, TypeOK, solr, history, Core!SolrTypeOK

\* What a request leaves when the session is at its head.
LEMMA ReturnsType ==
    ASSUME TypeOK, NEW s \in Sessions, todo[s] # << >>,
           NEW outcome, Returns(s, outcome)
    PROVE  /\ todo' \in [Sessions -> Seq(Requests)]
           /\ blocks' \in [Sessions -> Nat]
           /\ Head(todo[s]) \in Requests
<1>1. Head(todo[s]) \in Requests /\ Tail(todo[s]) \in Seq(Requests)
  BY HeadTailProperties DEF TypeOK
<1>2. CASE outcome = "ok"
  BY <1>1, <1>2 DEF Returns, TypeOK
<1>3. CASE outcome # "ok"
  BY <1>1, <1>3, UnwindType DEF Returns
<1>. QED BY <1>2, <1>3

LEMMA SendAddType ==
    ASSUME TypeOK, NEW s \in Sessions, NEW outcome, SendAdd(s, outcome)
    PROVE  TypeOK'
<1> DEFINE docs == Head(todo[s]).docs
<1>1. /\ todo' \in [Sessions -> Seq(Requests)]
      /\ blocks' \in [Sessions -> Nat]
      /\ Head(todo[s]) \in Requests
  BY ReturnsType DEF SendAdd, Sending
<1>2. docs \in Seq(Docs) /\ \A i \in DOMAIN docs : docs[i] \in Docs
  BY <1>1, LenProperties, ElementOfSeq DEF Requests
<1>3. Core!SolrTypeOK'
  <2>1. Core!Overwritten(docs) \in [Keys -> Nat]
    BY <1>2, OverwrittenType DEF TypeOK, Core!SolrTypeOK
  <2>2. CASE outcome = "refused"
    BY <2>2 DEF SendAdd, TypeOK, solr, Core!SolrTypeOK
  <2>3. CASE outcome # "refused"
    BY <2>1, <2>3 DEF SendAdd, TypeOK, Core!SolrTypeOK, Core!SolrAdd
  <2>. QED BY <2>2, <2>3
<1>. QED BY <1>1, <1>2, <1>3 DEF SendAdd, TypeOK

LEMMA SendDeleteType ==
    ASSUME TypeOK, NEW s \in Sessions, NEW outcome, SendDelete(s, outcome)
    PROVE  TypeOK'
<1>1. /\ todo' \in [Sessions -> Seq(Requests)]
      /\ blocks' \in [Sessions -> Nat]
  BY ReturnsType DEF SendDelete, Sending
<1>2. Core!SolrTypeOK'
  <2>1. CASE outcome = "refused"
    BY <2>1 DEF SendDelete, TypeOK, solr, Core!SolrTypeOK
  <2>2. CASE outcome # "refused"
    <3>1. Core!SolrDelete(s, Head(todo[s]).ids)
      BY <2>2 DEF SendDelete
    <3>2. core' \in [Keys -> Nat]
      BY <3>1 DEF Core!SolrDelete, TypeOK, Core!SolrTypeOK
    <3>3. pending' \in [Sessions -> SUBSET {"add", "delete"}]
      BY <3>1 DEF Core!SolrDelete, TypeOK, Core!SolrTypeOK
    <3>. QED BY <3>1, <3>2, <3>3 DEF Core!SolrDelete, TypeOK, Core!SolrTypeOK
  <2>. QED BY <2>1, <2>2
<1>. QED BY <1>1, <1>2 DEF SendDelete, TypeOK, history

LEMMA SendCommitType ==
    ASSUME TypeOK, NEW s \in Sessions, NEW outcome, SendCommit(s, outcome)
    PROVE  TypeOK'
<1>1. /\ todo' \in [Sessions -> Seq(Requests)]
      /\ blocks' \in [Sessions -> Nat]
  BY ReturnsType DEF SendCommit, Sending
<1>2. Core!SolrTypeOK'
  BY DEF SendCommit, TypeOK, solr, Core!SolrTypeOK, Core!SolrCommit
<1>. QED BY <1>1, <1>2 DEF SendCommit, TypeOK, history

\* Every call keeps the types.
LEMMA CallType ==
    ASSUME TypeOK, NEW s \in Sessions, Call(s)
    PROVE  TypeOK'
<1>1. << >> \in Seq(Requests) /\ <<CommitRequest>> \in Seq(Requests)
  BY EmptySeq, RequestTypes
<1>2. ASSUME NEW list \in Lists, Index(s, list)
      PROVE  TypeOK'
  BY <1>1, <1>2, AddDocumentsType DEF Index, Calls
<1>3. ASSUME NEW list \in Lists, IndexNow(s, list)
      PROVE  TypeOK'
  BY <1>1, <1>3, AddDocumentsType DEF IndexNow, Calls
<1>4. ASSUME NEW list \in Lists, AtomicUpdate(s, list)
      PROVE  TypeOK'
  BY <1>1, <1>4, AddDocumentsType DEF AtomicUpdate, Calls
<1>5. ASSUME NEW list \in Lists, AtomicUpdateNow(s, list)
      PROVE  TypeOK'
  BY <1>1, <1>5, AddDocumentsType DEF AtomicUpdateNow, Calls
<1>6. ASSUME NEW list \in Lists, PrepareFails(s, list)
      PROVE  TypeOK'
  <2>1. Len(list) \in Nat /\ clock' = clock + 1
    BY <1>6, ListType DEF PrepareFails, Calls
  <2>2. todo' \in [Sessions -> Seq(Requests)] /\ blocks' \in [Sessions -> Nat]
    BY <1>6, UnwindType DEF PrepareFails
  <2>3. adds' \in [Sessions -> Nat]
    BY <1>6, <2>1 DEF PrepareFails, TypeOK
  <2>4. UNCHANGED <<core, searcher, pending, deletes, stack, accepted, settled, wanted>>
    BY <1>6 DEF PrepareFails, solr, history
  <2>. QED BY <2>1, <2>2, <2>3, <2>4 DEF TypeOK, Core!SolrTypeOK
<1>7. ASSUME NEW list \in Lists, Remove(s, list)
      PROVE  TypeOK'
  BY <1>7, ListType, RemoveRequestsType, DeleteDocumentsType DEF Remove, Calls
<1>8. ASSUME NEW list \in Lists, RemoveNow(s, list)
      PROVE  TypeOK'
  BY <1>8, ListType, RemoveRequestsType, DeleteDocumentsType DEF RemoveNow, Calls
<1>9. ASSUME NEW ids \in SUBSET Keys
      PROVE  /\ <<DeleteRequest(ids)>> \in Seq(Requests)
             /\ <<DeleteRequest(ids), CommitRequest>> \in Seq(Requests)
  <2>1. DeleteRequest(ids) \in Requests /\ CommitRequest \in Requests
    BY RequestTypes
  <2>. QED BY <2>1
<1>10. ASSUME NEW ids \in SUBSET Keys, RemoveById(s, ids)
       PROVE  TypeOK'
  BY <1>9, <1>10, DeleteDocumentsType DEF RemoveById, Calls
<1>11. ASSUME NEW ids \in SUBSET Keys, RemoveByIdNow(s, ids)
       PROVE  TypeOK'
  BY <1>9, <1>11, DeleteDocumentsType DEF RemoveByIdNow, Calls
<1>12. ASSUME NEW ids \in SUBSET Keys, NEW type \in Types, RemoveByScope(s, type, ids)
       PROVE  TypeOK'
  <2>1. type \cap ids \in SUBSET Keys
    OBVIOUS
  <2>. QED BY <1>9, <1>12, <2>1, DeleteDocumentsType DEF RemoveByScope, Calls
<1>13. ASSUME NEW ids \in SUBSET Keys, NEW type \in Types, RemoveByScopeNow(s, type, ids)
       PROVE  TypeOK'
  <2>1. type \cap ids \in SUBSET Keys
    OBVIOUS
  <2>. QED BY <1>9, <1>13, <2>1, DeleteDocumentsType DEF RemoveByScopeNow, Calls
<1>14. ASSUME NEW classes \in RemoveAllArgs, RemoveAll(s, classes)
       PROVE  TypeOK'
  BY <1>14, RemoveAllType, DeleteDocumentsType DEF RemoveAll, Calls
<1>15. ASSUME NEW classes \in RemoveAllArgs, RemoveAllNow(s, classes)
       PROVE  TypeOK'
  BY <1>15, RemoveAllType, DeleteDocumentsType DEF RemoveAllNow, Calls
<1>16. ASSUME Commit(s) \/ Optimize(s) \/ CommitIfDirty(s) \/ CommitIfDeleteDirty(s)
       PROVE  TypeOK'
  BY <1>16, JustCommitType DEF Commit, Optimize, CommitIfDirty, CommitIfDeleteDirty, Calls
<1>17. ASSUME StartBatch(s)
       PROVE  TypeOK'
  <2>1. start_new(stack[s]) \in Seq(Seq(Docs))
    BY StackTypes DEF TypeOK
  <2>. QED
    BY <1>17, <2>1 DEF StartBatch, Calls, TypeOK, solr, history, Core!SolrTypeOK
<1>18. ASSUME FlushBatch(s)
       PROVE  TypeOK'
  <2>1. stack[s] # << >>
    BY <1>18, EmptySeq DEF FlushBatch, depth
  <2>2. end_current(stack[s]) \in Seq(Seq(Docs)) /\ current(stack[s]) \in Seq(Docs)
    BY <2>1, StackTypes DEF TypeOK
  <2>3. <<AddRequest(current(stack[s]))>> \in Seq(Requests)
    BY <2>2, RequestTypes
  <2>4. blocks' \in [Sessions -> Nat]
    BY <1>18 DEF FlushBatch, TypeOK
  <2>. QED
    BY <1>18, <2>2, <2>3, <2>4 DEF FlushBatch, TypeOK, solr, history, Core!SolrTypeOK
<1>19. ASSUME BlockRaises(s)
       PROVE  TypeOK'
  BY <1>19 DEF BlockRaises, TypeOK, solr, history, Core!SolrTypeOK
<1>. QED
  BY <1>2, <1>3, <1>4, <1>5, <1>6, <1>7, <1>8, <1>10, <1>11, <1>12, <1>13, <1>14,
     <1>15, <1>16, <1>17, <1>18, <1>19 DEF Call

\* The state of a session has its type in every reachable state, whatever the
\* application calls and whatever fails.
THEOREM TypeCorrect == Spec => []TypeOK
<1>1. TypeOK /\ [Next]_vars => TypeOK'
  <2> SUFFICES ASSUME TypeOK, [Next]_vars
               PROVE  TypeOK'
    OBVIOUS
  <2>1. ASSUME NEW s \in Sessions, Call(s)
        PROVE  TypeOK'
    BY <2>1, CallType
  <2>2. ASSUME NEW s \in Sessions, Request(s)
        PROVE  TypeOK'
    BY <2>2, SendAddType, SendDeleteType, SendCommitType DEF Request
  <2>3. CASE UNCHANGED vars
    BY <2>3 DEF vars, TypeOK, Core!SolrTypeOK
  <2>. QED BY <2>1, <2>2, <2>3 DEF Next
<1>. QED BY TypeInit, <1>1, PTL DEF Spec

-----------------------------------------------------------------------------
(* flush_batch always finds the batch of its block.                        *)

\* An exception leaves no more blocks than there were.
LEMMA UnwindBlocks ==
    ASSUME TypeOK, NEW s \in Sessions, Unwind(s) \/ UNCHANGED blocks
    PROVE  \A r \in Sessions : blocks'[r] <= blocks[r]
<1>1. blocks \in [Sessions -> Nat]
  BY DEF TypeOK
<1>2. CASE Unwind(s)
  <2>1. PICK n \in 0 .. blocks[s] : blocks' = [blocks EXCEPT ![s] = n]
    BY <1>2 DEF Unwind
  <2>. QED BY <1>1, <2>1
<1>3. CASE UNCHANGED blocks
  BY <1>1, <1>3
<1>. QED BY <1>2, <1>3

LEMMA ReturnsBlocks ==
    ASSUME TypeOK, NEW s \in Sessions, NEW outcome, Returns(s, outcome)
    PROVE  \A r \in Sessions : blocks'[r] <= blocks[r]
BY UnwindBlocks DEF Returns

\* No exception, at whatever level it is rescued, makes an enclosing block
\* find the Batcher's stack empty (NoCurrentBatchError in end_current).
THEOREM NoCurrentBatchNeverRaised == Spec => []StackCoversBlocks
<1>1. Init => StackCoversBlocks
  <2>1. Len(<< >>) = 0
    BY EmptySeq
  <2>. QED BY <2>1 DEF Init, StackCoversBlocks, depth
<1>2. TypeOK /\ StackCoversBlocks /\ [Next]_vars => StackCoversBlocks'
  <2> SUFFICES ASSUME TypeOK, StackCoversBlocks, [Next]_vars
               PROVE  StackCoversBlocks'
    OBVIOUS
  <2> USE DEF depth
  <2>1. \A r \in Sessions : stack[r] \in Seq(Seq(Docs)) /\ Len(stack[r]) \in Nat /\ blocks[r] \in Nat
    BY LenProperties DEF TypeOK
  <2>2. ASSUME UNCHANGED stack, \A r \in Sessions : blocks'[r] <= blocks[r], TypeOK'
        PROVE  StackCoversBlocks'
    BY <2>1, <2>2 DEF StackCoversBlocks, TypeOK
  <2>3. ASSUME NEW s \in Sessions, NEW list \in Lists, NEW after,
               AddDocuments(s, list, after)
        PROVE  StackCoversBlocks'
    <3>1. CASE batching(stack[s])
      <4>1. Prepared(list) \in Seq(Docs)
        BY PreparedType DEF TypeOK
      <4>2. Len(concat(stack[s], Prepared(list))) = Len(stack[s])
        BY <2>1, <3>1, <4>1, ConcatType
      <4>. QED BY <2>1, <2>3, <3>1, <4>2 DEF AddDocuments, StackCoversBlocks, TypeOK
    <3>2. CASE ~ batching(stack[s])
      BY <2>1, <2>3, <3>2 DEF AddDocuments, StackCoversBlocks
    <3>. QED BY <3>1, <3>2
  <2>4. ASSUME UNCHANGED <<stack, blocks>>
        PROVE  StackCoversBlocks'
    BY <2>4 DEF StackCoversBlocks
  <2>5. ASSUME NEW s \in Sessions, StartBatch(s)
        PROVE  StackCoversBlocks'
    <3>1. Len(start_new(stack[s])) = Len(stack[s]) + 1
      BY <2>1, StackTypes
    <3>. QED BY <2>1, <2>5, <3>1 DEF StartBatch, StackCoversBlocks, TypeOK
  <2>6. ASSUME NEW s \in Sessions, FlushBatch(s)
        PROVE  StackCoversBlocks'
    <3>1. Len(end_current(stack[s])) = Len(stack[s]) - 1
      BY <2>1, <2>6, StackTypes, EmptySeq DEF FlushBatch
    <3>. QED BY <2>1, <2>6, <3>1 DEF FlushBatch, StackCoversBlocks, TypeOK
  <2>7. ASSUME NEW s \in Sessions, Call(s)
        PROVE  StackCoversBlocks'
    <3>1. TypeOK'
      BY <2>7, CallType
    <3>2. CASE \E list \in Lists : Index(s, list) \/ IndexNow(s, list)
                  \/ AtomicUpdate(s, list) \/ AtomicUpdateNow(s, list)
      BY <3>2, <2>3 DEF Index, IndexNow, AtomicUpdate, AtomicUpdateNow
    <3>3. CASE \E list \in Lists : PrepareFails(s, list)
      BY <3>3, <3>1, <2>2, UnwindBlocks DEF PrepareFails
    <3>4. CASE \E list \in Lists : Remove(s, list) \/ RemoveNow(s, list)
      BY <3>4, <2>4 DEF Remove, RemoveNow, DeleteDocuments
    <3>5. CASE \E ids \in SUBSET Keys :
                  \/ RemoveById(s, ids) \/ RemoveByIdNow(s, ids)
                  \/ \E type \in Types : RemoveByScope(s, type, ids) \/ RemoveByScopeNow(s, type, ids)
      BY <3>5, <2>4
         DEF RemoveById, RemoveByIdNow, RemoveByScope, RemoveByScopeNow, DeleteDocuments
    <3>6. CASE \E classes \in RemoveAllArgs : RemoveAll(s, classes) \/ RemoveAllNow(s, classes)
      BY <3>6, <2>4 DEF RemoveAll, RemoveAllNow, DeleteDocuments
    <3>7. CASE Commit(s) \/ Optimize(s) \/ CommitIfDirty(s) \/ CommitIfDeleteDirty(s)
      BY <3>7, <2>4 DEF Commit, Optimize, CommitIfDirty, CommitIfDeleteDirty, JustCommit
    <3>8. CASE StartBatch(s) \/ FlushBatch(s)
      BY <3>8, <2>5, <2>6
    <3>9. CASE BlockRaises(s)
      <4>1. \A r \in Sessions : blocks'[r] <= blocks[r]
        BY <3>9, <2>1 DEF BlockRaises, TypeOK
      <4>. QED BY <3>9, <3>1, <4>1, <2>2 DEF BlockRaises
    <3>. QED
      BY <2>7, <3>2, <3>3, <3>4, <3>5, <3>6, <3>7, <3>8, <3>9 DEF Call
  <2>8. ASSUME NEW s \in Sessions, Request(s)
        PROVE  StackCoversBlocks'
    <3>1. TypeOK'
      BY <2>8, SendAddType, SendDeleteType, SendCommitType DEF Request
    <3>2. UNCHANGED stack /\ \E outcome : Returns(s, outcome)
      BY <2>8 DEF Request, SendAdd, SendDelete, SendCommit
    <3>. QED BY <3>1, <3>2, <2>2, ReturnsBlocks
  <2>9. CASE UNCHANGED vars
    BY <2>9, <2>4 DEF vars
  <2>. QED BY <2>7, <2>8, <2>9 DEF Next
<1>. QED BY <1>1, <1>2, TypeCorrect, PTL DEF Spec

-----------------------------------------------------------------------------
(* A disciplined application can believe dirty? and delete_dirty?.         *)

\* What one action may do to a session it does not run, or that it leaves as
\* it was: nothing DirtyInv speaks of grows there, and no counter shrinks.
SessionKept(s) ==
    /\ stack'[s] = stack[s]
    /\ blocks'[s] <= blocks[s]
    /\ todo'[s] = todo[s]
    /\ adds'[s] >= adds[s]
    /\ deletes'[s] >= deletes[s]
    /\ pending'[s] \subseteq pending[s]

\* DirtyInv, one session at a time.
SessionInv(s) ==
    /\ \A i \in DOMAIN stack[s] :
          i > Len(stack[s]) - blocks[s] /\ stack[s][i] # << >> => adds[s] > 0
    /\ \A i \in DOMAIN todo[s] :
          /\ todo[s][i].op = "add" /\ todo[s][i].docs # << >> => adds[s] > 0
          /\ todo[s][i].op = "delete" => deletes[s] > 0
    /\ \A i \in DOMAIN todo[s] :
          todo[s][i].op = "commit" => i = Len(todo[s]) /\ blocks[s] = 0
    /\ "add" \in pending[s] => adds[s] > 0
    /\ "delete" \in pending[s] => deletes[s] > 0

LEMMA DirtyInvSplit == DirtyInv <=> \A s \in Sessions : SessionInv(s)
BY DEF DirtyInv, SessionInv, OpenBatchesCounted, RequestsCounted, CommitsComeLast,
       PendingCounted

LEMMA DirtyInvSplitPrime == DirtyInv' <=> \A s \in Sessions : SessionInv(s)'
BY DEF DirtyInv, SessionInv, OpenBatchesCounted, RequestsCounted, CommitsComeLast,
       PendingCounted

LEMMA KeptInv ==
    ASSUME TypeOK, TypeOK', NEW s \in Sessions, SessionInv(s), SessionKept(s)
    PROVE  SessionInv(s)'
<1>1. /\ adds[s] \in Nat /\ adds'[s] \in Nat
      /\ deletes[s] \in Nat /\ deletes'[s] \in Nat
      /\ blocks[s] \in Nat /\ blocks'[s] \in Nat
      /\ Len(stack[s]) \in Nat
      /\ DOMAIN stack[s] = 1 .. Len(stack[s])
  BY LenProperties DEF TypeOK
<1>2. \A i \in DOMAIN stack[s] :
         i > Len(stack[s]) - blocks'[s] => i > Len(stack[s]) - blocks[s]
  BY <1>1 DEF SessionKept
<1>3. adds[s] > 0 => adds'[s] > 0
  BY <1>1 DEF SessionKept
<1>4. deletes[s] > 0 => deletes'[s] > 0
  BY <1>1 DEF SessionKept
<1>5. blocks[s] = 0 => blocks'[s] = 0
  BY <1>1 DEF SessionKept
<1>. QED BY <1>2, <1>3, <1>4, <1>5 DEF SessionInv, SessionKept

LEMMA AddDocumentsInv ==
    ASSUME TypeOK, TypeOK', NEW s \in Sessions, SessionInv(s), todo[s] = << >>,
           NEW list \in Lists, NEW after,
           after = << >> \/ (after = <<CommitRequest>> /\ blocks[s] = 0),
           AddDocuments(s, list, after)
    PROVE  SessionInv(s)'
<1> DEFINE docs == Prepared(list)
<1>1. Len(list) \in Nat /\ DOMAIN list = 1 .. Len(list)
  BY ListType
<1>2. docs \in Seq(Docs) /\ DOMAIN docs = 1 .. Len(list)
  BY <1>1, PreparedType DEF TypeOK, Prepared
<1>3. adds'[s] = adds[s] + Len(list) /\ adds[s] \in Nat
  BY DEF AddDocuments, TypeOK
<1>4. docs # << >> => adds'[s] > 0
  BY <1>1, <1>2, <1>3
<1>5. adds[s] > 0 => adds'[s] > 0
  BY <1>1, <1>3
<1>6. stack[s] \in Seq(Seq(Docs)) /\ Len(stack[s]) \in Nat /\ DOMAIN stack[s] = 1 .. Len(stack[s])
  BY LenProperties DEF TypeOK
<1>7. UNCHANGED <<pending, deletes, blocks>>
  BY DEF AddDocuments, solr
<1>8. CASE batching(stack[s])
  <2>1. stack'[s] = concat(stack[s], docs) /\ todo'[s] = after
    BY <1>8 DEF AddDocuments, TypeOK
  <2>2. /\ Len(stack'[s]) = Len(stack[s])
        /\ DOMAIN stack'[s] = 1 .. Len(stack[s])
        /\ \A i \in 1 .. Len(stack[s]) :
             stack'[s][i] = IF i = Len(stack[s]) THEN stack[s][i] \o docs ELSE stack[s][i]
    <3> DEFINE new == concat(stack[s], docs)
    <3>1. /\ new \in Seq(Seq(Docs))
          /\ Len(new) = Len(stack[s])
          /\ \A i \in 1 .. Len(stack[s]) :
               new[i] = IF i = Len(stack[s]) THEN stack[s][i] \o docs ELSE stack[s][i]
      <4>. HIDE DEF docs
      <4>. QED BY <1>2, <1>6, <1>8, ConcatType
    <3>2. DOMAIN new = 1 .. Len(new)
      <4>. HIDE DEF new
      <4>. QED BY <3>1, LenProperties
    <3>. HIDE DEF new, docs
    <3>. QED BY <2>1, <3>1, <3>2 DEF new
  <2>3. ASSUME NEW i \in DOMAIN stack'[s], i > Len(stack'[s]) - blocks'[s],
               stack'[s][i] # << >>
        PROVE  adds'[s] > 0
    <3>1. CASE docs # << >>
      BY <1>4, <3>1
    <3>2. CASE docs = << >>
      <4>1. stack[s][i] \in Seq(Docs)
        BY <1>6, <2>2, ElementOfSeq
      <4>2. stack'[s][i] = stack[s][i]
        BY <2>2, <3>2, <4>1, ConcatEmptySeq
      <4>. QED BY <1>5, <1>6, <1>7, <2>2, <2>3, <4>2 DEF SessionInv
    <3>. QED BY <3>1, <3>2
  <2>4. \A i \in DOMAIN todo'[s] :
           /\ todo'[s][i].op = "commit"
           /\ i = Len(todo'[s]) /\ blocks'[s] = 0
    <3>1. CASE after = << >>
      BY <2>1, <3>1
    <3>2. CASE after = <<CommitRequest>> /\ blocks[s] = 0
      <4>1. Len(todo'[s]) = 1 /\ DOMAIN todo'[s] = {1} /\ todo'[s][1] = CommitRequest
        BY <2>1, <3>2
      <4>. QED BY <1>7, <3>2, <4>1 DEF CommitRequest
    <3>. QED BY <3>1, <3>2
  <2>. QED BY <1>5, <1>7, <2>3, <2>4 DEF SessionInv
<1>9. CASE ~ batching(stack[s])
  <2>1. UNCHANGED stack /\ todo'[s] = <<AddRequest(docs)>> \o after
    BY <1>9 DEF AddDocuments, TypeOK
  <2>2. todo'[s] = IF after = << >> THEN <<AddRequest(docs)>>
                   ELSE <<AddRequest(docs), CommitRequest>>
    <3>1. after # << >> => after = <<CommitRequest>>
      OBVIOUS
    <3>. QED BY <2>1, <3>1
  <2>3. \A i \in DOMAIN todo'[s] :
           /\ todo'[s][i].op = "add" /\ todo'[s][i].docs # << >> => adds'[s] > 0
           /\ todo'[s][i].op # "delete"
           /\ todo'[s][i].op = "commit" => i = Len(todo'[s]) /\ blocks'[s] = 0
    <3>1. CASE after = << >>
      BY <1>4, <2>2, <3>1 DEF AddRequest
    <3>2. CASE after = <<CommitRequest>> /\ blocks[s] = 0 /\ after # << >>
      <4>1. todo'[s] = <<AddRequest(docs), CommitRequest>>
        BY <2>2, <3>2
      <4>. QED BY <1>4, <1>7, <3>2, <4>1 DEF AddRequest, CommitRequest
    <3>. QED BY <3>1, <3>2
  <2>. QED BY <1>5, <1>7, <2>1, <2>3 DEF SessionInv
<1>. QED BY <1>8, <1>9

\* What DirtyInv asks of the requests of a call that deletes n times.
Shape(s, n, requests) ==
    \A i \in DOMAIN requests :
        /\ requests[i].op # "add"
        /\ requests[i].op = "delete" => n > 0
        /\ requests[i].op = "commit" => i = Len(requests) /\ blocks[s] = 0

LEMMA DeletesShape ==
    ASSUME NEW requests \in Seq(Requests), NEW s,
           \A i \in DOMAIN requests : requests[i].op = "delete"
    PROVE  /\ Shape(s, Len(requests), requests)
           /\ blocks[s] = 0 => Shape(s, Len(requests), requests \o <<CommitRequest>>)
<1>1. Len(requests) \in Nat /\ DOMAIN requests = 1 .. Len(requests)
  BY LenProperties
<1>2. \A i \in DOMAIN requests : Len(requests) > 0
  BY <1>1
<1>3. Shape(s, Len(requests), requests)
  BY <1>2 DEF Shape
<1>4. ASSUME blocks[s] = 0
      PROVE  Shape(s, Len(requests), requests \o <<CommitRequest>>)
  <2> DEFINE all == requests \o <<CommitRequest>>
  <2>1. <<CommitRequest>> \in Seq(Requests) /\ Len(<<CommitRequest>>) = 1
    BY RequestTypes
  <2>2. /\ all \in Seq(Requests)
        /\ Len(all) = Len(requests) + 1
        /\ \A i \in 1 .. Len(requests) + 1 :
             all[i] = IF i <= Len(requests) THEN requests[i]
                      ELSE <<CommitRequest>>[i - Len(requests)]
    BY <2>1, ConcatProperties
  <2>3. DOMAIN all = 1 .. Len(requests) + 1
    <3>. HIDE DEF all
    <3>. QED BY <2>2, LenProperties
  <2>4. ASSUME NEW i \in 1 .. Len(requests)
        PROVE  all[i].op = "delete" /\ Len(requests) > 0
    <3>. HIDE DEF all
    <3>. QED BY <1>1, <2>2
  <2>5. all[Len(requests) + 1] = CommitRequest
    <3>1. Len(requests) + 1 \in 1 .. Len(requests) + 1
      BY <1>1
    <3>2. ~ (Len(requests) + 1 <= Len(requests)) /\ Len(requests) + 1 - Len(requests) = 1
      BY <1>1
    <3>. HIDE DEF all
    <3>. QED BY <2>2, <3>1, <3>2
  <2>6. \A i \in DOMAIN all : i \in 1 .. Len(requests) \/ i = Len(requests) + 1
    <3>. HIDE DEF all
    <3>. QED BY <1>1, <2>3
  <2>. HIDE DEF all
  <2>7. Shape(s, Len(requests), all)
    BY <1>4, <2>2, <2>4, <2>5, <2>6 DEF Shape, CommitRequest
  <2>. QED BY <2>7 DEF all
<1>. QED BY <1>3, <1>4

LEMMA DeleteDocumentsInv ==
    ASSUME TypeOK, TypeOK', NEW s \in Sessions, SessionInv(s),
           NEW n \in Nat, NEW ids, NEW requests, Shape(s, n, requests),
           DeleteDocuments(s, n, ids, requests)
    PROVE  SessionInv(s)'
<1>1. deletes'[s] = deletes[s] + n /\ deletes[s] \in Nat
  BY DEF DeleteDocuments, TypeOK
<1>2. (n > 0 => deletes'[s] > 0) /\ (deletes[s] > 0 => deletes'[s] > 0)
  BY <1>1
<1>3. todo'[s] = requests
  BY DEF DeleteDocuments, TypeOK
<1>4. UNCHANGED <<pending, adds, stack, blocks>>
  BY DEF DeleteDocuments, solr
<1>. QED BY <1>2, <1>3, <1>4 DEF SessionInv, Shape

LEMMA RemoveShape ==
    ASSUME NEW s, NEW list \in Lists
    PROVE  /\ Shape(s, Len(list), RemoveRequests(list))
           /\ blocks[s] = 0 => Shape(s, Len(list), RemoveRequests(list) \o <<CommitRequest>>)
<1>1. RemoveRequests(list) \in Seq(Requests)
  BY RemoveRequestsType
<1>2. \A i \in DOMAIN RemoveRequests(list) : RemoveRequests(list)[i].op = "delete"
  BY DEF RemoveRequests, DeleteRequest
<1>3. Len(RemoveRequests(list)) = Len(list)
  <2>1. DOMAIN RemoveRequests(list) = 1 .. Len(list) /\ Len(list) \in Nat
    BY ListType DEF RemoveRequests
  <2>. QED BY <1>1, <2>1, LenProperties
<1>. QED BY <1>1, <1>2, <1>3, DeletesShape

LEMMA RemoveAllShape ==
    ASSUME NEW s, NEW classes \in RemoveAllArgs
    PROVE  /\ Shape(s, Len(classes), RemoveAllRequests(classes))
           /\ blocks[s] = 0 =>
                Shape(s, Len(classes), RemoveAllRequests(classes) \o <<CommitRequest>>)
<1>1. RemoveAllRequests(classes) \in Seq(Requests)
  BY RemoveAllType
<1>2. \A i \in DOMAIN RemoveAllRequests(classes) :
         RemoveAllRequests(classes)[i].op = "delete"
  BY DEF RemoveAllRequests, DeleteRequest
<1>3. Len(RemoveAllRequests(classes)) = Len(classes)
  <2>1. DOMAIN RemoveAllRequests(classes) = 1 .. Len(classes) /\ Len(classes) \in Nat
    BY RemoveAllType DEF RemoveAllRequests
  <2>. QED BY <1>1, <2>1, LenProperties
<1>. QED BY <1>1, <1>2, <1>3, DeletesShape

LEMMA JustCommitInv ==
    ASSUME TypeOK, NEW s \in Sessions, SessionInv(s), blocks[s] = 0, JustCommit(s)
    PROVE  SessionInv(s)'
<1>1. todo'[s] = <<CommitRequest>>
  BY DEF JustCommit, TypeOK
<1>2. Len(todo'[s]) = 1 /\ DOMAIN todo'[s] = {1} /\ todo'[s][1].op = "commit"
  BY <1>1 DEF CommitRequest
<1>3. UNCHANGED <<pending, adds, deletes, stack, blocks>>
  BY DEF JustCommit, solr
<1>. QED BY <1>2, <1>3 DEF SessionInv

LEMMA StartBatchInv ==
    ASSUME TypeOK, NEW s \in Sessions, SessionInv(s), StartBatch(s)
    PROVE  SessionInv(s)'
<1>1. stack[s] \in Seq(Seq(Docs)) /\ Len(stack[s]) \in Nat /\ blocks[s] \in Nat
      /\ DOMAIN stack[s] = 1 .. Len(stack[s])
  BY LenProperties DEF TypeOK
<1> DEFINE new == start_new(stack[s])
<1>2. /\ new \in Seq(Seq(Docs))
      /\ Len(new) = Len(stack[s]) + 1
      /\ \A i \in 1 .. Len(stack[s]) : new[i] = stack[s][i]
      /\ new[Len(stack[s]) + 1] = << >>
  BY <1>1, StackTypes
<1>3. stack'[s] = new /\ blocks'[s] = blocks[s] + 1
  BY DEF StartBatch, TypeOK
<1>. HIDE DEF new
<1>4. DOMAIN new = 1 .. Len(stack[s]) + 1
  BY <1>2, LenProperties
<1>5. ASSUME NEW i \in DOMAIN stack'[s], i > Len(stack'[s]) - blocks'[s],
             stack'[s][i] # << >>
      PROVE  adds'[s] > 0
  <2>1. i # Len(stack[s]) + 1
    BY <1>2, <1>3, <1>5
  <2>2. i \in 1 .. Len(stack[s])
    BY <1>1, <1>3, <1>4, <2>1
  <2>3. stack[s][i] # << >>
    BY <1>2, <1>3, <1>5, <2>2
  <2>4. i > Len(stack[s]) - blocks[s]
    <3>1. Len(stack'[s]) = Len(stack[s]) + 1
      BY <1>2, <1>3
    <3>. QED BY <1>1, <1>3, <1>5, <2>2, <3>1
  <2>. QED BY <1>1, <2>2, <2>3, <2>4 DEF StartBatch, SessionInv
<1>6. UNCHANGED <<pending, adds, deletes>> /\ todo'[s] = << >>
  BY DEF StartBatch, Calls, solr
<1>. QED BY <1>5, <1>6 DEF SessionInv

LEMMA FlushBatchInv ==
    ASSUME TypeOK, NEW s \in Sessions, SessionInv(s), StackCoversBlocks, FlushBatch(s)
    PROVE  SessionInv(s)'
<1>1. stack[s] \in Seq(Seq(Docs)) /\ Len(stack[s]) \in Nat \ {0} /\ blocks[s] \in Nat \ {0}
      /\ DOMAIN stack[s] = 1 .. Len(stack[s]) /\ stack[s] # << >>
  BY LenProperties, EmptySeq DEF TypeOK, FlushBatch, depth
<1> DEFINE new == end_current(stack[s])
<1>2. /\ new \in Seq(Seq(Docs))
      /\ Len(new) = Len(stack[s]) - 1
      /\ \A i \in 1 .. Len(stack[s]) - 1 : new[i] = stack[s][i]
  BY <1>1, StackTypes
<1>3. /\ stack'[s] = new /\ blocks'[s] = blocks[s] - 1
      /\ todo'[s] = <<AddRequest(current(stack[s]))>>
  BY DEF FlushBatch, TypeOK
<1>. HIDE DEF new
<1>4. DOMAIN new = 1 .. Len(stack[s]) - 1
  BY <1>1, <1>2, LenProperties
<1>5. UNCHANGED <<pending, adds, deletes>>
  BY DEF FlushBatch, solr
<1>6. ASSUME NEW i \in DOMAIN stack'[s], i > Len(stack'[s]) - blocks'[s],
             stack'[s][i] # << >>
      PROVE  adds'[s] > 0
  <2>1. i \in 1 .. Len(stack[s]) - 1
    BY <1>3, <1>4, <1>6
  <2>2. i \in DOMAIN stack[s] /\ stack[s][i] # << >>
    <3>1. i \in 1 .. Len(stack[s])
      BY <1>1, <2>1
    <3>2. new[i] = stack[s][i] /\ new[i] # << >>
      BY <1>2, <1>3, <1>6, <2>1
    <3>. QED BY <1>1, <3>1, <3>2
  <2>3. i > Len(stack[s]) - blocks[s]
    <3>1. i > Len(stack[s]) - 1 - (blocks[s] - 1)
      BY <1>2, <1>3, <1>6
    <3>. QED BY <1>1, <2>1, <3>1
  <2>. QED BY <1>5, <2>2, <2>3 DEF SessionInv
<1>7. current(stack[s]) # << >> => adds[s] > 0
  <2>1. Len(stack[s]) \in DOMAIN stack[s] /\ Len(stack[s]) > Len(stack[s]) - blocks[s]
    BY <1>1
  <2>. QED BY <2>1 DEF SessionInv, current
<1>8. DOMAIN todo'[s] = {1} /\ todo'[s][1] = AddRequest(current(stack[s]))
  BY <1>3
<1>. QED BY <1>5, <1>6, <1>7, <1>8 DEF SessionInv, AddRequest

\* A session all of whose state an action leaves alone.
LEMMA OthersKept ==
    ASSUME TypeOK, TypeOK', NEW r \in Sessions, SessionInv(r),
           stack'[r] = stack[r], todo'[r] = todo[r], blocks'[r] = blocks[r],
           adds'[r] = adds[r], deletes'[r] = deletes[r],
           pending'[r] \subseteq pending[r]
    PROVE  SessionInv(r)'
<1>1. adds[r] \in Nat /\ deletes[r] \in Nat /\ blocks[r] \in Nat
  BY DEF TypeOK
<1>2. SessionKept(r)
  BY <1>1 DEF SessionKept
<1>. QED BY <1>2, KeptInv

LEMMA CallOthers ==
    ASSUME TypeOK, NEW s \in Sessions, Call(s), NEW r \in Sessions, r # s
    PROVE  /\ stack'[r] = stack[r]
           /\ todo'[r] = todo[r]
           /\ blocks'[r] = blocks[r]
           /\ adds'[r] = adds[r]
           /\ deletes'[r] = deletes[r]
           /\ pending'[r] = pending[r]
<1>1. CASE \E list \in Lists, after \in {<< >>, <<CommitRequest>>} :
              AddDocuments(s, list, after)
  BY <1>1 DEF AddDocuments, TypeOK, solr
<1>2. CASE \E n, ids, requests : DeleteDocuments(s, n, ids, requests)
  BY <1>2 DEF DeleteDocuments, TypeOK, solr
<1>3. CASE JustCommit(s)
  BY <1>3 DEF JustCommit, TypeOK, solr
<1>4. CASE \E list \in Lists : PrepareFails(s, list)
  BY <1>4 DEF PrepareFails, Unwind, TypeOK, solr
<1>5. CASE StartBatch(s)
  BY <1>5 DEF StartBatch, TypeOK, solr
<1>6. CASE FlushBatch(s)
  BY <1>6 DEF FlushBatch, TypeOK, solr
<1>7. CASE BlockRaises(s)
  BY <1>7 DEF BlockRaises, TypeOK, solr
<1>. QED
  BY <1>1, <1>2, <1>3, <1>4, <1>5, <1>6, <1>7
     DEF Call, Index, IndexNow, AtomicUpdate, AtomicUpdateNow, Remove, RemoveNow,
         RemoveById, RemoveByIdNow, RemoveByScope, RemoveByScopeNow, RemoveAll,
         RemoveAllNow, Commit, Optimize, CommitIfDirty, CommitIfDeleteDirty

\* In a disciplined application a committing call is made outside the blocks.
LEMMA CommittingCall ==
    ASSUME Disciplined, NEW s \in Sessions, NEW op \in Committing, Calls(s, op)
    PROVE  blocks[s] = 0
BY DEF Disciplined, Calls

LEMMA UncountedCall ==
    ASSUME Disciplined, NEW s \in Sessions, NEW op \in Uncounted, Calls(s, op)
    PROVE  FALSE
BY DEF Disciplined, Calls

LEMMA CallInv ==
    ASSUME Disciplined, TypeOK, TypeOK', StackCoversBlocks,
           NEW s \in Sessions, SessionInv(s), Call(s)
    PROVE  SessionInv(s)'
<1>1. ASSUME NEW list \in Lists, Index(s, list) \/ AtomicUpdate(s, list)
      PROVE  SessionInv(s)'
  BY <1>1, AddDocumentsInv DEF Index, AtomicUpdate, Calls
<1>2. ASSUME NEW list \in Lists, IndexNow(s, list) \/ AtomicUpdateNow(s, list)
      PROVE  SessionInv(s)'
  <2>1. blocks[s] = 0 /\ todo[s] = << >>
    BY <1>2, CommittingCall DEF IndexNow, AtomicUpdateNow, Committing, Calls
  <2>2. AddDocuments(s, list, <<CommitRequest>>)
    BY <1>2 DEF IndexNow, AtomicUpdateNow
  <2>. QED BY <2>1, <2>2, AddDocumentsInv
<1>3. ASSUME NEW list \in Lists, PrepareFails(s, list)
      PROVE  SessionInv(s)'
  <2>1. todo[s] = << >> /\ todo'[s] = << >>
    BY <1>3 DEF PrepareFails, Unwind, Calls, TypeOK
  <2>2. blocks'[s] <= blocks[s]
    BY <1>3, UnwindBlocks DEF PrepareFails
  <2>3. adds[s] \in Nat /\ deletes[s] \in Nat /\ Len(list) \in Nat
    BY ListType DEF TypeOK
  <2>4. adds'[s] = adds[s] + Len(list)
    BY <1>3 DEF PrepareFails, TypeOK
  <2>5. UNCHANGED <<deletes, stack, pending>>
    BY <1>3 DEF PrepareFails, solr
  <2>6. SessionKept(s)
    BY <2>1, <2>2, <2>3, <2>4, <2>5 DEF SessionKept
  <2>. QED BY <2>6, KeptInv
<1>4. ASSUME NEW list \in Lists, Remove(s, list) \/ RemoveNow(s, list)
      PROVE  SessionInv(s)'
  <2>1. RemoveNow(s, list) => blocks[s] = 0
    BY CommittingCall DEF RemoveNow, Committing
  <2>2. Len(list) \in Nat
    BY ListType
  <2>. QED BY <1>4, <2>1, <2>2, RemoveShape, DeleteDocumentsInv DEF Remove, RemoveNow
<1>5. ASSUME NEW classes \in RemoveAllArgs, RemoveAll(s, classes) \/ RemoveAllNow(s, classes)
      PROVE  SessionInv(s)'
  <2>1. RemoveAllNow(s, classes) => blocks[s] = 0
    BY CommittingCall DEF RemoveAllNow, Committing
  <2>2. Len(classes) \in Nat
    BY RemoveAllType
  <2>. QED BY <1>5, <2>1, <2>2, RemoveAllShape, DeleteDocumentsInv DEF RemoveAll, RemoveAllNow
<1>6. ASSUME NEW ids \in SUBSET Keys,
             \/ RemoveById(s, ids) \/ RemoveByIdNow(s, ids)
             \/ \E type \in Types : RemoveByScope(s, type, ids) \/ RemoveByScopeNow(s, type, ids)
      PROVE  FALSE
  BY <1>6, UncountedCall
     DEF RemoveById, RemoveByIdNow, RemoveByScope, RemoveByScopeNow, Uncounted
<1>7. ASSUME Commit(s) \/ Optimize(s) \/ CommitIfDirty(s) \/ CommitIfDeleteDirty(s)
      PROVE  SessionInv(s)'
  <2>1. blocks[s] = 0
    BY <1>7, CommittingCall
       DEF Commit, Optimize, CommitIfDirty, CommitIfDeleteDirty, Committing
  <2>. QED
    BY <1>7, <2>1, JustCommitInv DEF Commit, Optimize, CommitIfDirty, CommitIfDeleteDirty
<1>8. ASSUME BlockRaises(s)
      PROVE  SessionInv(s)'
  <2>1. blocks'[s] <= blocks[s]
    BY <1>8 DEF BlockRaises, TypeOK
  <2>2. adds[s] \in Nat /\ deletes[s] \in Nat
    BY DEF TypeOK
  <2>3. SessionKept(s)
    BY <1>8, <2>1, <2>2 DEF BlockRaises, SessionKept, solr
  <2>. QED BY <2>3, KeptInv
<1>. QED
  BY <1>1, <1>2, <1>3, <1>4, <1>5, <1>6, <1>7, <1>8, StartBatchInv, FlushBatchInv DEF Call

\* A request other than a commit leaves the inductive invariant.
LEMMA UpdateInv ==
    ASSUME TypeOK, TypeOK', NEW s \in Sessions, SessionInv(s), todo[s] # << >>,
           NEW outcome, Returns(s, outcome),
           UNCHANGED <<adds, deletes, stack>>,
           "add" \in pending'[s] => adds[s] > 0,
           "delete" \in pending'[s] => deletes[s] > 0
    PROVE  SessionInv(s)'
<1>1. blocks'[s] <= blocks[s] /\ blocks'[s] \in Nat /\ blocks[s] \in Nat
  BY ReturnsBlocks DEF TypeOK
<1>2. todo[s] \in Seq(Requests) /\ Len(todo[s]) \in Nat /\ DOMAIN todo[s] = 1 .. Len(todo[s])
  BY LenProperties DEF TypeOK
<1>3. \A i \in DOMAIN todo'[s] :
         i + 1 \in DOMAIN todo[s] /\ todo'[s][i] = todo[s][i + 1]
         /\ (i + 1 = Len(todo[s]) => i = Len(todo'[s]))
  <2>1. CASE todo'[s] = Tail(todo[s])
    <3>1. /\ Tail(todo[s]) \in Seq(Requests)
          /\ Len(Tail(todo[s])) = Len(todo[s]) - 1
          /\ \A i \in 1 .. Len(Tail(todo[s])) : Tail(todo[s])[i] = todo[s][i + 1]
      BY <1>2, HeadTailProperties
    <3>2. DOMAIN todo'[s] = 1 .. Len(todo[s]) - 1
      BY <2>1, <3>1, LenProperties
    <3>. QED BY <1>2, <2>1, <3>1, <3>2
  <2>2. CASE todo'[s] = << >>
    BY <2>2
  <2>. QED BY <2>1, <2>2 DEF Returns, Unwind, TypeOK
<1>4. \A i \in DOMAIN stack[s] :
         i > Len(stack[s]) - blocks'[s] => i > Len(stack[s]) - blocks[s]
  <2>1. Len(stack[s]) \in Nat /\ DOMAIN stack[s] = 1 .. Len(stack[s])
    BY LenProperties DEF TypeOK
  <2>. QED BY <1>1, <2>1
<1>5. blocks[s] = 0 => blocks'[s] = 0
  BY <1>1
<1>. QED BY <1>3, <1>4, <1>5 DEF SessionInv

\* The head of todo is one of its requests.
LEMMA HeadOfTodo ==
    ASSUME TypeOK, NEW s \in Sessions, todo[s] # << >>
    PROVE  1 \in DOMAIN todo[s] /\ Head(todo[s]) = todo[s][1] /\ Head(todo[s]) \in Requests
<1>1. todo[s] \in Seq(Requests)
  BY DEF TypeOK
<1>2. Len(todo[s]) \in Nat \ {0} /\ DOMAIN todo[s] = 1 .. Len(todo[s])
  BY <1>1, EmptySeq, LenProperties
<1>. QED BY <1>1, <1>2, HeadTailProperties

LEMMA RequestInv ==
    ASSUME Disciplined, TypeOK, TypeOK', NEW s \in Sessions, SessionInv(s), Request(s)
    PROVE  SessionInv(s)'
<1>1. ASSUME NEW o \in Outcomes("add"), SendAdd(s, o)
      PROVE  SessionInv(s)'
  <2> DEFINE docs == Head(todo[s]).docs
  <2>1. todo[s] # << >> /\ Head(todo[s]).op = "add"
    BY <1>1 DEF SendAdd, Sending
  <2>2. docs # << >> => adds[s] > 0
    BY <2>1, HeadOfTodo DEF SessionInv
  <2>3. \/ UNCHANGED pending
        \/ docs # << >> /\ pending' = [pending EXCEPT ![s] = @ \cup {"add"}]
    BY <1>1 DEF SendAdd, Core!SolrAdd, solr
  <2>4. /\ "add" \in pending'[s] => adds[s] > 0
        /\ "delete" \in pending'[s] => deletes[s] > 0
    BY <2>2, <2>3 DEF SessionInv, TypeOK, Core!SolrTypeOK
  <2>. QED BY <1>1, <2>1, <2>4, UpdateInv DEF SendAdd
<1>2. ASSUME NEW o \in Outcomes("delete"), SendDelete(s, o)
      PROVE  SessionInv(s)'
  <2>1. todo[s] # << >> /\ Head(todo[s]).op = "delete"
    BY <1>2 DEF SendDelete, Sending
  <2>2. deletes[s] > 0
    BY <2>1, HeadOfTodo DEF SessionInv
  <2>3. UNCHANGED pending \/ pending' = [pending EXCEPT ![s] = @ \cup {"delete"}]
    BY <1>2 DEF SendDelete, Core!SolrDelete, solr
  <2>4. /\ "add" \in pending'[s] => adds[s] > 0
        /\ "delete" \in pending'[s] => deletes[s] > 0
    BY <2>2, <2>3 DEF SessionInv, TypeOK, Core!SolrTypeOK
  <2>. QED BY <1>2, <2>1, <2>4, UpdateInv DEF SendDelete
<1>3. ASSUME NEW o \in Outcomes("commit"), SendCommit(s, o)
      PROVE  SessionInv(s)'
  <2>1. todo[s] # << >> /\ Head(todo[s]).op = "commit"
    BY <1>3 DEF SendCommit, Sending
  <2>2. Len(todo[s]) = 1 /\ blocks[s] = 0
    BY <2>1, HeadOfTodo DEF SessionInv
  <2>3. todo[s] \in Seq(Requests)
    BY DEF TypeOK
  <2>4. Tail(todo[s]) = << >>
    <3>1. Tail(todo[s]) \in Seq(Requests) /\ Len(Tail(todo[s])) = 0
      BY <2>1, <2>2, <2>3, HeadTailProperties
    <3>. QED BY <3>1, EmptySeq
  <2>5. todo'[s] = << >>
    BY <1>3, <2>4 DEF SendCommit, Returns, Unwind, TypeOK
  <2>6. blocks'[s] = 0
    <3>1. blocks'[s] <= 0 /\ blocks'[s] \in Nat
      BY <1>3, <2>2, ReturnsBlocks DEF SendCommit, TypeOK
    <3>. QED BY <3>1
  <2>7. o # "refused"
    BY DEF Outcomes, Disciplined
  <2>8. pending'[s] = {}
    BY <1>3, <2>7 DEF SendCommit, Core!SolrCommit
  <2>9. UNCHANGED stack /\ Len(stack[s]) \in Nat /\ DOMAIN stack[s] = 1 .. Len(stack[s])
    BY <1>3, LenProperties DEF SendCommit, TypeOK
  <2>10. \A i \in DOMAIN stack'[s] : ~ (i > Len(stack'[s]) - blocks'[s])
    BY <2>6, <2>9
  <2>. QED BY <2>5, <2>8, <2>10 DEF SessionInv
<1>. QED BY <1>1, <1>2, <1>3 DEF Request

LEMMA RequestOthers ==
    ASSUME TypeOK, NEW s \in Sessions, Request(s), NEW r \in Sessions, r # s
    PROVE  /\ stack'[r] = stack[r]
           /\ todo'[r] = todo[r]
           /\ blocks'[r] = blocks[r]
           /\ adds'[r] = adds[r]
           /\ deletes'[r] = deletes[r]
           /\ pending'[r] \subseteq pending[r]
<1>1. ASSUME NEW o, Returns(s, o)
      PROVE  todo'[r] = todo[r] /\ blocks'[r] = blocks[r]
  BY <1>1 DEF Returns, Unwind, TypeOK
<1>2. ASSUME NEW o, SendAdd(s, o)
      PROVE  pending'[r] \subseteq pending[r]
  BY <1>2 DEF SendAdd, Core!SolrAdd, solr, TypeOK, Core!SolrTypeOK
<1>3. ASSUME NEW o, SendDelete(s, o)
      PROVE  pending'[r] \subseteq pending[r]
  BY <1>3 DEF SendDelete, Core!SolrDelete, solr, TypeOK, Core!SolrTypeOK
<1>4. ASSUME NEW o, SendCommit(s, o)
      PROVE  pending'[r] \subseteq pending[r] /\ adds'[r] = adds[r] /\ deletes'[r] = deletes[r]
  BY <1>4 DEF SendCommit, Core!SolrCommit, solr, TypeOK, Core!SolrTypeOK
<1>. QED BY <1>1, <1>2, <1>3, <1>4 DEF Request, SendAdd, SendDelete, SendCommit

LEMMA DirtyInductive == Disciplined => (Spec => []DirtyInv)
<1> SUFFICES ASSUME Disciplined PROVE Spec => []DirtyInv
  OBVIOUS
<1>1. Init => DirtyInv
  BY DEF Init, DirtyInv, OpenBatchesCounted, RequestsCounted, CommitsComeLast,
         PendingCounted, Core!SolrInit
<1>2. TypeOK /\ TypeOK' /\ StackCoversBlocks /\ DirtyInv /\ [Next]_vars => DirtyInv'
  <2> SUFFICES ASSUME TypeOK, TypeOK', StackCoversBlocks, DirtyInv, [Next]_vars,
                      NEW r \in Sessions
               PROVE  SessionInv(r)'
    BY DirtyInvSplitPrime
  <2>1. SessionInv(r)
    BY DirtyInvSplit
  <2>2. ASSUME NEW s \in Sessions, Call(s)
        PROVE  SessionInv(r)'
    <3>1. CASE r = s
      BY <2>1, <2>2, <3>1, CallInv
    <3>2. CASE r # s
      BY <2>1, <2>2, <3>2, CallOthers, OthersKept
    <3>. QED BY <3>1, <3>2
  <2>3. ASSUME NEW s \in Sessions, Request(s)
        PROVE  SessionInv(r)'
    <3>1. CASE r = s
      BY <2>1, <2>3, <3>1, RequestInv
    <3>2. CASE r # s
      BY <2>1, <2>3, <3>2, RequestOthers, OthersKept
    <3>. QED BY <3>1, <3>2
  <2>4. CASE UNCHANGED vars
    BY <2>1, <2>4, OthersKept DEF vars
  <2>. QED BY <2>2, <2>3, <2>4 DEF Next
<1>. QED BY <1>1, <1>2, TypeCorrect, NoCurrentBatchNeverRaised, PTL DEF Spec

\* With no uncounted removal, no commit inside a batch block and no commit
\* that Solr refuses, an unpublished update of a session keeps it dirty, so
\* that commit_if_dirty commits it: whatever else fails, whatever exceptions
\* leave the blocks, and whatever the other sessions do.
THEOREM DirtyIsSound == Disciplined => (Spec => []DirtySound)
<1> SUFFICES ASSUME Disciplined PROVE Spec => []DirtySound
  OBVIOUS
<1>1. TypeOK /\ DirtyInv => DirtySound
  <2> SUFFICES ASSUME TypeOK, DirtyInv, NEW s \in Sessions, pending[s] # {}
               PROVE  Dirty(s)
    BY DEF DirtySound
  <2>1. adds[s] \in Nat /\ deletes[s] \in Nat
    BY DEF TypeOK
  <2>2. "add" \in pending[s] \/ "delete" \in pending[s]
    BY DEF TypeOK, Core!SolrTypeOK
  <2>3. adds[s] > 0 \/ deletes[s] > 0
    BY <2>2 DEF DirtyInv, PendingCounted
  <2>. QED BY <2>1, <2>3 DEF Dirty
<1>. QED BY <1>1, DirtyInductive, TypeCorrect, PTL

\* Under the same discipline an unpublished removal keeps its session delete
\* dirty, so that commit_if_delete_dirty commits it.
THEOREM DeleteDirtyIsSound == Disciplined => (Spec => []DeleteDirtySound)
<1> SUFFICES ASSUME Disciplined PROVE Spec => []DeleteDirtySound
  OBVIOUS
<1>1. DirtyInv => DeleteDirtySound
  BY DEF DirtyInv, PendingCounted, DeleteDirtySound, DeleteDirty
<1>. QED BY <1>1, DirtyInductive, PTL

-----------------------------------------------------------------------------
(* The contract.  A document the indexer took waits in one place: part 0   *)
(* of a session are the documents of the requests it has yet to send, part *)
(* i those of the batch at position i of its stack.  Every step of Session *)
(* adds new documents to one part, moves the last batch to part 0, settles *)
(* part 0, or leaves all parts alone.                                      *)

TodoDocs(s) == UNION {DocsOf(todo[s][i].docs) : i \in DOMAIN todo[s]}

Part(s, i) ==
    IF i = 0 THEN TodoDocs(s)
    ELSE IF i \in DOMAIN stack[s] THEN DocsOf(stack[s][i]) ELSE {}

\* Only the request that is sent next may have documents.
DocsFirst(requests) ==
    \A i \in DOMAIN requests :
        requests[i].docs # << >> => i = 1 /\ requests[i].op = "add"

AddsComeFirst == \A s \in Sessions : DocsFirst(todo[s])

\* A document that was taken is settled or in one part, and never newer than
\* the last call.
OnePlace ==
    /\ \A d \in Docs : d \in accepted <=>
           d \in settled \/ \E s \in Sessions, i \in Nat : d \in Part(s, i)
    /\ \A s, r \in Sessions, i, j \in Nat : \A d \in Docs :
           d \in Part(s, i) /\ d \in Part(r, j) => s = r /\ i = j
    /\ \A s \in Sessions, i \in Nat : Part(s, i) \cap settled = {}
    /\ clock <= MaxCalls
    /\ \A d \in accepted : d.at <= clock

PlacesInv == AddsComeFirst /\ OnePlace

-----------------------------------------------------------------------------
(* The parts.                                                              *)

LEMMA DocsOfType ==
    ASSUME NEW docs \in Seq(Docs)
    PROVE  DocsOf(docs) \subseteq Docs
BY LenProperties, ElementOfSeq DEF DocsOf

LEMMA PartType ==
    ASSUME TypeOK, NEW s \in Sessions, NEW i \in Nat
    PROVE  Part(s, i) \subseteq Docs
<1>1. CASE i = 0
  <2>1. \A j \in DOMAIN todo[s] : todo[s][j].docs \in Seq(Docs)
    <3>1. todo[s] \in Seq(Requests)
      BY DEF TypeOK
    <3>2. \A j \in DOMAIN todo[s] : todo[s][j] \in Requests
      BY <3>1, LenProperties, ElementOfSeq
    <3>. QED BY <3>2 DEF Requests
  <2>. QED BY <1>1, <2>1, DocsOfType DEF Part, TodoDocs
<1>2. CASE i # 0 /\ i \in DOMAIN stack[s]
  <2>1. stack[s][i] \in Seq(Docs)
    BY <1>2, LenProperties, ElementOfSeq DEF TypeOK
  <2>. QED BY <1>2, <2>1, DocsOfType DEF Part
<1>. QED BY <1>1, <1>2 DEF Part

\* What waits in a session are its parts, and every unsent batch is one.
LEMMA WaitingParts ==
    ASSUME TypeOK, NEW s \in Sessions
    PROVE  /\ \A d : d \in Waiting(s) <=> \E i \in Nat : d \in Part(s, i)
           /\ \A i \in DOMAIN stack[s] : i \in Nat \ {0}
<1>1. DOMAIN stack[s] = 1 .. Len(stack[s]) /\ Len(stack[s]) \in Nat
  BY LenProperties DEF TypeOK
<1>2. \A i \in DOMAIN stack[s] : i \in Nat \ {0}
  BY <1>1
<1>3. ASSUME NEW d, d \in Waiting(s)
      PROVE  \E i \in Nat : d \in Part(s, i)
  <2>1. \/ \E i \in DOMAIN stack[s] : d \in DocsOf(stack[s][i])
        \/ \E i \in DOMAIN todo[s] : d \in DocsOf(todo[s][i].docs)
    BY <1>3 DEF Waiting, Unsent
  <2>2. CASE \E i \in DOMAIN stack[s] : d \in DocsOf(stack[s][i])
    BY <1>2, <2>2 DEF Part
  <2>3. CASE \E i \in DOMAIN todo[s] : d \in DocsOf(todo[s][i].docs)
    BY <2>3 DEF Part, TodoDocs
  <2>. QED BY <2>1, <2>2, <2>3
<1>4. ASSUME NEW i \in Nat, NEW d \in Part(s, i)
      PROVE  d \in Waiting(s)
  <2>1. CASE i = 0
    BY <1>4, <2>1 DEF Part, TodoDocs, Waiting, Unsent
  <2>2. CASE i # 0
    BY <1>4, <2>2 DEF Part, Waiting, Unsent
  <2>. QED BY <2>1, <2>2
<1>. QED BY <1>2, <1>3, <1>4

-----------------------------------------------------------------------------
(* What a step does to the parts.                                          *)

OthersSame(s) == \A r \in Sessions \ {s}, i \in Nat : Part(r, i)' = Part(r, i)

\* New documents are added to one part.
Takes(s, n, D) ==
    /\ D \subseteq Docs /\ \A d \in D : d.at = clock + 1
    /\ clock < MaxCalls /\ clock' = clock + 1
    /\ accepted' = accepted \cup D /\ settled' = settled
    /\ \A i \in Nat : Part(s, i)' = IF i = n THEN Part(s, i) \cup D ELSE Part(s, i)
    /\ OthersSame(s)
    /\ UNCHANGED <<core, searcher>>

\* The batch at position n is lined up to be sent.
Flushes(s, n) ==
    /\ n # 0 /\ Part(s, 0) = {}
    /\ \A i \in Nat : Part(s, i)' = IF i = 0 THEN Part(s, n)
                                    ELSE IF i = n THEN {} ELSE Part(s, i)
    /\ OthersSame(s)
    /\ UNCHANGED <<clock, accepted, settled, core, searcher>>

\* The documents of the request are sent, or given up.
Settles(s) ==
    /\ \A i \in Nat : Part(s, i)' = IF i = 0 THEN {} ELSE Part(s, i)
    /\ settled' = settled \cup Part(s, 0)
    /\ OthersSame(s)
    /\ UNCHANGED <<clock, accepted>>

Leaves ==
    /\ \A s \in Sessions, i \in Nat : Part(s, i)' = Part(s, i)
    /\ UNCHANGED <<accepted, settled>>
    /\ clock' = clock \/ (clock < MaxCalls /\ clock' = clock + 1)

NoDocs(requests) == \A i \in DOMAIN requests : requests[i].docs = << >>

\* The state of one session decides its parts.
LEMMA PartLocal ==
    ASSUME NEW s, NEW i, todo'[s] = todo[s], stack'[s] = stack[s]
    PROVE  Part(s, i)' = Part(s, i)
BY DEF Part, TodoDocs, DocsOf

LEMMA NothingTodo ==
    ASSUME NEW s, NoDocs(todo[s])
    PROVE  TodoDocs(s) = {}
<1>1. DocsOf(<< >>) = {}
  BY DEF DocsOf
<1>. QED BY <1>1 DEF TodoDocs, NoDocs

LEMMA NothingTodoNext ==
    ASSUME NEW s, NoDocs(todo'[s])
    PROVE  TodoDocs(s)' = {}
<1>1. DocsOf(<< >>) = {}
  BY DEF DocsOf
<1>2. \A i \in DOMAIN todo'[s] : DocsOf(todo'[s][i].docs) = {}
  BY <1>1 DEF NoDocs
<1>3. TodoDocs(s)' = UNION {DocsOf(todo'[s][i].docs) : i \in DOMAIN todo'[s]}
  BY DEF TodoDocs, DocsOf
<1>. QED BY <1>2, <1>3

\* The requests of removals and commits have no documents.
LEMMA CommitAfter ==
    ASSUME NEW requests \in Seq(Requests), NoDocs(requests)
    PROVE  NoDocs(requests \o <<CommitRequest>>)
<1> DEFINE all == requests \o <<CommitRequest>>
<1>1. <<CommitRequest>> \in Seq(Requests) /\ Len(<<CommitRequest>>) = 1
      /\ Len(requests) \in Nat /\ DOMAIN requests = 1 .. Len(requests)
  BY RequestTypes, LenProperties
<1>2. /\ all \in Seq(Requests)
      /\ Len(all) = Len(requests) + 1
      /\ \A i \in 1 .. Len(requests) + 1 :
             all[i] = IF i <= Len(requests) THEN requests[i]
                      ELSE <<CommitRequest>>[i - Len(requests)]
  BY <1>1, ConcatProperties
<1> HIDE DEF all
<1>3. DOMAIN all = 1 .. Len(requests) + 1
  BY <1>2, LenProperties
<1>4. ASSUME NEW i \in DOMAIN all
      PROVE  all[i].docs = << >>
  <2>1. CASE i <= Len(requests)
    <3>1. i \in DOMAIN requests /\ all[i] = requests[i]
      BY <1>1, <1>2, <1>3, <2>1
    <3>. QED BY <3>1 DEF NoDocs
  <2>2. CASE ~(i <= Len(requests))
    <3>1. i - Len(requests) = 1
      BY <1>1, <1>3, <2>2
    <3>2. all[i] = CommitRequest
      BY <1>2, <1>3, <2>2, <3>1
    <3>. QED BY <3>2 DEF CommitRequest
  <2>. QED BY <2>1, <2>2
<1>5. NoDocs(all)
  BY <1>4 DEF NoDocs
<1>. QED BY <1>5 DEF all

LEMMA RemovalsNoDocs ==
    /\ NoDocs(<< >>) /\ NoDocs(<<CommitRequest>>)
    /\ \A list \in Lists : /\ NoDocs(RemoveRequests(list))
                           /\ NoDocs(RemoveRequests(list) \o <<CommitRequest>>)
    /\ \A ids : /\ NoDocs(<<DeleteRequest(ids)>>)
                /\ NoDocs(<<DeleteRequest(ids), CommitRequest>>)
    /\ \A classes \in RemoveAllArgs :
          /\ NoDocs(RemoveAllRequests(classes))
          /\ NoDocs(RemoveAllRequests(classes) \o <<CommitRequest>>)
<1>1. NoDocs(<< >>) /\ NoDocs(<<CommitRequest>>)
  BY DEF NoDocs, CommitRequest
<1>2. ASSUME NEW list \in Lists
      PROVE  /\ NoDocs(RemoveRequests(list))
             /\ NoDocs(RemoveRequests(list) \o <<CommitRequest>>)
  <2>1. NoDocs(RemoveRequests(list))
    BY DEF NoDocs, RemoveRequests, DeleteRequest
  <2>. QED BY <2>1, RemoveRequestsType, CommitAfter
<1>3. ASSUME NEW ids
      PROVE  /\ NoDocs(<<DeleteRequest(ids)>>)
             /\ NoDocs(<<DeleteRequest(ids), CommitRequest>>)
  <2>1. DeleteRequest(ids).docs = << >> /\ CommitRequest.docs = << >>
    BY DEF DeleteRequest, CommitRequest
  <2>. QED BY <2>1 DEF NoDocs
<1>4. ASSUME NEW classes \in RemoveAllArgs
      PROVE  /\ NoDocs(RemoveAllRequests(classes))
             /\ NoDocs(RemoveAllRequests(classes) \o <<CommitRequest>>)
  <2>1. NoDocs(RemoveAllRequests(classes))
    BY DEF NoDocs, RemoveAllRequests, DeleteRequest
  <2>. QED BY <2>1, RemoveAllType, CommitAfter
<1>. QED BY <1>1, <1>2, <1>3, <1>4

\* A call that has no request to send yet, and no documents for one.
LEMMA IdleTodo ==
    ASSUME NEW s, todo[s] = << >>
    PROVE  NoDocs(todo[s]) /\ Part(s, 0) = {}
BY RemovalsNoDocs, NothingTodo DEF Part

-----------------------------------------------------------------------------
(* The calls.                                                              *)

\* A call that takes no document changes no part: it sends removals or
\* commits, opens an empty batch, or leaves the stack alone.
LEMMA NothingTaken ==
    ASSUME TypeOK, NEW s \in Sessions, todo[s] = << >>, NoDocs(todo'[s]),
           stack'[s] = stack[s] \/ stack'[s] = start_new(stack[s]), NEW i \in Nat
    PROVE  Part(s, i)' = Part(s, i)
<1>1. CASE i = 0
  BY <1>1, IdleTodo, NothingTodoNext DEF Part
<1>2. CASE i # 0 /\ stack'[s] = stack[s]
  BY <1>2 DEF Part, DocsOf
<1>3. CASE i # 0 /\ stack'[s] = start_new(stack[s])
  <2> DEFINE st == stack[s]
             new == start_new(st)
  <2>1. /\ st \in Seq(Seq(Docs)) /\ new \in Seq(Seq(Docs))
        /\ Len(new) = Len(st) + 1 /\ Len(st) \in Nat
        /\ \A j \in 1 .. Len(st) : new[j] = st[j]
        /\ new[Len(st) + 1] = << >>
    BY StackTypes, LenProperties DEF TypeOK
  <2>2. DOMAIN st = 1 .. Len(st) /\ DOMAIN new = 1 .. Len(st) + 1
    BY <2>1, LenProperties
  <2>3. Part(s, i)' = IF i \in DOMAIN new THEN DocsOf(new[i]) ELSE {}
    BY <1>3 DEF Part, DocsOf
  <2>4. Part(s, i) = IF i \in DOMAIN st THEN DocsOf(st[i]) ELSE {}
    BY <1>3 DEF Part
  <2> HIDE DEF st, new
  <2>5. CASE i \in 1 .. Len(st)
    <3>1. i \in DOMAIN new /\ i \in DOMAIN st /\ new[i] = st[i]
      BY <2>1, <2>2, <2>5
    <3>. QED BY <2>3, <2>4, <3>1
  <2>6. CASE i = Len(st) + 1
    <3>1. i \notin DOMAIN st /\ new[i] = << >>
      BY <2>1, <2>2, <2>6
    <3>. QED BY <2>3, <2>4, <3>1 DEF DocsOf
  <2>7. CASE i > Len(st) + 1
    <3>1. i \notin DOMAIN st /\ i \notin DOMAIN new
      BY <2>1, <2>2, <2>7
    <3>. QED BY <2>3, <2>4, <3>1
  <2>8. i \in 1 .. Len(st) \/ i = Len(st) + 1 \/ i > Len(st) + 1
    BY <1>3, <2>1
  <2>. QED BY <2>5, <2>6, <2>7, <2>8
<1>. QED BY <1>1, <1>2, <1>3

LEMMA OthersParts ==
    ASSUME TypeOK, NEW s \in Sessions, Call(s) \/ Request(s)
    PROVE  OthersSame(s)
BY CallOthers, RequestOthers, PartLocal DEF OthersSame

\* The documents of one more sequence in a batch, or in a request.
LEMMA DocsOfConcat ==
    ASSUME NEW a \in Seq(Docs), NEW b \in Seq(Docs)
    PROVE  DocsOf(a \o b) = DocsOf(a) \cup DocsOf(b)
<1> DEFINE c == a \o b
<1>1. /\ c \in Seq(Docs) /\ Len(c) = Len(a) + Len(b) /\ Len(a) \in Nat /\ Len(b) \in Nat
      /\ \A i \in 1 .. Len(a) + Len(b) :
             c[i] = IF i <= Len(a) THEN a[i] ELSE b[i - Len(a)]
  BY ConcatProperties, LenProperties
<1> HIDE DEF c
<1>2. DOMAIN a = 1 .. Len(a) /\ DOMAIN b = 1 .. Len(b) /\ DOMAIN c = 1 .. Len(a) + Len(b)
  BY <1>1, LenProperties
<1>3. DocsOf(c) \subseteq DocsOf(a) \cup DocsOf(b)
  <2>. SUFFICES ASSUME NEW i \in 1 .. Len(a) + Len(b)
                PROVE  c[i] \in DocsOf(a) \cup DocsOf(b)
    BY <1>2 DEF DocsOf
  <2>1. CASE i <= Len(a)
    <3>1. i \in DOMAIN a
      BY <1>1, <1>2, <2>1
    <3>. QED BY <1>1, <2>1, <3>1 DEF DocsOf
  <2>2. CASE ~(i <= Len(a))
    <3>1. i - Len(a) \in DOMAIN b
      BY <1>1, <1>2, <2>2
    <3>. QED BY <1>1, <2>2, <3>1 DEF DocsOf
  <2>. QED BY <2>1, <2>2
<1>4. DocsOf(a) \subseteq DocsOf(c)
  <2>. SUFFICES ASSUME NEW i \in DOMAIN a
                PROVE  a[i] \in DocsOf(c)
    BY DEF DocsOf
  <2>1. i \in DOMAIN c /\ i <= Len(a) /\ i \in 1 .. Len(a) + Len(b)
    BY <1>1, <1>2
  <2>. QED BY <1>1, <2>1 DEF DocsOf
<1>5. DocsOf(b) \subseteq DocsOf(c)
  <2>. SUFFICES ASSUME NEW i \in DOMAIN b
                PROVE  b[i] \in DocsOf(c)
    BY DEF DocsOf
  <2> DEFINE n == i + Len(a)
  <2>1. n \in DOMAIN c /\ ~(n <= Len(a)) /\ n \in 1 .. Len(a) + Len(b) /\ n - Len(a) = i
    BY <1>1, <1>2
  <2> HIDE DEF n
  <2>. QED BY <1>1, <2>1 DEF DocsOf
<1>6. DocsOf(c) = DocsOf(a) \cup DocsOf(b)
  BY <1>3, <1>4, <1>5
<1>. QED BY <1>6 DEF c

\* An add request comes before the commit of its call.
LEMMA AddFirst ==
    ASSUME NEW docs \in Seq(Docs), NEW after \in {<< >>, <<CommitRequest>>}
    PROVE  LET all == <<AddRequest(docs)>> \o after
           IN  /\ all \in Seq(Requests)
               /\ 1 \in DOMAIN all /\ all[1] = AddRequest(docs) /\ all[1].docs = docs
               /\ \A i \in DOMAIN all : i # 1 =>
                      all[i].docs = << >> /\ all[i] = CommitRequest
<1> DEFINE one == <<AddRequest(docs)>>
           all == one \o after
<1>1. AddRequest(docs) \in Requests /\ CommitRequest \in Requests
  BY RequestTypes
<1>2. one \in Seq(Requests) /\ Len(one) = 1 /\ one[1] = AddRequest(docs)
  BY <1>1
<1>3. /\ after \in Seq(Requests) /\ Len(after) \in {0, 1}
      /\ \A i \in 1 .. Len(after) : after[i] = CommitRequest
  <2>1. CASE after = << >>
    BY <2>1, EmptySeq
  <2>2. CASE after = <<CommitRequest>>
    BY <1>1, <2>2
  <2>. QED BY <2>1, <2>2
<1> HIDE DEF one
<1>4. /\ all \in Seq(Requests) /\ Len(all) = 1 + Len(after)
      /\ \A i \in 1 .. 1 + Len(after) : all[i] = IF i <= 1 THEN one[i] ELSE after[i - 1]
  BY <1>2, <1>3, ConcatProperties
<1> HIDE DEF all
<1>5. DOMAIN all = 1 .. 1 + Len(after)
  BY <1>4, LenProperties
<1>6. 1 \in DOMAIN all /\ all[1] = AddRequest(docs)
  BY <1>2, <1>3, <1>4, <1>5
<1>7. \A i \in DOMAIN all : i # 1 => all[i] = CommitRequest
  BY <1>3, <1>4, <1>5
<1>8. AddRequest(docs).docs = docs /\ CommitRequest.docs = << >>
  BY DEF AddRequest, CommitRequest
<1>. QED BY <1>4, <1>6, <1>7, <1>8 DEF all, one

\* index and atomic_update: the documents go to the last batch, or to the
\* request of the call.
LEMMA AddTakes ==
    ASSUME TypeOK, NEW s \in Sessions, todo[s] = << >>, NEW list \in Lists,
           NEW after \in {<< >>, <<CommitRequest>>}, clock < MaxCalls, clock' = clock + 1,
           AddDocuments(s, list, after), OthersSame(s)
    PROVE  \E n \in Nat : Takes(s, n, DocsOf(Prepared(list)))
<1> DEFINE docs == Prepared(list)
           D == DocsOf(docs)
<1>1. docs \in Seq(Docs) /\ D \subseteq Docs
  BY PreparedType, DocsOfType DEF TypeOK
<1>2. \A d \in D : d.at = clock + 1
  BY DEF DocsOf, Prepared
<1>3. /\ accepted' = accepted \cup D /\ settled' = settled
      /\ UNCHANGED <<core, searcher>>
  BY DEF AddDocuments, solr, DocsOf
<1>4. ASSUME NEW n \in Nat,
             \A i \in Nat : Part(s, i)' = IF i = n THEN Part(s, i) \cup D ELSE Part(s, i)
      PROVE  Takes(s, n, D)
  BY <1>1, <1>2, <1>3, <1>4 DEF Takes
<1>5. CASE batching(stack[s])
  <2> DEFINE st == stack[s]
             new == concat(st, docs)
             n == Len(st)
  <2>1. /\ st \in Seq(Seq(Docs)) /\ n \in Nat /\ n > 0 /\ DOMAIN st = 1 .. n
    BY <1>5, LenProperties DEF TypeOK, batching, depth
  <2>2. /\ new \in Seq(Seq(Docs)) /\ Len(new) = n
        /\ \A i \in 1 .. n : new[i] = IF i = n THEN st[i] \o docs ELSE st[i]
    BY <1>1, <1>5, <2>1, ConcatType
  <2>3. stack'[s] = new /\ todo'[s] = after
    BY <1>5 DEF AddDocuments, TypeOK
  <2>4. Part(s, 0)' = Part(s, 0)
    BY <2>3, IdleTodo, NothingTodoNext, RemovalsNoDocs DEF Part
  <2>5. DOMAIN new = 1 .. n
    <3> HIDE DEF new, st, n
    <3>. QED BY <2>2, LenProperties
  <2>6. st[n] \in Seq(Docs)
    BY <2>1, ElementOfSeq
  <2>7. ASSUME NEW i \in Nat, i # 0
        PROVE  Part(s, i)' = IF i = n THEN Part(s, i) \cup D ELSE Part(s, i)
    <3>1. Part(s, i)' = IF i \in DOMAIN new THEN DocsOf(new[i]) ELSE {}
      BY <2>3, <2>7 DEF Part, DocsOf
    <3>2. Part(s, i) = IF i \in DOMAIN st THEN DocsOf(st[i]) ELSE {}
      BY <2>7 DEF Part
    <3> HIDE DEF new, st, n, docs, D
    <3>3. CASE i \in 1 .. n /\ i # n
      BY <2>1, <2>2, <2>5, <3>1, <3>2, <3>3
    <3>4. CASE i = n
      <4>0. n \in 1 .. n
        BY <2>1
      <4>1. new[n] = st[n] \o docs /\ n \in DOMAIN new /\ n \in DOMAIN st
        BY <2>1, <2>2, <2>5, <4>0
      <4>2. DocsOf(new[n]) = DocsOf(st[n]) \cup DocsOf(docs)
        BY <1>1, <2>6, <4>1, DocsOfConcat
      <4>. QED BY <3>1, <3>2, <3>4, <4>1, <4>2 DEF D
    <3>5. CASE i \notin 1 .. n
      BY <2>1, <2>5, <3>1, <3>2, <3>5
    <3>. QED BY <3>3, <3>4, <3>5
  <2>8. \A i \in Nat : Part(s, i)' = IF i = n THEN Part(s, i) \cup D ELSE Part(s, i)
    <3> HIDE DEF n, D
    <3>. QED BY <2>1, <2>4, <2>7
  <2>. QED BY <1>4, <2>1, <2>8
<1>6. CASE ~batching(stack[s])
  <2> DEFINE all == <<AddRequest(docs)>> \o after
  <2>1. stack'[s] = stack[s] /\ todo'[s] = all
    BY <1>6 DEF AddDocuments, TypeOK
  <2>2. /\ 1 \in DOMAIN all /\ all[1].docs = docs
        /\ \A i \in DOMAIN all : i # 1 => all[i].docs = << >>
    BY <1>1, AddFirst
  <2>5. Part(s, 0)' = D
    <3>1. Part(s, 0)' = UNION {DocsOf(all[i].docs) : i \in DOMAIN all}
      BY <2>1 DEF Part, TodoDocs, DocsOf
    <3>2. DocsOf(<< >>) = {}
      BY DEF DocsOf
    <3> HIDE DEF all, docs
    <3>. QED BY <2>2, <3>1, <3>2
  <2>6. \A i \in Nat : i # 0 => Part(s, i)' = Part(s, i)
    BY <2>1 DEF Part, DocsOf
  <2>7. Part(s, 0) = {}
    BY IdleTodo
  <2>8. \A i \in Nat : Part(s, i)' = IF i = 0 THEN Part(s, i) \cup D ELSE Part(s, i)
    <3> HIDE DEF D
    <3>. QED BY <2>5, <2>6, <2>7
  <2>. QED BY <1>4, <2>8
<1>. QED BY <1>5, <1>6
\* The end of a block: its batch becomes the request of the call.
LEMMA FlushMoves ==
    ASSUME TypeOK, NEW s \in Sessions, FlushBatch(s), OthersSame(s)
    PROVE  Flushes(s, Len(stack[s]))
<1> DEFINE st == stack[s]
           new == end_current(st)
           n == Len(st)
           batch == current(st)
<1>1. /\ todo[s] = << >> /\ stack'[s] = new /\ todo'[s] = <<AddRequest(batch)>>
      /\ UNCHANGED <<clock, accepted, settled, core, searcher>>
  BY DEF FlushBatch, TypeOK, history, solr
<1>2. st \in Seq(Seq(Docs)) /\ n \in Nat /\ n > 0 /\ DOMAIN st = 1 .. n /\ st # << >>
  BY LenProperties, EmptySeq DEF FlushBatch, TypeOK, depth
<1>3. /\ new \in Seq(Seq(Docs)) /\ Len(new) = n - 1
      /\ \A i \in 1 .. n - 1 : new[i] = st[i]
  BY <1>2, StackTypes
<1>4. Part(s, 0) = {}
  BY <1>1, IdleTodo
<1>5. Part(s, n) = DocsOf(batch)
  BY <1>2 DEF Part, current
<1>6. Part(s, 0)' = DocsOf(batch)
  <2> HIDE DEF batch
  <2>1. AddRequest(batch).docs = batch
    BY DEF AddRequest
  <2>2. Part(s, 0)' = UNION {DocsOf(todo'[s][i].docs) : i \in DOMAIN todo'[s]}
    BY DEF Part, TodoDocs, DocsOf
  <2>3. DOMAIN todo'[s] = {1} /\ todo'[s][1] = AddRequest(batch)
    BY <1>1
  <2>. QED BY <2>1, <2>2, <2>3
<1>7. ASSUME NEW i \in Nat, i # 0
      PROVE  Part(s, i)' = IF i = n THEN {} ELSE Part(s, i)
  <2>1. Part(s, i)' = IF i \in DOMAIN new THEN DocsOf(new[i]) ELSE {}
    BY <1>1, <1>7 DEF Part, DocsOf
  <2>2. Part(s, i) = IF i \in DOMAIN st THEN DocsOf(st[i]) ELSE {}
    BY <1>7 DEF Part
  <2> HIDE DEF new, st, n
  <2>3. DOMAIN new = 1 .. n - 1
    BY <1>2, <1>3, LenProperties
  <2>4. CASE i = n
    <3>1. i \notin DOMAIN new
      BY <1>2, <2>3, <2>4
    <3>. QED BY <2>1, <2>4, <3>1
  <2>5. CASE i \in 1 .. n - 1
    <3>1. i # n /\ i \in DOMAIN new /\ i \in DOMAIN st /\ new[i] = st[i]
      BY <1>2, <1>3, <2>3, <2>5
    <3>. QED BY <2>1, <2>2, <3>1
  <2>6. CASE i > n
    <3>1. i # n /\ i \notin DOMAIN new /\ i \notin DOMAIN st
      BY <1>2, <2>3, <2>6
    <3>. QED BY <2>1, <2>2, <3>1
  <2>7. i = n \/ i \in 1 .. n - 1 \/ i > n
    BY <1>2, <1>7
  <2>. QED BY <2>4, <2>5, <2>6, <2>7
<1>8. n # 0 /\ n \in Nat
  BY <1>2
<1> HIDE DEF st, new, n, batch
<1>9. \A i \in Nat : Part(s, i)' = IF i = 0 THEN Part(s, n)
                                   ELSE IF i = n THEN {} ELSE Part(s, i)
  BY <1>5, <1>6, <1>7
<1>10. Flushes(s, n)
  BY <1>1, <1>4, <1>8, <1>9 DEF Flushes
<1>. QED BY <1>10 DEF n, st

\* Every other call leaves the parts.
LEMMA CallLeaves ==
    ASSUME TypeOK, NEW s \in Sessions, OthersSame(s), todo[s] = << >>, NoDocs(todo'[s]),
           stack'[s] = stack[s] \/ stack'[s] = start_new(stack[s]),
           clock' = clock \/ (clock < MaxCalls /\ clock' = clock + 1),
           UNCHANGED <<accepted, settled>>
    PROVE  Leaves
<1>1. ASSUME NEW r \in Sessions, NEW i \in Nat
      PROVE  Part(r, i)' = Part(r, i)
  <2>1. CASE r = s
    BY <2>1, NothingTaken
  <2>2. CASE r # s
    BY <2>2 DEF OthersSame
  <2>. QED BY <2>1, <2>2
<1>. QED BY <1>1 DEF Leaves

\* What a call does to todo, the stack and the clock when it takes no document.
Harmless(s) ==
    /\ todo[s] = << >> /\ NoDocs(todo'[s])
    /\ stack'[s] = stack[s] \/ stack'[s] = start_new(stack[s])
    /\ clock' = clock \/ (clock < MaxCalls /\ clock' = clock + 1)
    /\ UNCHANGED <<accepted, settled, core, searcher>>

LEMMA DeleteHarmless ==
    ASSUME TypeOK, NEW s \in Sessions, NEW op, Calls(s, op), NEW n, NEW ids,
           NEW requests, NoDocs(requests), DeleteDocuments(s, n, ids, requests)
    PROVE  Harmless(s)
<1>1. todo'[s] = requests /\ todo[s] = << >>
  BY DEF DeleteDocuments, Calls, TypeOK
<1>2. clock < MaxCalls /\ clock' = clock + 1
  BY DEF Calls
<1>3. UNCHANGED <<accepted, settled, core, searcher, stack>>
  BY DEF DeleteDocuments, solr
<1>. QED BY <1>1, <1>2, <1>3 DEF Harmless

LEMMA CommitHarmless ==
    ASSUME TypeOK, NEW s \in Sessions, NEW op, Calls(s, op), JustCommit(s)
    PROVE  Harmless(s)
<1>1. todo'[s] = <<CommitRequest>> /\ todo[s] = << >>
  BY DEF JustCommit, Calls, TypeOK
<1>2. clock < MaxCalls /\ clock' = clock + 1
  BY DEF Calls
<1>3. UNCHANGED <<accepted, settled, core, searcher, stack>>
  BY DEF JustCommit, solr, history
<1>. QED BY <1>1, <1>2, <1>3, RemovalsNoDocs DEF Harmless

\* A call takes the documents of one list, lines up the last batch, or leaves
\* the parts; it never touches the index.
LEMMA CallStep ==
    ASSUME TypeOK, NEW s \in Sessions, Call(s)
    PROVE  /\ UNCHANGED <<core, searcher>>
           /\ \/ \E n \in Nat : \E D : Takes(s, n, D)
              \/ \E n \in Nat : Flushes(s, n)
              \/ Leaves
<1> DEFINE Kinds == \/ \E n \in Nat : \E D : Takes(s, n, D)
                    \/ \E n \in Nat : Flushes(s, n)
                    \/ Leaves
<1>1. OthersSame(s)
  BY OthersParts
<1>2. ASSUME NEW list \in Lists, NEW after \in {<< >>, <<CommitRequest>>}, NEW op,
             Calls(s, op), AddDocuments(s, list, after)
      PROVE  Kinds /\ UNCHANGED <<core, searcher>>
  <2>1. todo[s] = << >> /\ clock < MaxCalls /\ clock' = clock + 1
    BY <1>2 DEF Calls
  <2>2. UNCHANGED <<core, searcher>>
    BY <1>2 DEF AddDocuments, solr
  <2>3. \E n \in Nat : Takes(s, n, DocsOf(Prepared(list)))
    BY <1>1, <1>2, <2>1, AddTakes
  <2>. QED BY <2>2, <2>3
<1>3. ASSUME Harmless(s)
      PROVE  Kinds /\ UNCHANGED <<core, searcher>>
  <2>1. Leaves
    BY <1>1, <1>3, CallLeaves DEF Harmless
  <2>. QED BY <1>3, <2>1 DEF Harmless
<1> HIDE DEF Kinds
<1>4. ASSUME NEW list \in Lists,
             \/ Index(s, list) \/ IndexNow(s, list)
             \/ AtomicUpdate(s, list) \/ AtomicUpdateNow(s, list)
      PROVE  Kinds /\ UNCHANGED <<core, searcher>>
  BY <1>2, <1>4 DEF Index, IndexNow, AtomicUpdate, AtomicUpdateNow
<1>5. ASSUME NEW list \in Lists, PrepareFails(s, list)
      PROVE  Harmless(s)
  <2>1. /\ todo[s] = << >> /\ clock < MaxCalls /\ clock' = clock + 1
    BY <1>5 DEF PrepareFails, Calls
  <2>2. todo'[s] = << >>
    BY <1>5 DEF PrepareFails, Unwind, TypeOK
  <2>3. UNCHANGED <<accepted, settled, core, searcher, stack>>
    BY <1>5 DEF PrepareFails, solr, history
  <2>. QED BY <2>1, <2>2, <2>3, RemovalsNoDocs DEF Harmless
<1>6. ASSUME NEW list \in Lists, Remove(s, list) \/ RemoveNow(s, list)
      PROVE  Harmless(s)
  BY <1>6, RemovalsNoDocs, DeleteHarmless DEF Remove, RemoveNow
<1>7. ASSUME NEW ids \in SUBSET Keys, RemoveById(s, ids) \/ RemoveByIdNow(s, ids)
      PROVE  Harmless(s)
  BY <1>7, RemovalsNoDocs, DeleteHarmless DEF RemoveById, RemoveByIdNow
<1>8. ASSUME NEW ids \in SUBSET Keys, NEW type \in Types,
             RemoveByScope(s, type, ids) \/ RemoveByScopeNow(s, type, ids)
      PROVE  Harmless(s)
  BY <1>8, RemovalsNoDocs, DeleteHarmless DEF RemoveByScope, RemoveByScopeNow
<1>9. ASSUME NEW classes \in RemoveAllArgs, RemoveAll(s, classes) \/ RemoveAllNow(s, classes)
      PROVE  Harmless(s)
  BY <1>9, RemovalsNoDocs, DeleteHarmless DEF RemoveAll, RemoveAllNow
<1>10. ASSUME Commit(s) \/ Optimize(s) \/ CommitIfDirty(s) \/ CommitIfDeleteDirty(s)
       PROVE  Harmless(s)
  BY <1>10, CommitHarmless DEF Commit, Optimize, CommitIfDirty, CommitIfDeleteDirty
<1>11. ASSUME StartBatch(s)
       PROVE  Harmless(s)
  <2>1. /\ todo[s] = << >> /\ clock < MaxCalls /\ clock' = clock + 1
    BY <1>11 DEF StartBatch, Calls
  <2>2. UNCHANGED <<accepted, settled, core, searcher, todo>>
    BY <1>11 DEF StartBatch, solr, history
  <2>3. stack'[s] = start_new(stack[s])
    BY <1>11 DEF StartBatch, TypeOK
  <2>. QED BY <2>1, <2>2, <2>3, RemovalsNoDocs DEF Harmless
<1>12. ASSUME BlockRaises(s)
       PROVE  Harmless(s)
  <2>1. todo[s] = << >> /\ UNCHANGED <<accepted, settled, core, searcher, todo, stack, clock>>
    BY <1>12 DEF BlockRaises, solr, history
  <2>. QED BY <2>1, RemovalsNoDocs DEF Harmless
<1>13. ASSUME FlushBatch(s)
       PROVE  Kinds /\ UNCHANGED <<core, searcher>>
  <2>1. Len(stack[s]) \in Nat
    BY LenProperties DEF TypeOK
  <2>2. Flushes(s, Len(stack[s]))
    BY <1>1, <1>13, FlushMoves
  <2>. QED BY <2>1, <2>2 DEF Flushes, Kinds
<1>14. Kinds /\ UNCHANGED <<core, searcher>>
  BY <1>3, <1>4, <1>5, <1>6, <1>7, <1>8, <1>9, <1>10, <1>11, <1>12, <1>13 DEF Call
<1>. QED BY <1>14 DEF Kinds
-----------------------------------------------------------------------------
(* The requests.                                                           *)

\* A call lines up its add request, if it has one, before the others.
LEMMA CallDocsFirst ==
    ASSUME TypeOK, NEW s \in Sessions, Call(s)
    PROVE  DocsFirst(todo'[s])
<1>1. ASSUME NEW list \in Lists, NEW after \in {<< >>, <<CommitRequest>>},
             AddDocuments(s, list, after)
      PROVE  DocsFirst(todo'[s])
  <2>1. NoDocs(after)
    BY RemovalsNoDocs
  <2> DEFINE docs == Prepared(list)
  <2>2. docs \in Seq(Docs)
    BY PreparedType DEF TypeOK
  <2>3. todo'[s] = after \/ todo'[s] = <<AddRequest(docs)>> \o after
    BY <1>1 DEF AddDocuments, TypeOK
  <2> HIDE DEF docs
  <2> DEFINE all == <<AddRequest(docs)>> \o after
  <2>4. /\ 1 \in DOMAIN all /\ all[1] = AddRequest(docs)
        /\ \A i \in DOMAIN all : i # 1 => all[i].docs = << >>
    BY <2>2, AddFirst
  <2> HIDE DEF all
  <2>5. DocsFirst(all)
    BY <2>4 DEF DocsFirst, AddRequest
  <2>6. DocsFirst(after)
    BY <2>1 DEF DocsFirst, NoDocs
  <2>. QED BY <2>3, <2>5, <2>6 DEF all
<1>2. ASSUME NEW requests, NoDocs(requests)
      PROVE  DocsFirst(requests)
  BY <1>2 DEF NoDocs, DocsFirst
<1>3. ASSUME FlushBatch(s)
      PROVE  DocsFirst(todo'[s])
  <2>1. todo'[s] = <<AddRequest(current(stack[s]))>>
    BY <1>3 DEF FlushBatch, TypeOK
  <2>. QED BY <2>1 DEF DocsFirst, AddRequest
<1>4. ASSUME NEW n, NEW ids, NEW requests, NoDocs(requests),
             DeleteDocuments(s, n, ids, requests)
      PROVE  DocsFirst(todo'[s])
  BY <1>2, <1>4 DEF DeleteDocuments, TypeOK
<1>5. ASSUME JustCommit(s)
      PROVE  DocsFirst(todo'[s])
  BY <1>2, <1>5, RemovalsNoDocs DEF JustCommit, TypeOK
<1>6. ASSUME NEW list \in Lists, PrepareFails(s, list)
      PROVE  DocsFirst(todo'[s])
  BY <1>2, <1>6, RemovalsNoDocs DEF PrepareFails, Unwind, TypeOK
<1>7. ASSUME StartBatch(s) \/ BlockRaises(s)
      PROVE  DocsFirst(todo'[s])
  BY <1>2, <1>7, RemovalsNoDocs DEF StartBatch, BlockRaises, Calls
<1>8. ASSUME NEW list \in Lists,
             \/ Index(s, list) \/ IndexNow(s, list)
             \/ AtomicUpdate(s, list) \/ AtomicUpdateNow(s, list)
      PROVE  DocsFirst(todo'[s])
  BY <1>1, <1>8 DEF Index, IndexNow, AtomicUpdate, AtomicUpdateNow
<1>9. ASSUME NEW list \in Lists, Remove(s, list) \/ RemoveNow(s, list)
      PROVE  DocsFirst(todo'[s])
  BY <1>4, <1>9, RemovalsNoDocs DEF Remove, RemoveNow
<1>10. ASSUME NEW ids \in SUBSET Keys, RemoveById(s, ids) \/ RemoveByIdNow(s, ids)
       PROVE  DocsFirst(todo'[s])
  BY <1>4, <1>10, RemovalsNoDocs DEF RemoveById, RemoveByIdNow
<1>11. ASSUME NEW ids \in SUBSET Keys, NEW type \in Types,
              RemoveByScope(s, type, ids) \/ RemoveByScopeNow(s, type, ids)
       PROVE  DocsFirst(todo'[s])
  BY <1>4, <1>11, RemovalsNoDocs DEF RemoveByScope, RemoveByScopeNow
<1>12. ASSUME NEW classes \in RemoveAllArgs, RemoveAll(s, classes) \/ RemoveAllNow(s, classes)
       PROVE  DocsFirst(todo'[s])
  BY <1>4, <1>12, RemovalsNoDocs DEF RemoveAll, RemoveAllNow
<1>13. ASSUME Commit(s) \/ Optimize(s) \/ CommitIfDirty(s) \/ CommitIfDeleteDirty(s)
       PROVE  DocsFirst(todo'[s])
  BY <1>5, <1>13 DEF Commit, Optimize, CommitIfDirty, CommitIfDeleteDirty
<1>. QED BY <1>3, <1>6, <1>7, <1>8, <1>9, <1>10, <1>11, <1>12, <1>13 DEF Call

\* What the request that is sent carries is all the call has to send, and
\* nothing is left after it.
LEMMA HeadIsAll ==
    ASSUME TypeOK, NEW s \in Sessions, todo[s] # << >>, DocsFirst(todo[s]),
           NEW outcome, Returns(s, outcome)
    PROVE  /\ TodoDocs(s) = DocsOf(Head(todo[s]).docs)
           /\ Head(todo[s]).op # "add" => TodoDocs(s) = {}
           /\ NoDocs(todo'[s])
<1>1. 1 \in DOMAIN todo[s] /\ Head(todo[s]) = todo[s][1]
  BY HeadOfTodo
<1>2. DocsOf(<< >>) = {}
  BY DEF DocsOf
<1>3. \A i \in DOMAIN todo[s] : i # 1 => todo[s][i].docs = << >>
  BY DEF DocsFirst
<1>4. TodoDocs(s) = DocsOf(Head(todo[s]).docs)
  BY <1>1, <1>2, <1>3 DEF TodoDocs
<1>5. Head(todo[s]).op # "add" => Head(todo[s]).docs = << >>
  BY <1>1 DEF DocsFirst
<1>6. NoDocs(todo'[s])
  <2>1. CASE todo'[s] = << >>
    BY <2>1 DEF NoDocs
  <2>2. CASE todo'[s] = Tail(todo[s])
    <3>1. todo[s] \in Seq(Requests) /\ Len(todo[s]) \in Nat
          /\ DOMAIN todo[s] = 1 .. Len(todo[s])
      BY LenProperties DEF TypeOK
    <3>2. /\ Tail(todo[s]) \in Seq(Requests) /\ Len(Tail(todo[s])) = Len(todo[s]) - 1
          /\ \A i \in 1 .. Len(Tail(todo[s])) : Tail(todo[s])[i] = todo[s][i + 1]
      BY <3>1, HeadTailProperties
    <3>3. DOMAIN Tail(todo[s]) = 1 .. Len(todo[s]) - 1
      BY <3>1, <3>2, LenProperties
    <3>4. ASSUME NEW i \in DOMAIN Tail(todo[s])
          PROVE  Tail(todo[s])[i].docs = << >>
      <4>1. i + 1 \in DOMAIN todo[s] /\ i + 1 # 1 /\ Tail(todo[s])[i] = todo[s][i + 1]
        BY <3>1, <3>2, <3>3
      <4>. QED BY <1>3, <4>1
    <3>. QED BY <2>2, <3>4 DEF NoDocs
  <2>. QED BY <2>1, <2>2 DEF Returns, Unwind, TypeOK
<1>. QED BY <1>2, <1>4, <1>5, <1>6

\* A request empties part 0 and leaves the batches.
LEMMA RequestParts ==
    ASSUME TypeOK, NEW s \in Sessions, todo[s] # << >>, DocsFirst(todo[s]),
           NEW outcome, Returns(s, outcome), stack' = stack
    PROVE  /\ Part(s, 0) = DocsOf(Head(todo[s]).docs)
           /\ Head(todo[s]).op # "add" => Part(s, 0) = {}
           /\ \A i \in Nat : Part(s, i)' = IF i = 0 THEN {} ELSE Part(s, i)
<1>1. Part(s, 0)' = {}
  BY HeadIsAll, NothingTodoNext DEF Part
<1>2. \A i \in Nat : i # 0 => Part(s, i)' = Part(s, i)
  BY DEF Part, DocsOf
<1>. QED BY <1>1, <1>2, HeadIsAll DEF Part

LEMMA AddSettles ==
    ASSUME TypeOK, NEW s \in Sessions, NEW o, SendAdd(s, o), DocsFirst(todo[s]),
           OthersSame(s)
    PROVE  Settles(s)
<1>1. todo[s] # << >> /\ Returns(s, o) /\ stack' = stack
  BY DEF SendAdd, Sending
<1>2. settled' = settled \cup DocsOf(Head(todo[s]).docs)
  BY DEF SendAdd, DocsOf
<1>3. UNCHANGED <<clock, accepted>>
  BY DEF SendAdd
<1>. QED BY <1>1, <1>2, <1>3, RequestParts DEF Settles

LEMMA OtherLeaves ==
    ASSUME TypeOK, NEW s \in Sessions, DocsFirst(todo[s]), OthersSame(s),
           NEW o, SendDelete(s, o) \/ SendCommit(s, o)
    PROVE  Leaves
<1>1. /\ todo[s] # << >> /\ Returns(s, o) /\ stack' = stack
      /\ Head(todo[s]).op # "add"
  BY DEF SendDelete, SendCommit, Sending
<1>2. UNCHANGED <<clock, accepted, settled>>
  BY DEF SendDelete, SendCommit, history
<1>3. \A i \in Nat : Part(s, i)' = Part(s, i)
  BY <1>1, RequestParts
<1>4. ASSUME NEW r \in Sessions, NEW i \in Nat
      PROVE  Part(r, i)' = Part(r, i)
  BY <1>3, <1>4 DEF OthersSame
<1>. QED BY <1>2, <1>4 DEF Leaves

LEMMA RequestDocsFirst ==
    ASSUME TypeOK, NEW s \in Sessions, Request(s), DocsFirst(todo[s])
    PROVE  DocsFirst(todo'[s])
<1>1. \E o : todo[s] # << >> /\ Returns(s, o)
  BY DEF Request, SendAdd, SendDelete, SendCommit, Sending
<1>2. NoDocs(todo'[s])
  BY <1>1, HeadIsAll
<1>. QED BY <1>2 DEF NoDocs, DocsFirst

-----------------------------------------------------------------------------
(* The invariant.                                                          *)

\* Every step does one of four things to the parts.
Moves ==
    \/ \E s \in Sessions, n \in Nat : \E D : Takes(s, n, D)
    \/ \E s \in Sessions, n \in Nat : Flushes(s, n)
    \/ \E s \in Sessions : Settles(s)
    \/ Leaves

LEMMA StepMoves ==
    ASSUME TypeOK, AddsComeFirst, [Next]_vars
    PROVE  Moves
<1>1. ASSUME NEW s \in Sessions, Call(s)
      PROVE  Moves
  BY <1>1, CallStep DEF Moves
<1>2. ASSUME NEW s \in Sessions, Request(s)
      PROVE  Moves
  <2>1. DocsFirst(todo[s]) /\ OthersSame(s)
    BY <1>2, OthersParts DEF AddsComeFirst
  <2>. QED BY <1>2, <2>1, AddSettles, OtherLeaves DEF Request, Moves
<1>3. CASE UNCHANGED vars
  <2>1. UNCHANGED <<todo, stack, clock, accepted, settled>>
    BY <1>3 DEF vars
  <2>2. \A s \in Sessions, i \in Nat : Part(s, i)' = Part(s, i)
    BY <2>1, PartLocal
  <2>. QED BY <2>1, <2>2 DEF Moves, Leaves
<1>. QED BY <1>1, <1>2, <1>3 DEF Next

LEMMA StepDocsFirst ==
    ASSUME TypeOK, AddsComeFirst, [Next]_vars
    PROVE  AddsComeFirst'
<1> SUFFICES ASSUME NEW r \in Sessions
             PROVE  DocsFirst(todo'[r])
  BY DEF AddsComeFirst, DocsFirst
<1>1. DocsFirst(todo[r])
  BY DEF AddsComeFirst
<1>2. ASSUME NEW s \in Sessions, Call(s)
      PROVE  DocsFirst(todo'[r])
  BY <1>1, <1>2, CallDocsFirst, CallOthers
<1>3. ASSUME NEW s \in Sessions, Request(s)
      PROVE  DocsFirst(todo'[r])
  BY <1>1, <1>3, RequestDocsFirst, RequestOthers
<1>4. CASE UNCHANGED vars
  BY <1>1, <1>4 DEF vars
<1>. QED BY <1>2, <1>3, <1>4 DEF Next
LEMMA TakesKeepsPlaces ==
    ASSUME OnePlace, clock \in Nat, MaxCalls \in Nat, accepted \subseteq Docs,
           NEW s \in Sessions, NEW n \in Nat, NEW D, Takes(s, n, D)
    PROVE  OnePlace'
<1>1. clock <= MaxCalls /\ \A d \in accepted : d.at <= clock
  BY DEF OnePlace
<1>2. \A d \in D : d \in Docs /\ d.at = clock + 1
  BY DEF Takes
<1>3. D \cap accepted = {}
  <2>. SUFFICES ASSUME NEW d \in D, d \in accepted
                PROVE  FALSE
    OBVIOUS
  <2>1. d.at = clock + 1 /\ d.at <= clock
    BY <1>1, <1>2
  <2>. QED BY <2>1
<1>4. clock' <= MaxCalls
  BY DEF Takes
<1>5. \A d \in accepted' : d.at <= clock'
  <2>1. ASSUME NEW d \in accepted
        PROVE  d.at <= clock'
    <3>1. d.at \in Nat /\ d.at <= clock /\ clock' = clock + 1
      BY <1>1 DEF Takes, Docs, Core!Docs
    <3>. QED BY <3>1
  <2>2. ASSUME NEW d \in D
        PROVE  d.at <= clock'
    <3>1. d.at = clock' /\ clock' \in Nat
      BY <1>2 DEF Takes
    <3>. QED BY <3>1
  <2>. QED BY <2>1, <2>2 DEF Takes
<1>6. ASSUME NEW r \in Sessions, NEW i \in Nat
      PROVE  Part(r, i)' = IF r = s /\ i = n THEN Part(r, i) \cup D ELSE Part(r, i)
  <2>1. CASE r = s
    BY <2>1 DEF Takes
  <2>2. CASE r # s
    BY <2>2 DEF Takes, OthersSame
  <2>. QED BY <2>1, <2>2
<1>7. accepted' = accepted \cup D /\ settled' = settled
  BY DEF Takes
<1>8. ASSUME NEW d \in Docs
      PROVE  d \in accepted' <=>
                 d \in settled' \/ \E r \in Sessions, i \in Nat : d \in Part(r, i)'
  <2>1. d \in accepted <=> d \in settled \/ \E r \in Sessions, i \in Nat : d \in Part(r, i)
    BY DEF OnePlace
  <2>2. CASE d \in D
    BY <1>6, <1>7, <2>2
  <2>3. CASE d \notin D
    <3>1. \A r \in Sessions, i \in Nat : d \in Part(r, i)' <=> d \in Part(r, i)
      BY <1>6, <2>3
    <3>. QED BY <1>7, <2>1, <2>3, <3>1
  <2>. QED BY <2>2, <2>3
<1>9. ASSUME NEW q \in Sessions, NEW r \in Sessions, NEW i \in Nat, NEW j \in Nat,
             NEW d \in Docs, d \in Part(q, i)', d \in Part(r, j)'
      PROVE  q = r /\ i = j
  <2>1. CASE d \in D
    <3>1. \A p \in Sessions, k \in Nat : d \notin Part(p, k)
      BY <1>3, <2>1 DEF OnePlace
    <3>. QED BY <1>6, <1>9, <3>1
  <2>2. CASE d \notin D
    <3>1. d \in Part(q, i) /\ d \in Part(r, j)
      BY <1>6, <1>9, <2>2
    <3>. QED BY <3>1 DEF OnePlace
  <2>. QED BY <2>1, <2>2
<1>10. ASSUME NEW r \in Sessions, NEW i \in Nat
       PROVE  Part(r, i)' \cap settled' = {}
  <2>1. Part(r, i) \cap settled = {} /\ D \cap settled = {}
    <3>1. \A d \in D : d \notin settled
      BY <1>2, <1>3 DEF OnePlace
    <3>. QED BY <3>1 DEF OnePlace
  <2>. QED BY <1>6, <1>7, <2>1
<1>. QED BY <1>4, <1>5, <1>8, <1>9, <1>10 DEF OnePlace

LEMMA FlushesKeepsPlaces ==
    ASSUME OnePlace, NEW s \in Sessions, NEW n \in Nat, Flushes(s, n)
    PROVE  OnePlace'
<1>1. ASSUME NEW r \in Sessions, NEW i \in Nat
      PROVE  Part(r, i)' = IF r # s THEN Part(r, i)
                           ELSE IF i = 0 THEN Part(s, n)
                           ELSE IF i = n THEN {} ELSE Part(r, i)
  <2>1. CASE r = s
    BY <2>1 DEF Flushes
  <2>2. CASE r # s
    BY <2>2 DEF Flushes, OthersSame
  <2>. QED BY <2>1, <2>2
<1>2. UNCHANGED <<clock, accepted, settled>> /\ n # 0 /\ Part(s, 0) = {}
  BY DEF Flushes
\* Where a document of the next state is now.
<1> DEFINE Was(r, i) == IF r = s /\ i = 0 THEN n ELSE i
<1>3. ASSUME NEW r \in Sessions, NEW i \in Nat
      PROVE  Was(r, i) \in Nat /\ \A d \in Part(r, i)' : d \in Part(r, Was(r, i))
                                                       /\ ~ (r = s /\ i = n)
  BY <1>1, <1>2
<1>4. ASSUME NEW r \in Sessions, NEW i \in Nat, NEW d \in Part(r, i)
      PROVE  \E j \in Nat : d \in Part(r, j)'
  <2>1. CASE r = s /\ i = n
    BY <1>1, <1>4, <2>1
  <2>2. CASE ~(r = s /\ i = n)
    <3>1. d \in Part(r, i)'
      BY <1>1, <1>2, <1>4, <2>2
    <3>. QED BY <3>1
  <2>. QED BY <2>1, <2>2
<1> HIDE DEF Was
<1>5. ASSUME NEW d \in Docs
      PROVE  d \in accepted' <=>
                 d \in settled' \/ \E r \in Sessions, i \in Nat : d \in Part(r, i)'
  <2>1. d \in accepted <=> d \in settled \/ \E r \in Sessions, i \in Nat : d \in Part(r, i)
    BY DEF OnePlace
  <2>2. (\E r \in Sessions, i \in Nat : d \in Part(r, i)')
            => \E r \in Sessions, i \in Nat : d \in Part(r, i)
    BY <1>3
  <2>3. (\E r \in Sessions, i \in Nat : d \in Part(r, i))
            => \E r \in Sessions, i \in Nat : d \in Part(r, i)'
    BY <1>4
  <2>. QED BY <1>2, <2>1, <2>2, <2>3
<1>6. ASSUME NEW q \in Sessions, NEW r \in Sessions, NEW i \in Nat, NEW j \in Nat,
             NEW d \in Docs, d \in Part(q, i)', d \in Part(r, j)'
      PROVE  q = r /\ i = j
  <2>1. /\ d \in Part(q, Was(q, i)) /\ d \in Part(r, Was(r, j))
        /\ Was(q, i) \in Nat /\ Was(r, j) \in Nat
        /\ ~ (q = s /\ i = n) /\ ~ (r = s /\ j = n)
    BY <1>3, <1>6
  <2>2. q = r /\ Was(q, i) = Was(r, j)
    BY <2>1 DEF OnePlace
  <2>. QED BY <1>2, <2>1, <2>2 DEF Was
<1>7. ASSUME NEW r \in Sessions, NEW i \in Nat
      PROVE  Part(r, i)' \cap settled' = {}
  BY <1>1, <1>2 DEF OnePlace
<1>8. clock' <= MaxCalls /\ \A d \in accepted' : d.at <= clock'
  BY <1>2 DEF OnePlace
<1>. QED BY <1>5, <1>6, <1>7, <1>8 DEF OnePlace

LEMMA SettlesKeepsPlaces ==
    ASSUME TypeOK, OnePlace, NEW s \in Sessions, Settles(s)
    PROVE  OnePlace'
<1>1. ASSUME NEW r \in Sessions, NEW i \in Nat
      PROVE  Part(r, i)' = IF r = s /\ i = 0 THEN {} ELSE Part(r, i)
  <2>1. CASE r = s
    BY <2>1 DEF Settles
  <2>2. CASE r # s
    BY <2>2 DEF Settles, OthersSame
  <2>. QED BY <2>1, <2>2
<1>2. UNCHANGED <<clock, accepted>> /\ settled' = settled \cup Part(s, 0)
  BY DEF Settles
<1>3. ASSUME NEW d \in Docs
      PROVE  d \in accepted' <=>
                 d \in settled' \/ \E r \in Sessions, i \in Nat : d \in Part(r, i)'
  <2>1. d \in accepted <=> d \in settled \/ \E r \in Sessions, i \in Nat : d \in Part(r, i)
    BY DEF OnePlace
  <2>2. CASE d \in Part(s, 0)
    BY <1>2, <2>1, <2>2
  <2>3. CASE d \notin Part(s, 0)
    <3>1. \A r \in Sessions, i \in Nat : d \in Part(r, i)' <=> d \in Part(r, i)
      BY <1>1, <2>3
    <3>. QED BY <1>2, <2>1, <2>3, <3>1
  <2>. QED BY <2>2, <2>3
<1>4. ASSUME NEW q \in Sessions, NEW r \in Sessions, NEW i \in Nat, NEW j \in Nat,
             NEW d \in Docs, d \in Part(q, i)', d \in Part(r, j)'
      PROVE  q = r /\ i = j
  <2>1. d \in Part(q, i) /\ d \in Part(r, j)
    BY <1>1, <1>4
  <2>. QED BY <2>1 DEF OnePlace
<1>6. clock' <= MaxCalls /\ \A d \in accepted' : d.at <= clock'
  BY <1>2 DEF OnePlace
<1>5. ASSUME NEW r \in Sessions, NEW i \in Nat
      PROVE  Part(r, i)' \cap settled' = {}
  <2>. SUFFICES ASSUME NEW d \in Part(r, i)', d \in settled'
                PROVE  FALSE
    OBVIOUS
  <2>1. d \in Part(r, i) /\ ~ (r = s /\ i = 0)
    BY <1>1
  <2>2. d \in Docs
    BY <2>1, PartType
  <2>3. d \notin settled
    BY <2>1 DEF OnePlace
  <2>4. d \notin Part(s, 0)
    BY <2>1, <2>2 DEF OnePlace
  <2>. QED BY <1>2, <2>3, <2>4
<1>. QED BY <1>3, <1>4, <1>5, <1>6 DEF OnePlace

LEMMA LeavesKeepsPlaces ==
    ASSUME OnePlace, clock \in Nat, MaxCalls \in Nat, accepted \subseteq Docs, Leaves
    PROVE  OnePlace'
<1>1. clock' <= MaxCalls
  BY DEF Leaves, OnePlace
<1>2. ASSUME NEW d \in accepted'
      PROVE  d.at <= clock'
  <2>1. d.at \in Nat /\ d.at <= clock
    BY <1>2 DEF Leaves, OnePlace, Docs, Core!Docs
  <2>. QED BY <2>1 DEF Leaves
<1>3. accepted' = accepted /\ settled' = settled
      /\ \A r \in Sessions, i \in Nat : Part(r, i)' = Part(r, i)
  BY DEF Leaves
<1>. QED BY <1>1, <1>2, <1>3 DEF OnePlace
LEMMA PlacesInit == Init => PlacesInv
<1> SUFFICES ASSUME Init
             PROVE  PlacesInv
  OBVIOUS
<1>1. /\ \A s \in Sessions : todo[s] = << >> /\ stack[s] = << >>
      /\ accepted = {} /\ settled = {} /\ clock = 0
  BY DEF Init
<1>2. AddsComeFirst
  BY <1>1 DEF AddsComeFirst, DocsFirst
<1>3. \A s \in Sessions, i \in Nat : Part(s, i) = {}
  BY <1>1 DEF Part, TodoDocs
<1>4. clock <= MaxCalls
  BY <1>1, BoundsAssumption
<1>5. OnePlace
  BY <1>1, <1>3, <1>4 DEF OnePlace
<1>. QED BY <1>2, <1>5 DEF PlacesInv

LEMMA PlacesStep ==
    TypeOK /\ PlacesInv /\ [Next]_vars => PlacesInv'
<1> SUFFICES ASSUME TypeOK, PlacesInv, [Next]_vars
             PROVE  PlacesInv'
  OBVIOUS
<1>1. AddsComeFirst /\ OnePlace
  BY DEF PlacesInv
<1>2. clock \in Nat /\ accepted \subseteq Docs /\ MaxCalls \in Nat
  BY BoundsAssumption DEF TypeOK
<1>3. Moves
  BY <1>1, StepMoves
<1>4. OnePlace'
  BY <1>1, <1>2, <1>3, TakesKeepsPlaces, FlushesKeepsPlaces, SettlesKeepsPlaces,
     LeavesKeepsPlaces DEF Moves
<1>. QED BY <1>1, <1>4, StepDocsFirst DEF PlacesInv

LEMMA PlacesInductive == Spec => []PlacesInv
BY PlacesInit, PlacesStep, TypeCorrect, PTL DEF Spec

-----------------------------------------------------------------------------
(* What the places say.                                                    *)

AllWaiting == UNION {Waiting(s) : s \in Sessions}

WaitingIsParts ==
    \A d : d \in AllWaiting <=> \E s \in Sessions, i \in Nat : d \in Part(s, i)

LEMMA AllParts == TypeOK => WaitingIsParts
<1> SUFFICES ASSUME TypeOK, NEW d
             PROVE  d \in AllWaiting <=> \E s \in Sessions, i \in Nat : d \in Part(s, i)
  BY DEF WaitingIsParts
<1>1. \A s \in Sessions : d \in Waiting(s) <=> \E i \in Nat : d \in Part(s, i)
  BY WaitingParts
<1>. QED BY <1>1 DEF AllWaiting

LEMMA AllPartsNext == TypeOK' => WaitingIsParts'
BY AllParts, PTL

\* Every document the indexer took waits in one batch or one request to come,
\* or was settled by an add request that succeeded or raised: none is lost by
\* the stack of batches, by nesting, or by a call of another session, and none
\* is sent again after it was settled.
THEOREM AllAccounted == Spec => []Accounted
<1>1. TypeOK /\ PlacesInv => Accounted
  <2> SUFFICES ASSUME TypeOK, PlacesInv
               PROVE  Accounted
    OBVIOUS
  <2>1. \A d : d \in AllWaiting <=> \E s \in Sessions, i \in Nat : d \in Part(s, i)
    BY AllParts DEF WaitingIsParts
  <2>2. AllWaiting \subseteq Docs
    BY <2>1, PartType
  <2>3. accepted \subseteq Docs /\ settled \subseteq Docs
    BY DEF TypeOK
  <2>4. \A d \in Docs : d \in accepted <=> d \in settled \/ d \in AllWaiting
    BY <2>1 DEF PlacesInv, OnePlace
  <2>5. settled \cap AllWaiting = {}
    BY <2>1 DEF PlacesInv, OnePlace
  <2>6. accepted = settled \cup AllWaiting
    BY <2>2, <2>3, <2>4
  <2>. QED BY <2>5, <2>6 DEF Accounted, AllWaiting
<1>. QED BY <1>1, PlacesInductive, TypeCorrect, PTL

\* An unsent batch is a part, or empty; a part with documents is unsent.
LEMMA UnsentPart ==
    ASSUME TypeOK, AddsComeFirst, NEW s \in Sessions, NEW batch \in Unsent(s)
    PROVE  DocsOf(batch) = {} \/ \E i \in Nat : DocsOf(batch) = Part(s, i)
<1>1. CASE \E i \in DOMAIN stack[s] : batch = stack[s][i]
  BY <1>1, WaitingParts DEF Part
<1>2. CASE \E i \in DOMAIN todo[s] : batch = todo[s][i].docs
  <2>1. PICK i \in DOMAIN todo[s] : batch = todo[s][i].docs
    BY <1>2
  <2>2. DocsOf(<< >>) = {}
    BY DEF DocsOf
  <2>3. CASE batch # << >>
    <3>1. i = 1 /\ \A j \in DOMAIN todo[s] : j # 1 => todo[s][j].docs = << >>
      BY <2>1, <2>3 DEF AddsComeFirst, DocsFirst
    <3>2. TodoDocs(s) = DocsOf(batch)
      BY <2>1, <2>2, <3>1 DEF TodoDocs
    <3>. QED BY <3>2 DEF Part
  <2>. QED BY <2>2, <2>3
<1>. QED BY <1>1, <1>2 DEF Unsent

PartsAreUnsent ==
    \A s \in Sessions, i \in Nat :
        Part(s, i) # {} => \E batch \in Unsent(s) : DocsOf(batch) = Part(s, i)

LEMMA PartUnsent == AddsComeFirst => PartsAreUnsent
<1> SUFFICES ASSUME AddsComeFirst, NEW s \in Sessions, NEW i \in Nat, Part(s, i) # {}
             PROVE  \E batch \in Unsent(s) : DocsOf(batch) = Part(s, i)
  BY DEF PartsAreUnsent
<1>1. CASE i = 0
  <2>1. DocsOf(<< >>) = {} /\ Part(s, i) = TodoDocs(s)
    BY <1>1 DEF DocsOf, Part
  <2>2. \A j \in DOMAIN todo[s] : j # 1 => todo[s][j].docs = << >>
    BY DEF AddsComeFirst, DocsFirst
  <2>3. 1 \in DOMAIN todo[s]
    BY <2>1, <2>2 DEF TodoDocs
  <2>4. TodoDocs(s) = DocsOf(todo[s][1].docs)
    BY <2>1, <2>2, <2>3 DEF TodoDocs
  <2>. QED BY <2>1, <2>3, <2>4 DEF Unsent
<1>2. CASE i # 0
  BY <1>2 DEF Part, Unsent
<1>. QED BY <1>1, <1>2

LEMMA PartUnsentNext == AddsComeFirst' => PartsAreUnsent'
BY PartUnsent, PTL

\* The documents of a batch are sent in one request, also when the batch is
\* nested, grows, or waits while other sessions send theirs: they stay in one
\* batch until one request settles them all.
THEOREM BatchesStayWhole == Spec => BatchSentWhole
<1>1. TypeOK /\ PlacesInv /\ PlacesInv' /\ [Next]_vars
      => [\A s \in Sessions : \A batch \in Unsent(s) :
            \/ DocsOf(batch) \subseteq settled'
            \/ /\ DocsOf(batch) \cap settled' = {}
               /\ \E later \in Unsent(s)' : DocsOf(batch) \subseteq DocsOf(later)]_vars
  <2> SUFFICES ASSUME TypeOK, PlacesInv, AddsComeFirst', [Next]_vars,
                      NEW s \in Sessions, NEW batch \in Unsent(s)
               PROVE  \/ DocsOf(batch) \subseteq settled'
                      \/ /\ DocsOf(batch) \cap settled' = {}
                         /\ \E later \in Unsent(s)' : DocsOf(batch) \subseteq DocsOf(later)
    BY DEF PlacesInv
  <2>1. AddsComeFirst /\ OnePlace
    BY DEF PlacesInv
  <2> SUFFICES ASSUME NEW i \in Nat, DocsOf(batch) = Part(s, i), Part(s, i) # {}
               PROVE  \/ Part(s, i) \subseteq settled'
                      \/ /\ Part(s, i) \cap settled' = {}
                         /\ \E j \in Nat : Part(s, i) \subseteq Part(s, j)'
    <3>1. CASE DocsOf(batch) = {}
      BY <3>1
    <3>2. ASSUME NEW i \in Nat, DocsOf(batch) = Part(s, i), Part(s, i) # {},
                 NEW j \in Nat, Part(s, i) \subseteq Part(s, j)'
          PROVE  \E later \in Unsent(s)' : DocsOf(batch) \subseteq DocsOf(later)
      <4>1. Part(s, j)' # {}
        BY <3>2
      <4>2. PICK later \in Unsent(s)' : DocsOf(later) = Part(s, j)'
        BY <4>1, PartUnsentNext DEF PartsAreUnsent
      <4>. QED BY <3>2, <4>2
    <3>. QED BY <2>1, <3>1, <3>2, UnsentPart
  <2>2. Part(s, i) \cap settled = {} /\ Part(s, i) \subseteq Docs
    BY <2>1, PartType DEF OnePlace
  <2>3. ASSUME NEW r \in Sessions, NEW n \in Nat, NEW D, Takes(r, n, D)
        PROVE  Part(s, i) \cap settled' = {} /\ Part(s, i) \subseteq Part(s, i)'
    BY <2>2, <2>3 DEF Takes, OthersSame
  <2>4. ASSUME NEW r \in Sessions, NEW n \in Nat, Flushes(r, n)
        PROVE  Part(s, i) \cap settled' = {} /\ \E j \in Nat : Part(s, i) \subseteq Part(s, j)'
    <3>1. settled' = settled
      BY <2>4 DEF Flushes
    <3>2. CASE r = s /\ i = n
      <4>1. Part(s, 0)' = Part(s, i)
        BY <2>4, <3>2 DEF Flushes
      <4>. QED BY <2>2, <3>1, <4>1
    <3>3. CASE ~(r = s /\ i = n)
      <4>1. Part(s, i)' = Part(s, i)
        BY <2>4, <3>3 DEF Flushes, OthersSame
      <4>. QED BY <2>2, <3>1, <4>1
    <3>. QED BY <3>2, <3>3
  <2>5. ASSUME NEW r \in Sessions, Settles(r)
        PROVE  \/ Part(s, i) \subseteq settled'
               \/ Part(s, i) \cap settled' = {} /\ Part(s, i) \subseteq Part(s, i)'
    <3>1. settled' = settled \cup Part(r, 0)
      BY <2>5 DEF Settles
    <3>2. CASE r = s /\ i = 0
      BY <3>1, <3>2
    <3>3. CASE ~(r = s /\ i = 0)
      <4>1. Part(s, i)' = Part(s, i)
        BY <2>5, <3>3 DEF Settles, OthersSame
      <4>2. \A d \in Docs : ~ (d \in Part(s, i) /\ d \in Part(r, 0))
        BY <2>1, <3>3 DEF OnePlace
      <4>. QED BY <2>2, <3>1, <4>1, <4>2
    <3>. QED BY <3>2, <3>3
  <2>6. ASSUME Leaves
        PROVE  Part(s, i) \cap settled' = {} /\ Part(s, i) \subseteq Part(s, i)'
    BY <2>2, <2>6 DEF Leaves
  <2>7. Moves
    BY <2>1, StepMoves
  <2>. QED BY <2>3, <2>4, <2>5, <2>6, <2>7 DEF Moves
<1>. QED BY <1>1, PlacesInductive, TypeCorrect, PTL DEF Spec, BatchSentWhole
-----------------------------------------------------------------------------
(* The contract.                                                           *)

ContractDocs == [id : Keys, at : 1 .. MaxCalls]

\* An add request leaves for every key it names one of the versions it has.
LEMMA OverwrittenWritten ==
    ASSUME core \in [Keys -> Nat], NEW docs \in Seq(Docs)
    PROVE  Core!Overwritten(docs) \in Contract!Written(DocsOf(docs))
<1> DEFINE new == Core!Overwritten(docs)
           D == DocsOf(docs)
<1>1. ASSUME NEW k \in Keys, Core!At(docs, k) = {}
      PROVE  new[k] = core[k] /\ ~ \E d \in D : d.id = k
  BY <1>1 DEF Core!Overwritten, Core!At, DocsOf
<1>2. ASSUME NEW k \in Keys, Core!At(docs, k) # {}
      PROVE  \E d \in D : d.id = k /\ new[k] = d.at
  <2>1. Core!At(docs, k) \subseteq 1 .. Len(docs) /\ Len(docs) \in Nat
    BY LenProperties DEF Core!At
  <2>2. \E i \in Core!At(docs, k) : \A j \in Core!At(docs, k) : j <= i
    BY <1>2, <2>1, MaxExists
  <2>3. PICK i \in Core!At(docs, k) :
           i = CHOOSE m \in Core!At(docs, k) : \A j \in Core!At(docs, k) : j <= m
    BY <2>2
  <2>4. docs[i] \in D /\ docs[i].id = k
    BY DEF Core!At, DocsOf
  <2>5. new[k] = docs[i].at
    BY <1>2, <2>3 DEF Core!Overwritten
  <2>. QED BY <2>4, <2>5
<1>3. new = [k \in Keys |-> new[k]]
  BY DEF Core!Overwritten
<1> HIDE DEF new, D
<1>4. \A k \in Keys : new[k] \in {core[j] : j \in Keys} \cup {d.at : d \in D}
  BY <1>1, <1>2
<1>5. new \in [Keys -> {core[k] : k \in Keys} \cup {d.at : d \in D}]
  BY <1>3, <1>4
<1>6. \A k \in Keys : IF \E d \in D : d.id = k
                      THEN \E d \in D : d.id = k /\ new[k] = d.at
                      ELSE new[k] = core[k]
  BY <1>1, <1>2
<1>7. new \in Contract!Written(D)
  BY <1>5, <1>6 DEF Contract!Written
<1>. QED BY <1>7 DEF new, D

\* Documents that a call takes were never seen before.
LEMMA TakenAreNew ==
    ASSUME OnePlace, accepted \subseteq Docs,
           NEW s \in Sessions, NEW n \in Nat, NEW D, Takes(s, n, D), clock \in Nat
    PROVE  D \cap accepted = {}
<1>. SUFFICES ASSUME NEW d \in D, d \in accepted
              PROVE  FALSE
  OBVIOUS
<1>1. d.at = clock + 1 /\ d.at <= clock
  BY DEF Takes, OnePlace
<1>. QED BY <1>1

\* The documents in the parts are documents of the contract.
LEMMA PartOfContract ==
    ASSUME TypeOK, OnePlace, NEW s \in Sessions, NEW i \in Nat
    PROVE  Part(s, i) \subseteq ContractDocs
<1>. SUFFICES ASSUME NEW d \in Part(s, i)
              PROVE  d \in ContractDocs
  OBVIOUS
<1>1. d \in Docs
  BY PartType
<1>2. d \in accepted
  BY <1>1 DEF OnePlace
<1>3. d.at <= clock /\ clock <= MaxCalls /\ clock \in Nat
  BY <1>2 DEF OnePlace, TypeOK
<1>4. d.at \in 1 .. MaxCalls
  BY <1>1, <1>3, BoundsAssumption DEF Docs, Core!Docs
<1>. QED BY <1>1, <1>4 DEF ContractDocs, Docs, Core!Docs

\* A step that leaves what the contract sees.
SameContract == UNCHANGED <<core, searcher, settled>> /\ AllWaiting' = AllWaiting

\* The steps of Session, as steps of the contract.
LEMMA TakesAccepts ==
    ASSUME TypeOK, OnePlace, WaitingIsParts, WaitingIsParts',
           NEW s \in Sessions, NEW n \in Nat, NEW D, Takes(s, n, D)
    PROVE  Contract!Accept(D) /\ D \subseteq ContractDocs
<1>1. clock \in Nat /\ accepted \subseteq Docs /\ MaxCalls \in Nat
  BY BoundsAssumption DEF TypeOK
<1>2. D \cap accepted = {}
  BY <1>1, TakenAreNew
<1>3. AllWaiting \subseteq Docs
  BY PartType DEF WaitingIsParts
<1>4. D \cap (AllWaiting \cup settled) = {}
  <2>. SUFFICES ASSUME NEW d \in D, d \in AllWaiting \cup settled
                PROVE  FALSE
    OBVIOUS
  <2>1. d \in Docs
    BY DEF Takes
  <2>2. d \in accepted
    BY <2>1 DEF OnePlace, WaitingIsParts
  <2>. QED BY <1>2, <2>2
<1>5. ASSUME NEW r \in Sessions, NEW i \in Nat
      PROVE  Part(r, i)' = IF r = s /\ i = n THEN Part(r, i) \cup D ELSE Part(r, i)
  <2>1. CASE r = s
    BY <2>1 DEF Takes
  <2>2. CASE r # s
    BY <2>2 DEF Takes, OthersSame
  <2>. QED BY <2>1, <2>2
<1>6. \A d : d \in AllWaiting' <=> d \in AllWaiting \/ d \in D
  BY <1>5 DEF WaitingIsParts
<1>7. AllWaiting' = AllWaiting \cup D
  BY <1>6
<1>8. D \subseteq ContractDocs
  <2>. SUFFICES ASSUME NEW d \in D
                PROVE  d \in ContractDocs
    OBVIOUS
  <2>1. d \in Docs /\ d.at = clock + 1 /\ clock < MaxCalls
    BY DEF Takes
  <2>2. d.at \in 1 .. MaxCalls
    BY <1>1, <2>1
  <2>. QED BY <2>1, <2>2 DEF ContractDocs, Docs, Core!Docs
<1>9. UNCHANGED <<core, searcher, settled>>
  BY DEF Takes
<1>. QED BY <1>4, <1>7, <1>8, <1>9 DEF Contract!Accept, AllWaiting

LEMMA FlushesStutters ==
    ASSUME WaitingIsParts, WaitingIsParts', NEW s \in Sessions, NEW n \in Nat, Flushes(s, n)
    PROVE  SameContract
<1>1. ASSUME NEW r \in Sessions, NEW i \in Nat
      PROVE  Part(r, i)' = IF r # s THEN Part(r, i)
                           ELSE IF i = 0 THEN Part(s, n)
                           ELSE IF i = n THEN {} ELSE Part(r, i)
  <2>1. CASE r = s
    BY <2>1 DEF Flushes
  <2>2. CASE r # s
    BY <2>2 DEF Flushes, OthersSame
  <2>. QED BY <2>1, <2>2
<1>2. n # 0 /\ Part(s, 0) = {} /\ UNCHANGED <<core, searcher, settled>>
  BY DEF Flushes
<1>3. ASSUME NEW d, d \in AllWaiting'
      PROVE  d \in AllWaiting
  <2>1. PICK r \in Sessions, i \in Nat : d \in Part(r, i)'
    BY <1>3 DEF WaitingIsParts
  <2>2. d \in Part(r, i) \/ d \in Part(s, n)
    BY <1>1, <2>1
  <2>. QED BY <2>2 DEF WaitingIsParts
<1>4. ASSUME NEW d, d \in AllWaiting
      PROVE  d \in AllWaiting'
  <2>1. PICK r \in Sessions, i \in Nat : d \in Part(r, i)
    BY <1>4 DEF WaitingIsParts
  <2>2. d \in Part(r, i)' \/ d \in Part(s, 0)'
    BY <1>1, <1>2, <2>1
  <2>. QED BY <2>2 DEF WaitingIsParts
<1>. QED BY <1>2, <1>3, <1>4 DEF SameContract

LEMMA SettlesDone ==
    ASSUME TypeOK, OnePlace, WaitingIsParts, WaitingIsParts', NEW s \in Sessions, Settles(s)
    PROVE  /\ Part(s, 0) \subseteq AllWaiting
           /\ AllWaiting' = AllWaiting \ Part(s, 0)
           /\ settled' = settled \cup Part(s, 0)
<1>1. ASSUME NEW r \in Sessions, NEW i \in Nat
      PROVE  Part(r, i)' = IF r = s /\ i = 0 THEN {} ELSE Part(r, i)
  <2>1. CASE r = s
    BY <2>1 DEF Settles
  <2>2. CASE r # s
    BY <2>2 DEF Settles, OthersSame
  <2>. QED BY <2>1, <2>2
<1>2. ASSUME NEW d, d \in AllWaiting'
      PROVE  d \in AllWaiting /\ d \notin Part(s, 0)
  <2>1. PICK r \in Sessions, i \in Nat : d \in Part(r, i)'
    BY <1>2 DEF WaitingIsParts
  <2>2. d \in Part(r, i) /\ ~ (r = s /\ i = 0)
    BY <1>1, <2>1
  <2>3. d \in Docs
    BY <2>2, PartType
  <2>. QED BY <2>2, <2>3 DEF WaitingIsParts, OnePlace
<1>3. ASSUME NEW d, d \in AllWaiting, d \notin Part(s, 0)
      PROVE  d \in AllWaiting'
  <2>1. PICK r \in Sessions, i \in Nat : d \in Part(r, i)
    BY <1>3 DEF WaitingIsParts
  <2>2. d \in Part(r, i)'
    BY <1>1, <1>3, <2>1
  <2>. QED BY <2>2 DEF WaitingIsParts
<1>4. Part(s, 0) \subseteq AllWaiting
  BY DEF WaitingIsParts
<1>. QED BY <1>2, <1>3, <1>4 DEF Settles

LEMMA LeavesWaiting ==
    ASSUME WaitingIsParts, WaitingIsParts', Leaves
    PROVE  AllWaiting' = AllWaiting
<1>1. \A d : d \in AllWaiting' <=> d \in AllWaiting
  BY DEF WaitingIsParts, Leaves
<1>. QED BY <1>1

\* Every request is a step of the contract.
LEMMA RequestContract ==
    ASSUME TypeOK, PlacesInv, WaitingIsParts, WaitingIsParts',
           NEW s \in Sessions, Request(s)
    PROVE  Contract!Next \/ SameContract
<1>1. DocsFirst(todo[s]) /\ OthersSame(s) /\ OnePlace
  BY OthersParts DEF PlacesInv, AddsComeFirst
<1>2. ASSUME NEW o, SendAdd(s, o)
      PROVE  Contract!Next
  <2> DEFINE docs == Head(todo[s]).docs
             D == Part(s, 0)
  <2>1. todo[s] # << >> /\ Returns(s, o) /\ stack' = stack
    BY <1>2 DEF SendAdd, Sending
  <2>2. docs \in Seq(Docs)
    BY <2>1, HeadOfTodo DEF Requests
  <2>3. D = DocsOf(docs)
    BY <1>1, <2>1, RequestParts
  <2>4. Settles(s)
    BY <1>1, <1>2, AddSettles
  <2>5. D \subseteq AllWaiting /\ AllWaiting' = AllWaiting \ D /\ settled' = settled \cup D
    BY <1>1, <2>4, SettlesDone
  <2>6. D \in SUBSET ContractDocs
    BY <1>1, PartOfContract
  <2>7. CASE o = "refused"
    <3>1. UNCHANGED <<core, searcher>>
      BY <1>2, <2>7 DEF SendAdd, solr
    <3>2. Contract!GiveUp(D)
      BY <2>5, <3>1 DEF Contract!GiveUp, AllWaiting
    <3>. QED BY <2>6, <3>2 DEF Contract!Next, ContractDocs
  <2>8. CASE o # "refused"
    <3>1. core' = Core!Overwritten(docs) /\ UNCHANGED searcher
      BY <1>2, <2>8 DEF SendAdd, Core!SolrAdd
    <3>2. core' \in Contract!Written(D)
      <4>1. core \in [Keys -> Nat]
        BY DEF TypeOK, Core!SolrTypeOK
      <4>. QED BY <2>2, <2>3, <3>1, <4>1, OverwrittenWritten
    <3>3. Contract!Send(D)
      BY <2>5, <3>1, <3>2 DEF Contract!Send, AllWaiting
    <3>. QED BY <2>6, <3>3 DEF Contract!Next, ContractDocs
  <2>. QED BY <2>7, <2>8
<1>3. ASSUME NEW o, SendDelete(s, o)
      PROVE  Contract!Next \/ SameContract
  <2>1. Leaves
    BY <1>1, <1>3, OtherLeaves
  <2>2. AllWaiting' = AllWaiting /\ settled' = settled
    BY <2>1, LeavesWaiting DEF Leaves
  <2>3. CASE o = "refused"
    BY <1>3, <2>2, <2>3 DEF SendDelete, solr, SameContract
  <2>4. CASE o # "refused"
    <3> DEFINE ids == Head(todo[s]).ids
    <3>1. ids \in SUBSET Keys
      BY <1>3, HeadOfTodo DEF SendDelete, Sending, Requests
    <3>2. core' = [k \in Keys |-> IF k \in ids THEN 0 ELSE core[k]] /\ UNCHANGED searcher
      BY <1>3, <2>4 DEF SendDelete, Core!SolrDelete
    <3>3. Contract!Erase(ids)
      BY <2>2, <3>2 DEF Contract!Erase, AllWaiting
    <3>. QED BY <3>1, <3>3 DEF Contract!Next
  <2>. QED BY <2>3, <2>4
<1>4. ASSUME NEW o, SendCommit(s, o)
      PROVE  Contract!Next \/ SameContract
  <2>1. Leaves
    BY <1>1, <1>4, OtherLeaves
  <2>2. AllWaiting' = AllWaiting /\ settled' = settled
    BY <2>1, LeavesWaiting DEF Leaves
  <2>3. CASE o = "refused"
    BY <1>4, <2>2, <2>3 DEF SendCommit, solr, SameContract
  <2>4. CASE o # "refused"
    <3>1. Contract!Publish
      BY <1>4, <2>2, <2>4 DEF SendCommit, Core!SolrCommit, Contract!Publish, AllWaiting
    <3>. QED BY <3>1 DEF Contract!Next
  <2>. QED BY <2>3, <2>4
<1>. QED BY <1>2, <1>3, <1>4 DEF Request

\* Whatever is batched, nested, interleaved, refused or lost, the sessions keep
\* the contract of the API: documents wait until they are sent, the index
\* changes only by sending or erasing, what was sent or given up never comes
\* back, and searches change only when a commit publishes the index.
THEOREM ContractKept == Spec => ImplementsContract
<1>1. Init => Contract!Init
  <2> SUFFICES ASSUME Init
               PROVE  Contract!Init
    OBVIOUS
  <2>1. \A s \in Sessions : Waiting(s) = {}
    BY DEF Init, Waiting, Unsent
  <2>2. UNION {Waiting(s) : s \in Sessions} = {}
    BY <2>1
  <2>. QED BY <2>2 DEF Init, Core!SolrInit, Contract!Init
<1>2. TypeOK /\ TypeOK' /\ PlacesInv /\ [Next]_vars => [Contract!Next]_(Contract!cvars)
  <2> SUFFICES ASSUME TypeOK, TypeOK', PlacesInv, [Next]_vars
               PROVE  Contract!Next \/ SameContract
    BY DEF SameContract, Contract!cvars, AllWaiting
  <2>1. WaitingIsParts /\ WaitingIsParts' /\ OnePlace
    BY AllParts, AllPartsNext DEF PlacesInv
  <2>2. ASSUME NEW s \in Sessions, Call(s)
        PROVE  Contract!Next \/ SameContract
    <3>1. UNCHANGED <<core, searcher>>
      BY <2>2, CallStep
    <3>2. ASSUME NEW n \in Nat, NEW D, Takes(s, n, D)
          PROVE  Contract!Next
      <4>1. Contract!Accept(D) /\ D \in SUBSET ContractDocs
        BY <2>1, <3>2, TakesAccepts
      <4>. QED BY <4>1 DEF Contract!Next, ContractDocs
    <3>3. ASSUME NEW n \in Nat, Flushes(s, n)
          PROVE  SameContract
      BY <2>1, <3>3, FlushesStutters
    <3>4. ASSUME Leaves
          PROVE  SameContract
      BY <2>1, <3>1, <3>4, LeavesWaiting DEF SameContract, Leaves
    <3>. QED BY <2>2, <3>2, <3>3, <3>4, CallStep
  <2>3. ASSUME NEW s \in Sessions, Request(s)
        PROVE  Contract!Next \/ SameContract
    BY <2>1, <2>3, RequestContract
  <2>4. CASE UNCHANGED vars
    BY <2>4 DEF vars, SameContract, AllWaiting, Waiting, Unsent, DocsOf
  <2>. QED BY <2>2, <2>3, <2>4 DEF Next
<1>. QED BY <1>1, <1>2, PlacesInductive, TypeCorrect, PTL
         DEF Spec, ImplementsContract, Contract!Spec

-----------------------------------------------------------------------------
(* A single writer.  When one session writes to the core, a batch block    *)
(* only adds and commits, and updates reach Solr, what is buffered or      *)
(* still to be sent brings the index to what the calls asked for.          *)

OneWriter == \E s : Sessions = {s}

BlocksOnlyAdd ==
    BatchOps \subseteq {"index", "index!", "atomic_update", "atomic_update!", "commit",
                        "optimize", "commit_if_dirty", "commit_if_delete_dirty"}

\* A document may not be prepared, an add may be applied and time out, and a
\* commit may fail either way.
UpdatesArrive ==
    Faults \subseteq {"prepare", "commit"} \X {"lost", "refused"} \cup {<<"add", "lost">>}

Names(docs) == {docs[i].id : i \in DOMAIN docs}

\* The last document of every id is the one the calls asked for.
Latest(docs, wants) ==
    \A i \in DOMAIN docs :
        (\A j \in DOMAIN docs : docs[j].id = docs[i].id => j <= i)
            => docs[i].at = wants[docs[i].id]

Deletes(requests) == {i \in DOMAIN requests : requests[i].op = "delete"}

\* The ids the requests to come delete.
Doomed(requests) == UNION {requests[i].ids : i \in Deletes(requests)}

OnlyCommits(requests) == \A i \in DOMAIN requests : requests[i].op = "commit"

\* Deletes come first, and an add comes first.
Ordered(requests) ==
    \A i \in DOMAIN requests :
        /\ requests[i].op = "delete" => \A j \in 1 .. i : requests[j].op = "delete"
        /\ requests[i].op = "add" => i = 1

\* The documents the session has yet to send: those of its block, or of the
\* next request.
Buffered(batches, n, requests) ==
    IF n = 1 THEN batches[1] ELSE IF requests = << >> THEN << >> ELSE requests[1].docs

\* Sending docs and deleting ids brings the index to what is wanted.
Agrees(index, wants, docs, ids) ==
    /\ Latest(docs, wants)
    /\ \A k \in ids : wants[k] = 0
    /\ \A k \in Keys : index[k] = wants[k] \/ k \in Names(docs) \/ k \in ids

\* No exception has left a batch behind: the batches are those of the blocks.
NothingLeftBehind(s) == Len(stack[s]) = blocks[s]

WriterInv(s) ==
    /\ blocks[s] \in {0, 1}
    /\ Ordered(todo[s])
    /\ blocks[s] = 1 => OnlyCommits(todo[s])
    /\ NothingLeftBehind(s) =>
         Agrees(core, wanted, Buffered(stack[s], blocks[s], todo[s]), Doomed(todo[s]))

-----------------------------------------------------------------------------
LEMMA OnlyCommitsOrdered ==
    ASSUME NEW requests, OnlyCommits(requests)
    PROVE  Ordered(requests) /\ Doomed(requests) = {} /\ Deletes(requests) = {}
BY DEF OnlyCommits, Ordered, Doomed, Deletes

\* A session's batches and requests, as sequences.
LEMMA SessionTypes ==
    ASSUME TypeOK, NEW s \in Sessions
    PROVE  /\ stack[s] \in Seq(Seq(Docs)) /\ Len(stack[s]) \in Nat
           /\ DOMAIN stack[s] = 1 .. Len(stack[s])
           /\ todo[s] \in Seq(Requests) /\ Len(todo[s]) \in Nat
           /\ DOMAIN todo[s] = 1 .. Len(todo[s])
           /\ (todo[s] = << >>) <=> (Len(todo[s]) = 0)
           /\ (stack[s] = << >>) <=> (Len(stack[s]) = 0)
           /\ blocks[s] \in Nat /\ adds[s] \in Nat /\ deletes[s] \in Nat
BY LenProperties, EmptySeq DEF TypeOK

\* A step that lines up or drops commits only, and may leave the block.
LEMMA CommitsOnlyInv ==
    ASSUME TypeOK, TypeOK', StackCoversBlocks, NEW s \in Sessions, WriterInv(s),
           UNCHANGED <<core, wanted>>, stack'[s] = stack[s], blocks'[s] <= blocks[s],
           OnlyCommits(todo[s]), NoDocs(todo[s]), OnlyCommits(todo'[s]), NoDocs(todo'[s])
    PROVE  /\ WriterInv(s)'
           /\ NothingLeftBehind(s)' => /\ blocks'[s] = blocks[s]
                                       /\ Buffered(stack'[s], blocks'[s], todo'[s])
                                            = Buffered(stack[s], blocks[s], todo[s])
<1>1. /\ blocks[s] \in Nat /\ blocks'[s] \in Nat /\ Len(stack[s]) \in Nat
      /\ blocks[s] <= Len(stack[s])
  BY SessionTypes DEF TypeOK, StackCoversBlocks, depth
<1>2. blocks'[s] \in {0, 1}
  BY <1>1 DEF WriterInv
<1>3. Ordered(todo'[s]) /\ Doomed(todo'[s]) = {} /\ Doomed(todo[s]) = {}
  BY OnlyCommitsOrdered
<1>4. ASSUME Len(stack'[s]) = blocks'[s]
      PROVE  /\ Len(stack[s]) = blocks[s] /\ blocks'[s] = blocks[s]
             /\ Buffered(stack'[s], blocks'[s], todo'[s]) = Buffered(stack[s], blocks[s], todo[s])
  <2>1. Len(stack[s]) = blocks[s] /\ blocks'[s] = blocks[s]
    BY <1>1, <1>4
  <2>2. \A requests : NoDocs(requests) /\ requests # << >> /\ requests \in Seq(Requests)
             => requests[1].docs = << >>
    <3> SUFFICES ASSUME NEW requests \in Seq(Requests), NoDocs(requests), requests # << >>
                 PROVE  requests[1].docs = << >>
      OBVIOUS
    <3>1. 1 \in DOMAIN requests
      BY LenProperties, EmptySeq
    <3>. QED BY <3>1 DEF NoDocs
  <2>3. todo[s] \in Seq(Requests) /\ todo'[s] \in Seq(Requests)
    BY DEF TypeOK
  <2>. QED BY <2>1, <2>2, <2>3 DEF Buffered
<1>. QED BY <1>2, <1>3, <1>4 DEF WriterInv, NothingLeftBehind


\* A request added at the end of others.
LEMMA CommitLast ==
    ASSUME NEW requests \in Seq(Requests)
    PROVE  LET all == requests \o <<CommitRequest>>
           IN  /\ all \in Seq(Requests) /\ Len(all) = Len(requests) + 1
               /\ DOMAIN all = 1 .. Len(requests) + 1
               /\ \A i \in 1 .. Len(requests) : all[i] = requests[i]
               /\ all[Len(requests) + 1] = CommitRequest
<1> DEFINE all == requests \o <<CommitRequest>>
<1>1. <<CommitRequest>> \in Seq(Requests) /\ Len(<<CommitRequest>>) = 1
      /\ Len(requests) \in Nat
  BY RequestTypes, LenProperties
<1>2. /\ all \in Seq(Requests)
      /\ Len(all) = Len(requests) + 1
      /\ \A i \in 1 .. Len(requests) + 1 :
             all[i] = IF i <= Len(requests) THEN requests[i]
                      ELSE <<CommitRequest>>[i - Len(requests)]
  BY <1>1, ConcatProperties
<1> HIDE DEF all
<1>3. DOMAIN all = 1 .. Len(requests) + 1
  BY <1>2, LenProperties
<1>4. \A i \in 1 .. Len(requests) : all[i] = requests[i]
  BY <1>1, <1>2
<1>5. all[Len(requests) + 1] = CommitRequest
  <2>1. /\ Len(requests) + 1 \in 1 .. Len(requests) + 1
        /\ ~ (Len(requests) + 1 <= Len(requests)) /\ Len(requests) + 1 - Len(requests) = 1
    BY <1>1
  <2>. QED BY <1>2, <2>1
<1>. QED BY <1>2, <1>3, <1>4, <1>5 DEF all

-----------------------------------------------------------------------------
(* Removals.                                                               *)

\* What a removal of ids lines up: deletes of just these ids, then commits.
Removes(requests, ids) ==
    /\ NoDocs(requests)
    /\ Ordered(requests)
    /\ Doomed(requests) = ids
    /\ \A i \in DOMAIN requests : requests[i].op # "add"

LEMMA DeletesRemove ==
    ASSUME NEW requests \in Seq(Requests), NoDocs(requests),
           \A i \in DOMAIN requests : requests[i].op = "delete"
    PROVE  LET ids == UNION {requests[i].ids : i \in DOMAIN requests}
           IN  Removes(requests, ids) /\ Removes(requests \o <<CommitRequest>>, ids)
<1> DEFINE ids == UNION {requests[i].ids : i \in DOMAIN requests}
           all == requests \o <<CommitRequest>>
<1>1. Len(requests) \in Nat /\ DOMAIN requests = 1 .. Len(requests)
  BY LenProperties
<1>2. Removes(requests, ids)
  <2>1. Ordered(requests)
    BY <1>1 DEF Ordered
  <2>2. Deletes(requests) = DOMAIN requests
    BY DEF Deletes
  <2>. QED BY <2>1, <2>2 DEF Removes, Doomed
<1>3. /\ DOMAIN all = 1 .. Len(requests) + 1
      /\ \A i \in 1 .. Len(requests) : all[i] = requests[i]
      /\ all[Len(requests) + 1] = CommitRequest
      /\ NoDocs(all)
  BY CommitLast, CommitAfter
<1>. HIDE DEF all, ids
<1>4. CommitRequest.op = "commit"
  BY DEF CommitRequest
<1>5. \A i \in DOMAIN all : i \in 1 .. Len(requests) \/ i = Len(requests) + 1
  BY <1>1, <1>3
<1>6. Ordered(all) /\ \A i \in DOMAIN all : all[i].op # "add"
  <2>1. ASSUME NEW i \in DOMAIN all
        PROVE  /\ all[i].op = "delete" => \A j \in 1 .. i : all[j].op = "delete"
               /\ all[i].op # "add"
    <3>1. CASE i \in 1 .. Len(requests)
      <4>1. \A j \in 1 .. i : j \in 1 .. Len(requests)
        BY <1>1, <3>1
      <4>. QED BY <1>1, <1>3, <3>1, <4>1
    <3>2. CASE i = Len(requests) + 1
      BY <1>3, <1>4, <3>2
    <3>. QED BY <1>5, <3>1, <3>2
  <2>. QED BY <2>1 DEF Ordered
<1>7. Doomed(all) = ids
  <2>1. Deletes(all) = DOMAIN requests
    BY <1>1, <1>3, <1>4, <1>5 DEF Deletes
  <2>2. {all[i].ids : i \in Deletes(all)} = {requests[i].ids : i \in DOMAIN requests}
    BY <1>1, <1>3, <2>1
  <2>. QED BY <2>2 DEF Doomed, ids
<1>8. Removes(all, ids)
  BY <1>3, <1>6, <1>7 DEF Removes
<1>. QED BY <1>2, <1>8 DEF all, ids

LEMMA RemovalsRemove ==
    /\ \A list \in Lists :
          /\ Removes(RemoveRequests(list), IdsOf(list))
          /\ Removes(RemoveRequests(list) \o <<CommitRequest>>, IdsOf(list))
    /\ \A ids \in SUBSET Keys :
          /\ Removes(<<DeleteRequest(ids)>>, ids)
          /\ Removes(<<DeleteRequest(ids), CommitRequest>>, ids)
    /\ \A classes \in RemoveAllArgs :
          /\ Removes(RemoveAllRequests(classes), UNION IdsOf(classes))
          /\ Removes(RemoveAllRequests(classes) \o <<CommitRequest>>, UNION IdsOf(classes))
<1>1. ASSUME NEW list \in Lists
      PROVE  /\ Removes(RemoveRequests(list), IdsOf(list))
             /\ Removes(RemoveRequests(list) \o <<CommitRequest>>, IdsOf(list))
  <2> DEFINE requests == RemoveRequests(list)
  <2>1. requests \in Seq(Requests) /\ NoDocs(requests)
    BY <1>1, RemoveRequestsType, RemovalsNoDocs
  <2>2. DOMAIN requests = DOMAIN list
        /\ \A i \in DOMAIN list : requests[i].op = "delete" /\ requests[i].ids = {list[i]}
    BY DEF RemoveRequests, DeleteRequest
  <2>. HIDE DEF requests
  <2>3. UNION {requests[i].ids : i \in DOMAIN requests} = IdsOf(list)
    BY <2>2 DEF IdsOf
  <2>4. \A i \in DOMAIN requests : requests[i].op = "delete"
    BY <2>2
  <2>5. Removes(requests, IdsOf(list)) /\ Removes(requests \o <<CommitRequest>>, IdsOf(list))
    BY <2>1, <2>3, <2>4, DeletesRemove
  <2>. QED BY <2>5 DEF requests
<1>2. ASSUME NEW ids \in SUBSET Keys
      PROVE  /\ Removes(<<DeleteRequest(ids)>>, ids)
             /\ Removes(<<DeleteRequest(ids), CommitRequest>>, ids)
  <2> DEFINE delete == DeleteRequest(ids)
             requests == <<delete>>
  <2>1. delete \in Requests /\ CommitRequest \in Requests
    BY RequestTypes
  <2>2. delete.op = "delete" /\ delete.ids = ids
    BY DEF DeleteRequest
  <2>3. NoDocs(requests)
    BY RemovalsNoDocs
  <2>. HIDE DEF delete
  <2>4. requests \in Seq(Requests) /\ DOMAIN requests = {1} /\ requests[1] = delete
    BY <2>1
  <2>5. <<delete, CommitRequest>> = requests \o <<CommitRequest>>
    <3> DEFINE c == CommitRequest
    <3>1. c \in Requests
      BY <2>1
    <3> HIDE DEF c
    <3>2. <<delete, c>> = <<delete>> \o <<c>>
      BY <2>1, <3>1
    <3>. QED BY <3>2 DEF c
  <2>. HIDE DEF requests
  <2>6. UNION {requests[i].ids : i \in DOMAIN requests} = ids
    BY <2>2, <2>4
  <2>7. \A i \in DOMAIN requests : requests[i].op = "delete"
    BY <2>2, <2>4
  <2>8. Removes(requests, ids) /\ Removes(requests \o <<CommitRequest>>, ids)
    BY <2>3, <2>4, <2>6, <2>7, DeletesRemove
  <2>. QED BY <2>8, <2>5 DEF requests, delete
<1>3. ASSUME NEW classes \in RemoveAllArgs
      PROVE  /\ Removes(RemoveAllRequests(classes), UNION IdsOf(classes))
             /\ Removes(RemoveAllRequests(classes) \o <<CommitRequest>>, UNION IdsOf(classes))
  <2> DEFINE requests == RemoveAllRequests(classes)
  <2>1. requests \in Seq(Requests) /\ NoDocs(requests)
    BY <1>3, RemoveAllType, RemovalsNoDocs
  <2>2. DOMAIN requests = DOMAIN classes
        /\ \A i \in DOMAIN classes : requests[i].op = "delete" /\ requests[i].ids = classes[i]
    BY DEF RemoveAllRequests, DeleteRequest
  <2>. HIDE DEF requests
  <2>3. UNION {requests[i].ids : i \in DOMAIN requests} = UNION IdsOf(classes)
    BY <2>2 DEF IdsOf
  <2>4. \A i \in DOMAIN requests : requests[i].op = "delete"
    BY <2>2
  <2>5. Removes(requests, UNION IdsOf(classes))
        /\ Removes(requests \o <<CommitRequest>>, UNION IdsOf(classes))
    BY <2>1, <2>3, <2>4, DeletesRemove
  <2>. QED BY <2>5 DEF requests
<1>. QED BY <1>1, <1>2, <1>3

\* A removal, made outside the blocks.
LEMMA RemovalWriterInv ==
    ASSUME TypeOK, TypeOK', NEW s \in Sessions, WriterInv(s), todo[s] = << >>,
           blocks[s] = 0, NEW n, NEW ids, NEW requests, Removes(requests, ids),
           DeleteDocuments(s, n, ids, requests)
    PROVE  WriterInv(s)' /\ Buffered(stack'[s], blocks'[s], todo'[s]) = << >>
<1>1. todo'[s] = requests /\ UNCHANGED <<core, stack, blocks>>
  BY DEF DeleteDocuments, solr, TypeOK
<1>2. requests \in Seq(Requests)
  BY <1>1, SessionTypes DEF TypeOK
<1>3. Buffered(stack'[s], blocks'[s], todo'[s]) = << >>
  <2>1. requests # << >> => 1 \in DOMAIN requests
    BY <1>2, LenProperties, EmptySeq
  <2>. QED BY <1>1, <2>1 DEF Buffered, Removes, NoDocs
<1>4. Names(<< >>) = {} /\ Latest(<< >>, wanted')
  BY DEF Names, Latest
<1>5. ASSUME Len(stack'[s]) = blocks'[s]
      PROVE  Agrees(core', wanted', << >>, ids)
  <2>1. Agrees(core, wanted, Buffered(stack[s], blocks[s], todo[s]), Doomed(todo[s]))
    BY <1>1, <1>5 DEF WriterInv, NothingLeftBehind
  <2>2. Buffered(stack[s], blocks[s], todo[s]) = << >> /\ Doomed(todo[s]) = {}
    BY DEF Buffered, Doomed, Deletes
  <2>3. \A k \in Keys : core[k] = wanted[k]
    BY <1>4, <2>1, <2>2 DEF Agrees
  <2>4. wanted' = [k \in Keys |-> IF k \in ids THEN 0 ELSE wanted[k]]
    BY DEF DeleteDocuments
  <2>5. \A k \in ids : k \in Keys
    <3>1. \A i \in DOMAIN requests : requests[i] \in Requests
      BY <1>2, ElementOfSeq, LenProperties
    <3>. QED BY <3>1 DEF Removes, Doomed, Deletes, Requests
  <2>. QED BY <1>1, <1>4, <2>3, <2>4, <2>5 DEF Agrees
<1>6. Ordered(todo'[s]) /\ Doomed(todo'[s]) = ids
  BY <1>1 DEF Removes
<1>. QED BY <1>1, <1>3, <1>5, <1>6 DEF WriterInv, NothingLeftBehind


-----------------------------------------------------------------------------
(* Additions.                                                              *)

\* Documents that agree with what is wanted, after others that did before.
LEMMA ConcatLatest ==
    ASSUME NEW a \in Seq(Docs), NEW b \in Seq(Docs), NEW old, NEW new, Latest(a, old),
           \A i \in DOMAIN b : b[i].at = new[b[i].id],
           \A k \in Keys \ Names(b) : new[k] = old[k]
    PROVE  Latest(a \o b, new) /\ Names(a \o b) = Names(a) \cup Names(b)
<1> DEFINE c == a \o b
<1>1. /\ c \in Seq(Docs) /\ Len(c) = Len(a) + Len(b) /\ Len(a) \in Nat /\ Len(b) \in Nat
      /\ \A i \in 1 .. Len(a) + Len(b) :
             c[i] = IF i <= Len(a) THEN a[i] ELSE b[i - Len(a)]
  BY ConcatProperties, LenProperties
<1> HIDE DEF c
<1>2. DOMAIN a = 1 .. Len(a) /\ DOMAIN b = 1 .. Len(b) /\ DOMAIN c = 1 .. Len(a) + Len(b)
  BY <1>1, LenProperties
<1>3. \A i \in 1 .. Len(a) : i \in DOMAIN c /\ c[i] = a[i]
  BY <1>1, <1>2
<1>4. \A j \in 1 .. Len(b) : Len(a) + j \in DOMAIN c /\ c[Len(a) + j] = b[j] /\ Len(a) + j > Len(a)
  <2>. SUFFICES ASSUME NEW j \in 1 .. Len(b)
                PROVE  Len(a) + j \in DOMAIN c /\ c[Len(a) + j] = b[j] /\ Len(a) + j > Len(a)
    OBVIOUS
  <2> DEFINE n == Len(a) + j
  <2>1. n \in 1 .. Len(a) + Len(b) /\ ~(n <= Len(a)) /\ n - Len(a) = j
    BY <1>1
  <2>. HIDE DEF n
  <2>2. n \in DOMAIN c /\ c[n] = b[j]
    BY <1>1, <1>2, <2>1
  <2>. QED BY <1>1, <2>2 DEF n
<1>5. \A i \in DOMAIN c : i \in 1 .. Len(a) \/ \E j \in 1 .. Len(b) : i = Len(a) + j
  <2>. SUFFICES ASSUME NEW i \in DOMAIN c, i \notin 1 .. Len(a)
                PROVE  \E j \in 1 .. Len(b) : i = Len(a) + j
    OBVIOUS
  <2>1. i - Len(a) \in 1 .. Len(b) /\ i = Len(a) + (i - Len(a))
    BY <1>1, <1>2
  <2>. QED BY <2>1
<1>6. Names(c) = Names(a) \cup Names(b)
  <2>1. ASSUME NEW i \in DOMAIN c
        PROVE  c[i].id \in Names(a) \cup Names(b)
    <3>1. CASE i \in 1 .. Len(a)
      BY <1>2, <1>3, <3>1 DEF Names
    <3>2. CASE \E j \in 1 .. Len(b) : i = Len(a) + j
      <4>1. PICK j \in DOMAIN b : c[i] = b[j]
        BY <1>2, <1>4, <3>2
      <4>. QED BY <4>1 DEF Names
    <3>. QED BY <1>5, <3>1, <3>2
  <2>2. \A i \in DOMAIN a : a[i].id \in Names(c)
    BY <1>2, <1>3 DEF Names
  <2>3. \A i \in DOMAIN b : b[i].id \in Names(c)
    <3>. SUFFICES ASSUME NEW i \in DOMAIN b
                  PROVE  b[i].id \in Names(c)
      OBVIOUS
    <3>1. c[Len(a) + i].id \in Names(c) /\ c[Len(a) + i] = b[i]
      BY <1>2, <1>4 DEF Names
    <3>. QED BY <3>1
  <2>. QED BY <2>1, <2>2, <2>3 DEF Names
<1>7. ASSUME NEW i \in DOMAIN c, \A j \in DOMAIN c : c[j].id = c[i].id => j <= i
      PROVE  c[i].at = new[c[i].id]
  <2>1. CASE i \in 1 .. Len(a)
    <3>1. \A j \in DOMAIN a : a[j].id = a[i].id => j <= i
      BY <1>2, <1>3, <1>7, <2>1
    <3>2. a[i].at = old[a[i].id]
      BY <1>2, <2>1, <3>1 DEF Latest
    <3>3. a[i].id \notin Names(b)
      <4>. SUFFICES ASSUME NEW j \in 1 .. Len(b), b[j].id = a[i].id
                    PROVE  FALSE
        BY <1>2 DEF Names
      <4>1. Len(a) + j <= i
        BY <1>3, <1>4, <1>7, <2>1
      <4>. QED BY <1>1, <2>1, <4>1
    <3>4. a[i].id \in Keys
      <4>1. a[i] \in Docs
        BY <2>1, ElementOfSeq
      <4>. QED BY <4>1 DEF Docs, Core!Docs
    <3>. QED BY <1>3, <2>1, <3>2, <3>3, <3>4
  <2>2. CASE \E j \in 1 .. Len(b) : i = Len(a) + j
    BY <1>2, <1>4, <2>2
  <2>. QED BY <1>5, <2>1, <2>2
<1>8. Latest(c, new)
  BY <1>7 DEF Latest
<1>. QED BY <1>6, <1>8 DEF c

\* The documents of a call carry the version it asks for.
LEMMA PreparedWanted ==
    ASSUME TypeOK, NEW s \in Sessions, NEW list \in Lists, NEW after,
           AddDocuments(s, list, after)
    PROVE  LET docs == Prepared(list)
           IN  /\ \A i \in DOMAIN docs : docs[i].at = wanted'[docs[i].id]
               /\ \A k \in Keys \ Names(docs) : wanted'[k] = wanted[k]
<1>1. wanted' = [k \in Keys |-> IF \E i \in DOMAIN list : list[i] = k
                                THEN clock + 1 ELSE wanted[k]]
  BY DEF AddDocuments
<1>2. \A i \in DOMAIN list : list[i] \in Keys
  BY ListType, ElementOfSeq
<1>3. /\ DOMAIN Prepared(list) = DOMAIN list
      /\ \A i \in DOMAIN list : Prepared(list)[i].id = list[i] /\ Prepared(list)[i].at = clock + 1
  BY DEF Prepared
<1>. QED BY <1>1, <1>2, <1>3 DEF Names

\* A call that adds documents, to the batch of its block or to its request.
LEMMA AddWriterInv ==
    ASSUME TypeOK, TypeOK', StackCoversBlocks, NEW s \in Sessions, WriterInv(s),
           todo[s] = << >>, NEW list \in Lists, NEW after \in {<< >>, <<CommitRequest>>},
           AddDocuments(s, list, after)
    PROVE  /\ WriterInv(s)'
           /\ NothingLeftBehind(s)' =>
                /\ NothingLeftBehind(s)
                /\ Buffered(stack'[s], blocks'[s], todo'[s])
                     = Buffered(stack[s], blocks[s], todo[s]) \o Prepared(list)
<1> DEFINE docs == Prepared(list)
           old == Buffered(stack[s], blocks[s], todo[s])
           new == Buffered(stack'[s], blocks'[s], todo'[s])
<1>1. docs \in Seq(Docs)
  BY PreparedType DEF TypeOK
<1>2. /\ \A i \in DOMAIN docs : docs[i].at = wanted'[docs[i].id]
      /\ \A k \in Keys \ Names(docs) : wanted'[k] = wanted[k]
  BY PreparedWanted
<1>3. UNCHANGED <<core, blocks>>
  BY DEF AddDocuments, solr
<1>4. /\ Len(stack[s]) \in Nat /\ blocks[s] \in {0, 1} /\ blocks[s] <= Len(stack[s])
      /\ stack[s] \in Seq(Seq(Docs))
  BY SessionTypes DEF WriterInv, StackCoversBlocks, depth
<1>5. OnlyCommits(after) /\ Ordered(after) /\ Doomed(after) = {}
  <2>1. OnlyCommits(after)
    BY DEF OnlyCommits, CommitRequest
  <2>. QED BY <2>1, OnlyCommitsOrdered
<1>. HIDE DEF docs
<1>6. ASSUME NothingLeftBehind(s), new = old \o docs, old \in Seq(Docs), Doomed(todo'[s]) = {}
      PROVE  Agrees(core', wanted', new, Doomed(todo'[s]))
  <2>1. Agrees(core, wanted, old, Doomed(todo[s])) /\ Doomed(todo[s]) = {}
    BY <1>6 DEF WriterInv, Doomed, Deletes
  <2>. HIDE DEF old, new
  <2>2. Latest(new, wanted') /\ Names(new) = Names(old) \cup Names(docs)
    BY <1>1, <1>2, <1>6, <2>1, ConcatLatest DEF Agrees
  <2>3. \A k \in Keys : core'[k] = wanted'[k] \/ k \in Names(new)
    BY <1>2, <1>3, <2>1, <2>2 DEF Agrees
  <2>. QED BY <1>6, <2>2, <2>3 DEF Agrees
<1>7. CASE batching(stack[s])
  <2>1. /\ stack'[s] = concat(stack[s], docs) /\ todo'[s] = after
    BY <1>7 DEF AddDocuments, TypeOK, docs
  <2>2. /\ Len(stack'[s]) = Len(stack[s])
        /\ stack'[s][Len(stack[s])] = stack[s][Len(stack[s])] \o docs
        /\ Len(stack[s]) > 0
    <3>1. Len(stack[s]) > 0
      BY <1>7 DEF batching, depth
    <3>2. Len(stack[s]) \in 1 .. Len(stack[s])
      BY <1>4, <3>1
    <3>3. /\ Len(concat(stack[s], docs)) = Len(stack[s])
          /\ concat(stack[s], docs)[Len(stack[s])] = stack[s][Len(stack[s])] \o docs
      BY <1>1, <1>4, <1>7, <3>2, ConcatType
    <3>. QED BY <2>1, <3>1, <3>3
  <2>3. ASSUME NothingLeftBehind(s)'
        PROVE  NothingLeftBehind(s) /\ new = old \o docs /\ old \in Seq(Docs)
    <3>1. Len(stack[s]) = blocks[s] /\ blocks[s] = 1 /\ blocks'[s] = 1
      BY <1>3, <1>4, <2>2, <2>3 DEF NothingLeftBehind
    <3>2. new = old \o docs
      BY <2>2, <3>1 DEF Buffered
    <3>3. old \in Seq(Docs)
      BY <1>4, <3>1, ElementOfSeq DEF Buffered
    <3>. QED BY <3>1, <3>2, <3>3 DEF NothingLeftBehind
  <2>. HIDE DEF old, new
  <2>4. NothingLeftBehind(s)' => Agrees(core', wanted', new, Doomed(todo'[s]))
    BY <1>5, <1>6, <2>1, <2>3
  <2>5. WriterInv(s)'
    BY <1>3, <1>4, <1>5, <2>1, <2>4 DEF WriterInv, new
  <2>. QED BY <2>3, <2>5 DEF docs, old, new
<1>8. CASE ~ batching(stack[s])
  <2>1. stack' = stack /\ todo'[s] = <<AddRequest(docs)>> \o after
    BY <1>8 DEF AddDocuments, TypeOK, docs
  <2>2. Len(stack[s]) = 0 /\ blocks[s] = 0 /\ NothingLeftBehind(s)
    BY <1>4, <1>8 DEF batching, depth, NothingLeftBehind
  <2>3. /\ 1 \in DOMAIN todo'[s] /\ todo'[s][1] = AddRequest(docs)
        /\ \A i \in DOMAIN todo'[s] : i # 1 => todo'[s][i] = CommitRequest
    BY <1>1, <2>1, AddFirst
  <2>4. AddRequest(docs).op = "add" /\ AddRequest(docs).docs = docs /\ CommitRequest.op = "commit"
    BY DEF AddRequest, CommitRequest
  <2>5. Ordered(todo'[s]) /\ Doomed(todo'[s]) = {}
    BY <2>3, <2>4 DEF Ordered, Doomed, Deletes
  <2>6. new = docs /\ old = << >>
    <3>1. todo'[s] # << >>
      BY <2>3
    <3>. QED BY <1>3, <2>2, <2>3, <2>4, <3>1 DEF Buffered
  <2>. HIDE DEF old, new
  <2>7. old \in Seq(Docs) /\ new = old \o docs
    BY <1>1, <2>6, EmptySeq, ConcatEmptySeq
  <2>8. Agrees(core', wanted', new, Doomed(todo'[s]))
    BY <1>6, <2>2, <2>5, <2>7
  <2>9. WriterInv(s)'
    BY <1>3, <2>2, <2>5, <2>8 DEF WriterInv, new
  <2>. QED BY <2>2, <2>7, <2>9 DEF docs, old, new
<1>. QED BY <1>7, <1>8


-----------------------------------------------------------------------------
(* The blocks.                                                             *)

LEMMA StartWriterInv ==
    ASSUME BlocksOnlyAdd, TypeOK, StackCoversBlocks, NEW s \in Sessions, WriterInv(s),
           StartBatch(s)
    PROVE  /\ WriterInv(s)'
           /\ NothingLeftBehind(s)' =>
                /\ NothingLeftBehind(s)
                /\ Buffered(stack'[s], blocks'[s], todo'[s])
                     = Buffered(stack[s], blocks[s], todo[s])
<1>1. todo[s] = << >> /\ blocks[s] = 0
  <2>1. todo[s] = << >> /\ ("batch" \in IF blocks[s] = 0 THEN Ops ELSE BatchOps)
    BY DEF StartBatch, Calls
  <2>2. "batch" \notin BatchOps
    BY DEF BlocksOnlyAdd
  <2>. QED BY <2>1, <2>2
<1>2. /\ stack'[s] = start_new(stack[s]) /\ blocks'[s] = 1
      /\ UNCHANGED <<core, wanted, todo>>
  BY <1>1 DEF StartBatch, TypeOK, solr, history
<1>3. /\ Len(stack[s]) \in Nat
      /\ Len(stack'[s]) = Len(stack[s]) + 1 /\ stack'[s][Len(stack[s]) + 1] = << >>
  <2>1. stack[s] \in Seq(Seq(Docs)) /\ Len(stack[s]) \in Nat
    BY SessionTypes
  <2>2. /\ Len(start_new(stack[s])) = Len(stack[s]) + 1
        /\ start_new(stack[s])[Len(stack[s]) + 1] = << >>
    BY <2>1, StackTypes
  <2>. QED BY <1>2, <2>1, <2>2
<1>4. ASSUME NothingLeftBehind(s)'
      PROVE  /\ NothingLeftBehind(s)
             /\ Buffered(stack'[s], blocks'[s], todo'[s]) = << >>
             /\ Buffered(stack[s], blocks[s], todo[s]) = << >>
  <2>1. Len(stack[s]) = 0 /\ stack'[s][1] = << >>
    BY <1>2, <1>3, <1>4 DEF NothingLeftBehind
  <2>. QED BY <1>1, <1>2, <2>1 DEF NothingLeftBehind, Buffered
<1>5. OnlyCommits(todo'[s]) /\ Ordered(todo'[s])
  BY <1>1, <1>2, OnlyCommitsOrdered DEF OnlyCommits
<1>6. NothingLeftBehind(s)' =>
        Agrees(core', wanted', Buffered(stack'[s], blocks'[s], todo'[s]), Doomed(todo'[s]))
  BY <1>2, <1>4 DEF WriterInv
<1>. QED BY <1>2, <1>4, <1>5, <1>6 DEF WriterInv

LEMMA FlushWriterInv ==
    ASSUME TypeOK, NEW s \in Sessions, WriterInv(s), FlushBatch(s)
    PROVE  /\ WriterInv(s)'
           /\ NothingLeftBehind(s)' =>
                /\ NothingLeftBehind(s)
                /\ Buffered(stack'[s], blocks'[s], todo'[s])
                     = Buffered(stack[s], blocks[s], todo[s])
<1> DEFINE request == AddRequest(current(stack[s]))
<1>1. /\ todo[s] = << >> /\ blocks[s] = 1 /\ Len(stack[s]) > 0
      /\ blocks'[s] = 0 /\ stack'[s] = end_current(stack[s])
      /\ todo'[s] = <<request>> /\ UNCHANGED <<core, wanted>>
  <2>1. blocks[s] = 1 /\ blocks'[s] = blocks[s] - 1
    BY DEF FlushBatch, WriterInv, TypeOK
  <2>. QED BY <2>1 DEF FlushBatch, depth, TypeOK, solr, history
<1>2. request.op = "add" /\ request.docs = current(stack[s])
  BY DEF AddRequest
<1>3. Len(stack[s]) \in Nat /\ Len(stack'[s]) = Len(stack[s]) - 1
  <2>1. stack[s] \in Seq(Seq(Docs)) /\ Len(stack[s]) \in Nat /\ stack[s] # << >>
    BY <1>1, SessionTypes
  <2>2. Len(end_current(stack[s])) = Len(stack[s]) - 1
    BY <2>1, StackTypes
  <2>. QED BY <1>1, <2>1, <2>2
<1>. HIDE DEF request
<1>4. DOMAIN todo'[s] = {1} /\ todo'[s][1] = request /\ todo'[s] # << >>
  BY <1>1
<1>5. Ordered(todo'[s]) /\ Doomed(todo'[s]) = {}
  BY <1>2, <1>4 DEF Ordered, Doomed, Deletes
<1>6. ASSUME NothingLeftBehind(s)'
      PROVE  /\ NothingLeftBehind(s)
             /\ Buffered(stack'[s], blocks'[s], todo'[s]) = stack[s][1]
             /\ Buffered(stack[s], blocks[s], todo[s]) = stack[s][1]
  <2>1. Len(stack[s]) = 1
    <3>1. Len(stack'[s]) = 0
      BY <1>1, <1>6 DEF NothingLeftBehind
    <3>2. ASSUME NEW n \in Nat, 0 = n - 1
          PROVE  n = 1
      BY <3>2
    <3>3. Len(stack[s]) \in Nat /\ 0 = Len(stack[s]) - 1
      BY <1>3, <3>1
    <3>. QED BY <3>2, <3>3
  <2>2. request.docs = stack[s][1]
    BY <1>2, <2>1 DEF current
  <2>. QED BY <1>1, <1>4, <2>1, <2>2 DEF NothingLeftBehind, Buffered
<1>7. Doomed(todo[s]) = {}
  BY <1>1 DEF Doomed, Deletes
<1>8. NothingLeftBehind(s)' =>
        Agrees(core', wanted', Buffered(stack'[s], blocks'[s], todo'[s]), Doomed(todo'[s]))
  BY <1>1, <1>5, <1>6, <1>7 DEF WriterInv
<1>. QED BY <1>1, <1>5, <1>6, <1>8 DEF WriterInv

-----------------------------------------------------------------------------
(* The requests.                                                           *)

\* What is left of the requests after the first.
LEMMA TailOfTodo ==
    ASSUME TypeOK, NEW s \in Sessions, todo[s] # << >>
    PROVE  LET rest == Tail(todo[s])
           IN  /\ rest \in Seq(Requests) /\ Len(rest) = Len(todo[s]) - 1
               /\ DOMAIN rest = 1 .. Len(todo[s]) - 1
               /\ \A i \in DOMAIN rest : rest[i] = todo[s][i + 1] /\ i + 1 \in DOMAIN todo[s]
<1> DEFINE rest == Tail(todo[s])
<1>1. /\ todo[s] \in Seq(Requests) /\ Len(todo[s]) \in Nat /\ DOMAIN todo[s] = 1 .. Len(todo[s])
      /\ Len(todo[s]) # 0
  BY SessionTypes
<1>2. /\ rest \in Seq(Requests) /\ Len(rest) = Len(todo[s]) - 1
      /\ \A i \in 1 .. Len(rest) : rest[i] = todo[s][i + 1]
  BY <1>1, HeadTailProperties
<1>. HIDE DEF rest
<1>3. DOMAIN rest = 1 .. Len(todo[s]) - 1
  BY <1>2, LenProperties
<1>4. \A i \in DOMAIN rest : rest[i] = todo[s][i + 1] /\ i + 1 \in DOMAIN todo[s]
  BY <1>1, <1>2, <1>3
<1>. QED BY <1>2, <1>3, <1>4 DEF rest

\* Behind a request that does not delete there are only commits.
LEMMA CommitsFollow ==
    ASSUME TypeOK, NEW s \in Sessions, todo[s] # << >>, Ordered(todo[s]),
           Head(todo[s]).op # "delete", NEW outcome, Returns(s, outcome)
    PROVE  OnlyCommits(todo'[s]) /\ Deletes(todo[s]) = {}
<1>1. 1 \in DOMAIN todo[s] /\ Head(todo[s]) = todo[s][1]
  BY HeadOfTodo
<1>2. /\ todo[s] \in Seq(Requests) /\ Len(todo[s]) \in Nat /\ DOMAIN todo[s] = 1 .. Len(todo[s])
  BY SessionTypes
<1>3. ASSUME NEW i \in DOMAIN todo[s]
      PROVE  todo[s][i].op # "delete" /\ (i # 1 => todo[s][i].op = "commit")
  <2>1. 1 \in 1 .. i
    BY <1>2
  <2>2. todo[s][i].op # "delete" /\ (i # 1 => todo[s][i].op # "add")
    BY <1>1, <2>1 DEF Ordered
  <2>3. todo[s][i] \in Requests
    BY <1>2, ElementOfSeq
  <2>. QED BY <2>2, <2>3 DEF Requests
<1>4. CASE todo'[s] = Tail(todo[s])
  <2>1. \A i \in DOMAIN todo'[s] : i + 1 \in DOMAIN todo[s] /\ todo'[s][i] = todo[s][i + 1]
                                   /\ i + 1 # 1
    <3>1. /\ DOMAIN todo'[s] = 1 .. Len(todo[s]) - 1
          /\ \A i \in DOMAIN todo'[s] : todo'[s][i] = todo[s][i + 1] /\ i + 1 \in DOMAIN todo[s]
      BY <1>4, TailOfTodo
    <3>. QED BY <1>2, <3>1
  <2>. QED BY <1>3, <2>1 DEF OnlyCommits, Deletes
<1>5. CASE todo'[s] = << >>
  BY <1>3, <1>5 DEF OnlyCommits, Deletes
<1>. QED BY <1>4, <1>5 DEF Returns, Unwind, TypeOK

\* An add request leaves the last version it has of every key it names.
LEMMA OverwrittenLatest ==
    ASSUME NEW docs \in Seq(Docs), NEW wants, Latest(docs, wants), NEW k \in Keys
    PROVE  Core!Overwritten(docs)[k] = IF k \in Names(docs) THEN wants[k] ELSE core[k]
<1>1. Core!At(docs, k) = {} <=> k \notin Names(docs)
  BY DEF Core!At, Names
<1>2. ASSUME Core!At(docs, k) # {}
      PROVE  Core!Overwritten(docs)[k] = wants[k]
  <2>1. Core!At(docs, k) \subseteq 1 .. Len(docs) /\ Len(docs) \in Nat
    BY LenProperties DEF Core!At
  <2>2. \E i \in Core!At(docs, k) : \A j \in Core!At(docs, k) : j <= i
    BY <1>2, <2>1, MaxExists
  <2>3. PICK i \in Core!At(docs, k) :
           /\ i = CHOOSE m \in Core!At(docs, k) : \A j \in Core!At(docs, k) : j <= m
           /\ \A j \in Core!At(docs, k) : j <= i
    BY <2>2
  <2>4. docs[i].at = wants[k]
    BY <2>3 DEF Latest, Core!At
  <2>5. Core!Overwritten(docs)[k] = docs[i].at
    BY <1>2, <2>3 DEF Core!Overwritten
  <2>. QED BY <2>4, <2>5
<1>3. Core!At(docs, k) = {} => Core!Overwritten(docs)[k] = core[k]
  BY DEF Core!Overwritten
<1>. QED BY <1>1, <1>2, <1>3

LEMMA AddRequestWriterInv ==
    ASSUME TypeOK, TypeOK', NEW s \in Sessions, WriterInv(s), DocsFirst(todo[s]),
           NEW o, o # "refused", SendAdd(s, o)
    PROVE  /\ WriterInv(s)' /\ OnlyCommits(todo'[s])
           /\ Buffered(stack'[s], blocks'[s], todo'[s]) = << >>
           /\ Buffered(stack[s], blocks[s], todo[s]) = Head(todo[s]).docs
           /\ NothingLeftBehind(s)' => NothingLeftBehind(s)
           /\ blocks'[s] = blocks[s]
<1> DEFINE docs == Head(todo[s]).docs
<1>1. /\ todo[s] # << >> /\ Head(todo[s]).op = "add" /\ Returns(s, o) /\ stack' = stack
      /\ core' = Core!Overwritten(docs) /\ wanted' = wanted
  BY DEF SendAdd, Sending, Core!SolrAdd
<1>2. /\ 1 \in DOMAIN todo[s] /\ Head(todo[s]) = todo[s][1] /\ Head(todo[s]) \in Requests
  BY <1>1, HeadOfTodo
<1>3. docs \in Seq(Docs)
  BY <1>2 DEF Requests
<1>4. blocks[s] = 0
  BY <1>1, <1>2 DEF WriterInv, OnlyCommits
<1>5. blocks'[s] = 0
  <2>1. blocks'[s] <= blocks[s] /\ blocks'[s] \in Nat
    BY <1>1, ReturnsBlocks DEF TypeOK
  <2>. QED BY <1>4, <2>1
<1>6. OnlyCommits(todo'[s]) /\ Deletes(todo[s]) = {}
  BY <1>1, CommitsFollow DEF WriterInv
<1>7. NoDocs(todo'[s])
  BY <1>1, HeadIsAll
<1>8. Ordered(todo'[s]) /\ Doomed(todo'[s]) = {} /\ Doomed(todo[s]) = {}
  BY <1>6, OnlyCommitsOrdered DEF Doomed
<1>9. Buffered(stack[s], blocks[s], todo[s]) = docs
  BY <1>1, <1>2, <1>4 DEF Buffered
<1>10. Buffered(stack'[s], blocks'[s], todo'[s]) = << >>
  <2>1. todo'[s] # << >> => 1 \in DOMAIN todo'[s]
    <3>1. todo'[s] \in Seq(Requests)
      BY DEF TypeOK
    <3>. QED BY <3>1, LenProperties, EmptySeq
  <2>. QED BY <1>5, <1>7, <2>1 DEF Buffered, NoDocs
<1>11. ASSUME NothingLeftBehind(s)
       PROVE  Agrees(core', wanted', << >>, {})
  <2>1. Agrees(core, wanted, docs, {})
    BY <1>8, <1>9, <1>11 DEF WriterInv
  <2>. HIDE DEF docs
  <2>2. \A k \in Keys : core'[k] = wanted[k]
    <3>1. \A k \in Keys : core'[k] = IF k \in Names(docs) THEN wanted[k] ELSE core[k]
      BY <1>1, <1>3, <2>1, OverwrittenLatest DEF Agrees
    <3>. QED BY <2>1, <3>1 DEF Agrees
  <2>. QED BY <1>1, <2>2 DEF Agrees, Latest
<1>12. NothingLeftBehind(s)' => NothingLeftBehind(s)
  BY <1>1, <1>4, <1>5 DEF NothingLeftBehind
<1>. HIDE DEF docs
<1>13. WriterInv(s)'
  BY <1>5, <1>8, <1>10, <1>11, <1>12 DEF WriterInv
<1>. QED BY <1>4, <1>5, <1>6, <1>9, <1>10, <1>12, <1>13 DEF docs


LEMMA DeleteRequestWriterInv ==
    ASSUME TypeOK, TypeOK', NEW s \in Sessions, WriterInv(s), DocsFirst(todo[s]),
           SendDelete(s, "ok")
    PROVE  /\ WriterInv(s)' /\ todo'[s] = Tail(todo[s])
           /\ Buffered(stack'[s], blocks'[s], todo'[s]) = << >>
           /\ Buffered(stack[s], blocks[s], todo[s]) = << >>
           /\ stack'[s] = stack[s] /\ blocks'[s] = blocks[s]
<1> DEFINE ids == Head(todo[s]).ids
<1>1. /\ todo[s] # << >> /\ Head(todo[s]).op = "delete" /\ Returns(s, "ok") /\ stack' = stack
      /\ core' = [k \in Keys |-> IF k \in ids THEN 0 ELSE core[k]] /\ wanted' = wanted
  BY DEF SendDelete, Sending, Core!SolrDelete, history
<1>2. todo'[s] = Tail(todo[s]) /\ blocks' = blocks
  BY <1>1 DEF Returns, TypeOK
<1>3. 1 \in DOMAIN todo[s] /\ Head(todo[s]) = todo[s][1]
  BY <1>1, HeadOfTodo
<1>4. /\ todo[s] \in Seq(Requests) /\ Len(todo[s]) \in Nat /\ DOMAIN todo[s] = 1 .. Len(todo[s])
  BY SessionTypes
<1>5. blocks[s] = 0
  BY <1>1, <1>3 DEF WriterInv, OnlyCommits
<1>6. /\ todo'[s] \in Seq(Requests) /\ DOMAIN todo'[s] = 1 .. Len(todo[s]) - 1
      /\ \A i \in DOMAIN todo'[s] : todo'[s][i] = todo[s][i + 1] /\ i + 1 \in DOMAIN todo[s]
  BY <1>1, <1>2, TailOfTodo
<1>7. NoDocs(todo'[s]) /\ todo[s][1].docs = << >>
  <2>1. NoDocs(todo'[s])
    BY <1>1, HeadIsAll
  <2>. QED BY <1>1, <1>3, <2>1 DEF DocsFirst
<1>8. /\ Buffered(stack[s], blocks[s], todo[s]) = << >>
      /\ Buffered(stack'[s], blocks'[s], todo'[s]) = << >>
  <2>1. todo'[s] # << >> => 1 \in DOMAIN todo'[s]
    BY <1>6, LenProperties, EmptySeq
  <2>2. todo'[s] # << >> => todo'[s][1].docs = << >>
    BY <1>7, <2>1 DEF NoDocs
  <2>3. blocks[s] # 1 /\ blocks'[s] # 1 /\ todo[s] # << >>
    BY <1>1, <1>2, <1>5
  <2>4. Buffered(stack[s], blocks[s], todo[s]) = << >>
    BY <1>7, <2>3 DEF Buffered
  <2>5. Buffered(stack'[s], blocks'[s], todo'[s]) = << >>
    BY <2>2, <2>3 DEF Buffered
  <2>. QED BY <2>4, <2>5
<1>9. Ordered(todo'[s])
  <2>. SUFFICES ASSUME NEW i \in DOMAIN todo'[s]
                PROVE  /\ todo'[s][i].op = "delete" =>
                            \A j \in 1 .. i : todo'[s][j].op = "delete"
                       /\ todo'[s][i].op # "add"
    BY DEF Ordered
  <2>1. i + 1 \in DOMAIN todo[s] /\ todo'[s][i] = todo[s][i + 1] /\ i + 1 # 1
    BY <1>4, <1>6
  <2>2. ASSUME NEW j \in 1 .. i, todo'[s][i].op = "delete"
        PROVE  todo'[s][j].op = "delete"
    <3>1. j \in DOMAIN todo'[s] /\ j + 1 \in 1 .. i + 1
      BY <1>4, <1>6
    <3>2. todo[s][j + 1].op = "delete"
      BY <2>1, <2>2, <3>1 DEF WriterInv, Ordered
    <3>. QED BY <1>6, <3>1, <3>2
  <2>. QED BY <2>1, <2>2 DEF WriterInv, Ordered
<1>10. Doomed(todo[s]) = ids \cup Doomed(todo'[s])
  <2>1. ASSUME NEW i \in Deletes(todo[s])
        PROVE  i = 1 \/ \E j \in Deletes(todo'[s]) : todo'[s][j] = todo[s][i]
    <3>1. i \in DOMAIN todo[s] /\ todo[s][i].op = "delete"
      BY DEF Deletes
    <3>2. CASE i # 1
      <4> DEFINE j == i - 1
      <4>1. j \in 1 .. Len(todo[s]) - 1 /\ j + 1 = i
        BY <1>4, <3>1, <3>2
      <4>. HIDE DEF j
      <4>2. j \in DOMAIN todo'[s] /\ todo'[s][j] = todo[s][i]
        BY <1>6, <4>1
      <4>. QED BY <3>1, <4>2 DEF Deletes
    <3>. QED BY <3>2
  <2>2. ASSUME NEW j \in Deletes(todo'[s])
        PROVE  \E i \in Deletes(todo[s]) : todo'[s][j] = todo[s][i]
    BY <1>6 DEF Deletes
  <2>3. 1 \in Deletes(todo[s]) /\ todo[s][1].ids = ids
    BY <1>1, <1>3 DEF Deletes
  <2>. HIDE DEF ids
  <2>4. Doomed(todo[s]) \subseteq ids \cup Doomed(todo'[s])
    BY <2>1, <2>3 DEF Doomed
  <2>5. ids \cup Doomed(todo'[s]) \subseteq Doomed(todo[s])
    BY <2>2, <2>3 DEF Doomed
  <2>. QED BY <2>4, <2>5
<1>11. ASSUME NothingLeftBehind(s)
       PROVE  Agrees(core', wanted', << >>, Doomed(todo'[s]))
  <2>1. Agrees(core, wanted, << >>, Doomed(todo[s]))
    BY <1>8, <1>11 DEF WriterInv
  <2>. HIDE DEF ids
  <2>2. \A k \in Keys : core'[k] = wanted[k] \/ k \in Doomed(todo'[s])
    BY <1>1, <1>10, <2>1 DEF Agrees, Names
  <2>. QED BY <1>1, <1>10, <2>1, <2>2 DEF Agrees
<1>12. NothingLeftBehind(s)' => NothingLeftBehind(s)
  BY <1>1, <1>2 DEF NothingLeftBehind
<1>13. WriterInv(s)'
  BY <1>2, <1>5, <1>8, <1>9, <1>11, <1>12 DEF WriterInv
<1>. QED BY <1>1, <1>2, <1>8, <1>13

LEMMA CommitRequestWriterInv ==
    ASSUME TypeOK, TypeOK', StackCoversBlocks, NEW s \in Sessions, WriterInv(s),
           DocsFirst(todo[s]), NEW o, SendCommit(s, o)
    PROVE  WriterInv(s)'
<1>1. /\ todo[s] # << >> /\ Head(todo[s]).op = "commit" /\ Returns(s, o) /\ stack' = stack
      /\ UNCHANGED <<core, wanted>>
  BY DEF SendCommit, Sending, Core!SolrCommit, solr, history
<1>2. blocks'[s] <= blocks[s]
  BY <1>1, ReturnsBlocks
<1>3. OnlyCommits(todo'[s]) /\ Deletes(todo[s]) = {}
  BY <1>1, CommitsFollow DEF WriterInv
<1>4. 1 \in DOMAIN todo[s] /\ Head(todo[s]) = todo[s][1]
  BY <1>1, HeadOfTodo
<1>5. OnlyCommits(todo[s])
  <2>1. /\ todo[s] \in Seq(Requests) /\ DOMAIN todo[s] = 1 .. Len(todo[s])
    BY SessionTypes
  <2>2. ASSUME NEW i \in DOMAIN todo[s]
        PROVE  todo[s][i].op = "commit"
    <3>1. todo[s][i] \in Requests
      BY <2>1, ElementOfSeq
    <3>2. todo[s][i].op # "delete" /\ (todo[s][i].op = "add" => i = 1)
      BY <1>3 DEF Deletes, WriterInv, Ordered
    <3>. QED BY <1>1, <1>4, <3>1, <3>2 DEF Requests
  <2>. QED BY <2>2 DEF OnlyCommits
<1>6. NoDocs(todo[s]) /\ NoDocs(todo'[s])
  <2>1. NoDocs(todo'[s])
    BY <1>1, HeadIsAll
  <2>2. NoDocs(todo[s])
    BY <1>5 DEF DocsFirst, NoDocs, OnlyCommits
  <2>. QED BY <2>1, <2>2
<1>. QED BY <1>1, <1>2, <1>3, <1>5, <1>6, CommitsOnlyInv

-----------------------------------------------------------------------------
(* The invariant.                                                          *)

\* A call that is not made inside a block.
LEMMA OutsideBlocks ==
    ASSUME BlocksOnlyAdd, NEW s \in Sessions, WriterInv(s), NEW op, Calls(s, op),
           op \in {"remove", "remove!", "remove_by_scope", "remove_by_scope!",
                   "remove_by_id", "remove_by_id!", "remove_all", "remove_all!"}
    PROVE  blocks[s] = 0 /\ todo[s] = << >>
BY DEF Calls, BlocksOnlyAdd, WriterInv

LEMMA CallWriterInv ==
    ASSUME BlocksOnlyAdd, TypeOK, TypeOK', StackCoversBlocks, NEW s \in Sessions,
           WriterInv(s), Call(s)
    PROVE  WriterInv(s)'
<1>1. ASSUME NEW list \in Lists,
             \/ Index(s, list) \/ IndexNow(s, list)
             \/ AtomicUpdate(s, list) \/ AtomicUpdateNow(s, list)
      PROVE  WriterInv(s)'
  BY <1>1, AddWriterInv DEF Index, IndexNow, AtomicUpdate, AtomicUpdateNow, Calls
<1>2. ASSUME todo[s] = << >>, todo'[s] = << >> \/ todo'[s] = <<CommitRequest>>,
             UNCHANGED <<core, wanted>>, stack'[s] = stack[s], blocks'[s] <= blocks[s]
      PROVE  WriterInv(s)'
  <2>1. OnlyCommits(todo[s]) /\ OnlyCommits(todo'[s])
    BY <1>2 DEF OnlyCommits, CommitRequest
  <2>2. NoDocs(todo[s]) /\ NoDocs(todo'[s])
    BY <1>2, RemovalsNoDocs
  <2>. QED BY <1>2, <2>1, <2>2, CommitsOnlyInv
<1>3. ASSUME NEW list \in Lists, PrepareFails(s, list)
      PROVE  WriterInv(s)'
  <2>1. todo[s] = << >> /\ todo'[s] = << >>
    BY <1>3 DEF PrepareFails, Unwind, Calls, TypeOK
  <2>2. blocks'[s] <= blocks[s]
    BY <1>3, UnwindBlocks DEF PrepareFails
  <2>3. UNCHANGED <<core, wanted, stack>>
    BY <1>3 DEF PrepareFails, solr, history
  <2>. QED BY <1>2, <2>1, <2>2, <2>3
<1>4. ASSUME NEW list \in Lists, Remove(s, list) \/ RemoveNow(s, list)
      PROVE  WriterInv(s)'
  BY <1>4, OutsideBlocks, RemovalsRemove, RemovalWriterInv DEF Remove, RemoveNow
<1>5. ASSUME NEW ids \in SUBSET Keys, RemoveById(s, ids) \/ RemoveByIdNow(s, ids)
      PROVE  WriterInv(s)'
  BY <1>5, OutsideBlocks, RemovalsRemove, RemovalWriterInv DEF RemoveById, RemoveByIdNow
<1>6. ASSUME NEW ids \in SUBSET Keys, NEW type \in Types,
             RemoveByScope(s, type, ids) \/ RemoveByScopeNow(s, type, ids)
      PROVE  WriterInv(s)'
  <2>1. type \cap ids \in SUBSET Keys
    BY TypesAssumption
  <2>. QED
    BY <1>6, <2>1, OutsideBlocks, RemovalsRemove, RemovalWriterInv
       DEF RemoveByScope, RemoveByScopeNow
<1>7. ASSUME NEW classes \in RemoveAllArgs, RemoveAll(s, classes) \/ RemoveAllNow(s, classes)
      PROVE  WriterInv(s)'
  BY <1>7, OutsideBlocks, RemovalsRemove, RemovalWriterInv DEF RemoveAll, RemoveAllNow
<1>8. ASSUME Commit(s) \/ Optimize(s) \/ CommitIfDirty(s) \/ CommitIfDeleteDirty(s)
      PROVE  WriterInv(s)'
  <2>1. todo[s] = << >> /\ JustCommit(s)
    BY <1>8 DEF Commit, Optimize, CommitIfDirty, CommitIfDeleteDirty, Calls
  <2>2. /\ todo'[s] = <<CommitRequest>> /\ UNCHANGED <<core, wanted, stack, blocks>>
        /\ blocks[s] <= blocks[s]
    BY <2>1 DEF JustCommit, solr, history, TypeOK
  <2>. QED BY <1>2, <2>1, <2>2
<1>9. ASSUME BlockRaises(s)
      PROVE  WriterInv(s)'
  <2>1. blocks'[s] <= blocks[s] /\ todo[s] = << >> /\ UNCHANGED <<core, wanted, stack, todo>>
    BY <1>9 DEF BlockRaises, TypeOK, solr, history
  <2>. QED BY <1>2, <2>1
<1>. QED
  BY <1>1, <1>3, <1>4, <1>5, <1>6, <1>7, <1>8, <1>9, StartWriterInv, FlushWriterInv DEF Call

LEMMA RequestWriterInv ==
    ASSUME UpdatesArrive, TypeOK, TypeOK', StackCoversBlocks, NEW s \in Sessions,
           WriterInv(s), DocsFirst(todo[s]), Request(s)
    PROVE  WriterInv(s)'
<1>1. Outcomes("delete") = {"ok"} /\ \A o \in Outcomes("add") : o # "refused"
  BY DEF Outcomes, UpdatesArrive
<1>. QED
  BY <1>1, AddRequestWriterInv, DeleteRequestWriterInv, CommitRequestWriterInv DEF Request

OneWriterInv == \A s \in Sessions : WriterInv(s)

LEMMA WriterInductive ==
    OneWriter /\ BlocksOnlyAdd /\ UpdatesArrive => (Spec => []OneWriterInv)
<1> SUFFICES ASSUME OneWriter, BlocksOnlyAdd, UpdatesArrive
             PROVE  Spec => []OneWriterInv
  OBVIOUS
<1>1. Init => OneWriterInv
  <2> SUFFICES ASSUME Init, NEW s \in Sessions
               PROVE  WriterInv(s)
    BY DEF OneWriterInv
  <2>1. /\ blocks[s] = 0 /\ todo[s] = << >>
        /\ core = [k \in Keys |-> 0] /\ wanted = [k \in Keys |-> 0]
    BY DEF Init, Core!SolrInit
  <2>2. OnlyCommits(todo[s])
    BY <2>1 DEF OnlyCommits
  <2>3. Ordered(todo[s]) /\ Doomed(todo[s]) = {}
    BY <2>2, OnlyCommitsOrdered
  <2>4. Agrees(core, wanted, << >>, {})
    BY <2>1 DEF Agrees, Latest
  <2>5. Buffered(stack[s], blocks[s], todo[s]) = << >>
    BY <2>1 DEF Buffered
  <2>. QED BY <2>1, <2>2, <2>3, <2>4, <2>5 DEF WriterInv
<1>2. TypeOK /\ TypeOK' /\ StackCoversBlocks /\ PlacesInv /\ OneWriterInv /\ [Next]_vars
        => OneWriterInv'
  <2> SUFFICES ASSUME TypeOK, TypeOK', StackCoversBlocks, PlacesInv, OneWriterInv,
                      [Next]_vars, NEW s \in Sessions
               PROVE  WriterInv(s)'
    BY DEF OneWriterInv
  <2>1. WriterInv(s) /\ DocsFirst(todo[s]) /\ Sessions = {s}
    BY DEF OneWriterInv, PlacesInv, AddsComeFirst, OneWriter
  <2>2. CASE Call(s)
    BY <2>1, <2>2, CallWriterInv
  <2>3. CASE Request(s)
    BY <2>1, <2>3, RequestWriterInv
  <2>4. CASE UNCHANGED vars
    BY <2>1, <2>4 DEF vars, WriterInv, NothingLeftBehind
  <2>. QED BY <2>1, <2>2, <2>3, <2>4 DEF Next
<1>. QED
  BY <1>1, <1>2, TypeCorrect, NoCurrentBatchNeverRaised, PlacesInductive, PTL DEF Spec

\* Batches, one request per document removed, exceptions raised at any depth:
\* whatever the single writer of a core does, when it has nothing open and
\* nothing buffered the index holds what its last calls asked for, provided
\* that blocks only add and commit and that Solr applies every update.
THEOREM LastWriteIsKept ==
    OneWriter /\ BlocksOnlyAdd /\ UpdatesArrive => (Spec => []LastWriteWins)
<1> SUFFICES ASSUME OneWriter, BlocksOnlyAdd, UpdatesArrive
             PROVE  Spec => []LastWriteWins
  OBVIOUS
<1>1. TypeOK /\ OneWriterInv => LastWriteWins
  <2> SUFFICES ASSUME TypeOK, OneWriterInv, Quiescent
               PROVE  core = wanted
    BY DEF LastWriteWins
  <2>1. PICK s \in Sessions : TRUE
    BY DEF OneWriter
  <2>2. todo[s] = << >> /\ blocks[s] = 0 /\ stack[s] = << >> /\ WriterInv(s)
    BY DEF Quiescent, Idle, OneWriterInv
  <2>3. NothingLeftBehind(s)
    BY <2>2, SessionTypes DEF NothingLeftBehind
  <2>4. Agrees(core, wanted, << >>, {})
    <3>1. Buffered(stack[s], blocks[s], todo[s]) = << >> /\ Doomed(todo[s]) = {}
      BY <2>2 DEF Buffered, Doomed, Deletes
    <3>. QED BY <2>2, <2>3, <3>1 DEF WriterInv
  <2>5. \A k \in Keys : core[k] = wanted[k]
    BY <2>4 DEF Agrees, Names
  <2>. QED BY <2>5 DEF TypeOK, Core!SolrTypeOK
<1>. QED BY <1>1, WriterInductive, TypeCorrect, PTL


-----------------------------------------------------------------------------
(* A session that is not dirty.  The commits of a call may publish what the *)
(* counters do not count (remove_by_id!), so that between two requests the  *)
(* searcher may be behind a session that is not dirty: its commit is then   *)
(* still to come, and it does come, because no delete raises.               *)

\* Blocks only add, and every removal counts or commits.
RemovalsShow ==
    /\ BatchOps \subseteq {"index", "atomic_update"}
    /\ Ops \cap {"remove_by_scope", "remove_by_id"} = {}

\* Nothing raises but a request that Solr applied.
OnlyTimeouts == ~ Raises /\ Faults \subseteq {<<"add", "lost">>, <<"commit", "lost">>}

EndsInCommit(requests) ==
    /\ requests # << >>
    /\ requests[1].op # "add"
    /\ requests[Len(requests)].op = "commit"

CommitIsLast(requests, n) ==
    \A i \in DOMAIN requests : requests[i].op = "commit" => i = Len(requests) /\ n = 0

CleanInv(s) ==
    /\ NothingLeftBehind(s)
    /\ CommitIsLast(todo[s], blocks[s])
    /\ ~ Dirty(s) =>
         /\ Buffered(stack[s], blocks[s], todo[s]) = << >>
         /\ Deletes(todo[s]) # {} \/ searcher # core => EndsInCommit(todo[s])

\* Between two calls a session that is not dirty has published everything.
LEMMA CleanBetweenCalls ==
    ASSUME NEW s, CleanInv(s), todo[s] = << >>, ~ Dirty(s)
    PROVE  searcher = core /\ Buffered(stack[s], blocks[s], todo[s]) = << >>
BY DEF CleanInv, EndsInCommit

\* The commit of a call that adds comes after its add request.
LEMMA AddLast ==
    ASSUME NEW docs \in Seq(Docs), NEW after \in {<< >>, <<CommitRequest>>},
           NEW requests, requests = <<AddRequest(docs)>> \o after,
           NEW i \in DOMAIN requests, i # 1
    PROVE  i = Len(requests) /\ after # << >>
<1> DEFINE one == <<AddRequest(docs)>>
<1>1. AddRequest(docs) \in Requests /\ CommitRequest \in Requests
  BY RequestTypes
<1>2. one \in Seq(Requests) /\ Len(one) = 1
  BY <1>1
<1>3. after \in Seq(Requests) /\ Len(after) \in {0, 1} /\ (Len(after) = 0 <=> after = << >>)
  <2>1. CASE after = << >>
    BY <2>1, EmptySeq
  <2>2. CASE after = <<CommitRequest>>
    BY <1>1, <2>2
  <2>. QED BY <2>1, <2>2
<1>. HIDE DEF one
<1>4. requests \in Seq(Requests) /\ Len(requests) = 1 + Len(after)
  <2>1. one \o after \in Seq(Requests) /\ Len(one \o after) = 1 + Len(after)
    BY <1>2, <1>3, ConcatProperties
  <2>. QED BY <2>1 DEF one
<1>5. DOMAIN requests = 1 .. 1 + Len(after)
  BY <1>4, LenProperties
<1>. QED BY <1>3, <1>4, <1>5

LEMMA AddCleanInv ==
    ASSUME TypeOK, TypeOK', StackCoversBlocks, NEW s \in Sessions, WriterInv(s), CleanInv(s),
           todo[s] = << >>, NEW list \in Lists, NEW after \in {<< >>, <<CommitRequest>>},
           after = << >> \/ blocks[s] = 0, AddDocuments(s, list, after)
    PROVE  CleanInv(s)'
<1> DEFINE docs == Prepared(list)
<1>1. /\ docs \in Seq(Docs) /\ list \in Seq(Keys) /\ Len(list) \in Nat
      /\ DOMAIN list = 1 .. Len(list) /\ DOMAIN docs = DOMAIN list
  BY PreparedType, ListType DEF TypeOK, Prepared
<1>2. /\ UNCHANGED <<core, searcher, blocks, deletes>> /\ adds'[s] = adds[s] + Len(list)
  BY DEF AddDocuments, solr, TypeOK
<1>3. adds[s] \in Nat /\ deletes[s] \in Nat /\ stack[s] \in Seq(Seq(Docs))
  BY SessionTypes
<1>. HIDE DEF docs
<1>4. NothingLeftBehind(s)'
  <2>1. CASE batching(stack[s])
    <3>1. stack'[s] = concat(stack[s], docs)
      BY <2>1 DEF AddDocuments, TypeOK, docs
    <3>2. Len(concat(stack[s], docs)) = Len(stack[s])
      BY <1>1, <1>3, <2>1, ConcatType
    <3>. QED BY <1>2, <3>1, <3>2 DEF CleanInv, NothingLeftBehind
  <2>2. CASE ~ batching(stack[s])
    BY <1>2, <2>2 DEF AddDocuments, CleanInv, NothingLeftBehind
  <2>. QED BY <2>1, <2>2
<1>5. todo'[s] = after \/ todo'[s] = <<AddRequest(docs)>> \o after
  BY DEF AddDocuments, TypeOK, docs
<1>6. AddRequest(docs).op = "add" /\ CommitRequest.op = "commit"
  BY DEF AddRequest, CommitRequest
<1>7. CommitIsLast(todo'[s], blocks'[s]) /\ Deletes(todo'[s]) = {}
  <2>1. CASE todo'[s] = after
    <3>1. CASE after = << >>
      BY <2>1, <3>1 DEF CommitIsLast, Deletes
    <3>2. CASE after = <<CommitRequest>> /\ blocks[s] = 0
      <4>1. DOMAIN todo'[s] = {1} /\ Len(todo'[s]) = 1 /\ todo'[s][1].op = "commit"
        BY <2>1, <3>2 DEF CommitRequest
      <4>. QED BY <1>2, <3>2, <4>1 DEF CommitIsLast, Deletes
    <3>. QED BY <3>1, <3>2
  <2>2. CASE todo'[s] = <<AddRequest(docs)>> \o after
    <3>1. /\ 1 \in DOMAIN todo'[s] /\ todo'[s][1] = AddRequest(docs)
          /\ \A i \in DOMAIN todo'[s] : i # 1 =>
                 todo'[s][i] = CommitRequest /\ i = Len(todo'[s]) /\ after # << >>
      BY <1>1, <2>2, AddFirst, AddLast
    <3>2. Deletes(todo'[s]) = {}
      BY <1>6, <3>1 DEF Deletes
    <3>3. CommitIsLast(todo'[s], blocks'[s])
      BY <1>2, <1>6, <3>1 DEF CommitIsLast
    <3>. QED BY <3>2, <3>3
  <2>. QED BY <1>5, <2>1, <2>2
<1>8. ASSUME ~ Dirty(s)'
      PROVE  /\ Buffered(stack'[s], blocks'[s], todo'[s]) = << >>
             /\ searcher' = core'
  <2>1. Len(list) = 0 /\ ~ Dirty(s)
    BY <1>1, <1>2, <1>3, <1>8 DEF Dirty
  <2>2. docs = << >>
    <3>1. DOMAIN docs = {}
      BY <1>1, <2>1
    <3>2. Len(docs) = 0
      BY <1>1, <3>1, LenProperties
    <3>. QED BY <1>1, <3>2, EmptySeq
  <2>3. searcher = core /\ Buffered(stack[s], blocks[s], todo[s]) = << >>
    BY <2>1, CleanBetweenCalls
  <2>4. Buffered(stack'[s], blocks'[s], todo'[s])
          = Buffered(stack[s], blocks[s], todo[s]) \o Prepared(list)
    BY <1>4, AddWriterInv
  <2>5. << >> \o docs = docs
    BY <1>1, ConcatEmptySeq
  <2>. QED BY <1>2, <2>2, <2>3, <2>4, <2>5 DEF docs
<1>. QED BY <1>4, <1>7, <1>8 DEF CleanInv

LEMMA RemovalCleanInv ==
    ASSUME TypeOK, TypeOK', NEW s \in Sessions, WriterInv(s), CleanInv(s), todo[s] = << >>,
           blocks[s] = 0, NEW n \in Nat, NEW ids, NEW requests, Removes(requests, ids),
           CommitIsLast(requests, 0),
           Deletes(requests) # {} => n > 0 \/ EndsInCommit(requests),
           DeleteDocuments(s, n, ids, requests)
    PROVE  CleanInv(s)'
<1>1. /\ todo'[s] = requests /\ UNCHANGED <<core, searcher, stack, blocks, adds>>
      /\ deletes'[s] = deletes[s] + n
  BY DEF DeleteDocuments, solr, TypeOK
<1>2. adds[s] \in Nat /\ deletes[s] \in Nat
  BY SessionTypes
<1>3. ~ Dirty(s)' => n = 0 /\ ~ Dirty(s)
  BY <1>1, <1>2 DEF Dirty
<1>4. Buffered(stack'[s], blocks'[s], todo'[s]) = << >>
  BY RemovalWriterInv
<1>5. ~ Dirty(s)' => searcher' = core'
  BY <1>1, <1>3, CleanBetweenCalls
<1>. QED BY <1>1, <1>3, <1>4, <1>5 DEF CleanInv, NothingLeftBehind

\* What the removals line up: their commit is the last request.
LEMMA ShapeCommits ==
    ASSUME NEW s, NEW n \in Nat, NEW requests, blocks[s] = 0, Shape(s, n, requests)
    PROVE  /\ CommitIsLast(requests, 0)
           /\ Deletes(requests) # {} => n > 0
BY DEF Shape, CommitIsLast, Deletes

LEMMA DeleteThenCommit ==
    ASSUME NEW ids \in SUBSET Keys
    PROVE  LET requests == <<DeleteRequest(ids), CommitRequest>>
           IN  CommitIsLast(requests, 0) /\ EndsInCommit(requests)
<1> DEFINE delete == DeleteRequest(ids)
           commit == CommitRequest
           requests == <<delete, commit>>
<1>1. delete.op = "delete" /\ commit.op = "commit"
  BY DEF DeleteRequest, CommitRequest
<1>2. delete \in Requests /\ commit \in Requests
  BY RequestTypes
<1>. HIDE DEF delete, commit
<1>3. DOMAIN requests = {1, 2} /\ Len(requests) = 2 /\ requests[1] = delete
      /\ requests[2] = commit /\ requests # << >>
  OBVIOUS
<1>. HIDE DEF requests
<1>4. CommitIsLast(requests, 0) /\ EndsInCommit(requests)
  BY <1>1, <1>3 DEF CommitIsLast, EndsInCommit
<1>. QED BY <1>4 DEF requests, delete, commit

LEMMA CallCleanInv ==
    ASSUME RemovalsShow, BlocksOnlyAdd, OnlyTimeouts, TypeOK, TypeOK', StackCoversBlocks,
           NEW s \in Sessions, WriterInv(s), CleanInv(s), Call(s)
    PROVE  CleanInv(s)'
<1>1. ASSUME NEW op, Calls(s, op), op \notin {"index", "atomic_update"}
      PROVE  blocks[s] = 0 /\ todo[s] = << >>
  BY <1>1 DEF Calls, RemovalsShow
<1>2. ASSUME NEW list \in Lists, Index(s, list) \/ AtomicUpdate(s, list)
      PROVE  CleanInv(s)'
  BY <1>2, AddCleanInv DEF Index, AtomicUpdate, Calls
<1>3. ASSUME NEW list \in Lists, IndexNow(s, list) \/ AtomicUpdateNow(s, list)
      PROVE  CleanInv(s)'
  <2>1. blocks[s] = 0 /\ todo[s] = << >> /\ AddDocuments(s, list, <<CommitRequest>>)
    BY <1>1, <1>3 DEF IndexNow, AtomicUpdateNow
  <2>. QED BY <2>1, AddCleanInv
<1>4. ASSUME NEW list \in Lists, PrepareFails(s, list)
      PROVE  FALSE
  BY <1>4 DEF PrepareFails, OnlyTimeouts
<1>5. ASSUME NEW list \in Lists, Remove(s, list) \/ RemoveNow(s, list)
      PROVE  CleanInv(s)'
  <2>1. blocks[s] = 0 /\ todo[s] = << >> /\ Len(list) \in Nat
    BY <1>1, <1>5, ListType DEF Remove, RemoveNow
  <2>2. PICK requests \in {RemoveRequests(list), RemoveRequests(list) \o <<CommitRequest>>} :
           DeleteDocuments(s, Len(list), IdsOf(list), requests)
    BY <1>5 DEF Remove, RemoveNow
  <2>3. Removes(requests, IdsOf(list)) /\ Shape(s, Len(list), requests)
    BY <2>1, RemovalsRemove, RemoveShape
  <2>4. CommitIsLast(requests, 0) /\ (Deletes(requests) # {} => Len(list) > 0)
    BY <2>1, <2>3, ShapeCommits
  <2>. QED BY <2>1, <2>2, <2>3, <2>4, RemovalCleanInv
<1>6. ASSUME NEW ids \in SUBSET Keys,
             DeleteDocuments(s, 0, ids, <<DeleteRequest(ids), CommitRequest>>),
             blocks[s] = 0, todo[s] = << >>
      PROVE  CleanInv(s)'
  <2> DEFINE requests == <<DeleteRequest(ids), CommitRequest>>
  <2>1. Removes(requests, ids) /\ CommitIsLast(requests, 0) /\ EndsInCommit(requests)
    BY RemovalsRemove, DeleteThenCommit
  <2>. HIDE DEF requests
  <2>. QED BY <1>6, <2>1, RemovalCleanInv DEF requests
<1>7. ASSUME NEW ids \in SUBSET Keys, RemoveById(s, ids) \/ RemoveByIdNow(s, ids)
      PROVE  CleanInv(s)'
  <2>1. ~ RemoveById(s, ids)
    BY DEF RemoveById, Calls, RemovalsShow
  <2>2. blocks[s] = 0 /\ todo[s] = << >>
        /\ DeleteDocuments(s, 0, ids, <<DeleteRequest(ids), CommitRequest>>)
    BY <1>1, <1>7, <2>1 DEF RemoveByIdNow
  <2>. QED BY <1>6, <2>2
<1>8. ASSUME NEW ids \in SUBSET Keys, NEW type \in Types,
             RemoveByScope(s, type, ids) \/ RemoveByScopeNow(s, type, ids)
      PROVE  CleanInv(s)'
  <2> DEFINE all == type \cap ids
  <2>1. ~ RemoveByScope(s, type, ids)
    BY DEF RemoveByScope, Calls, RemovalsShow
  <2>2. blocks[s] = 0 /\ todo[s] = << >>
        /\ DeleteDocuments(s, 0, all, <<DeleteRequest(all), CommitRequest>>)
    BY <1>1, <1>8, <2>1 DEF RemoveByScopeNow
  <2>3. all \in SUBSET Keys
    OBVIOUS
  <2>. HIDE DEF all
  <2>. QED BY <1>6, <2>2, <2>3
<1>9. ASSUME NEW classes \in RemoveAllArgs, RemoveAll(s, classes) \/ RemoveAllNow(s, classes)
      PROVE  CleanInv(s)'
  <2>1. blocks[s] = 0 /\ todo[s] = << >> /\ Len(classes) \in Nat
    BY <1>1, <1>9, RemoveAllType DEF RemoveAll, RemoveAllNow
  <2>2. PICK requests \in {RemoveAllRequests(classes),
                           RemoveAllRequests(classes) \o <<CommitRequest>>} :
           DeleteDocuments(s, Len(classes), UNION IdsOf(classes), requests)
    BY <1>9 DEF RemoveAll, RemoveAllNow
  <2>3. Removes(requests, UNION IdsOf(classes)) /\ Shape(s, Len(classes), requests)
    BY <2>1, RemovalsRemove, RemoveAllShape
  <2>4. CommitIsLast(requests, 0) /\ (Deletes(requests) # {} => Len(classes) > 0)
    BY <2>1, <2>3, ShapeCommits
  <2>. QED BY <2>1, <2>2, <2>3, <2>4, RemovalCleanInv
<1>10. ASSUME Commit(s) \/ Optimize(s) \/ CommitIfDirty(s) \/ CommitIfDeleteDirty(s)
       PROVE  CleanInv(s)'
  <2>1. blocks[s] = 0 /\ todo[s] = << >> /\ JustCommit(s)
    BY <1>1, <1>10 DEF Commit, Optimize, CommitIfDirty, CommitIfDeleteDirty
  <2>2. /\ todo'[s] = <<CommitRequest>>
        /\ UNCHANGED <<core, searcher, adds, deletes, stack, blocks>>
    BY <2>1 DEF JustCommit, solr, TypeOK
  <2>3. /\ DOMAIN todo'[s] = {1} /\ Len(todo'[s]) = 1 /\ todo'[s] # << >>
        /\ todo'[s][1].op = "commit" /\ todo'[s][1].docs = << >>
    BY <2>2 DEF CommitRequest
  <2>4. CommitIsLast(todo'[s], blocks'[s]) /\ EndsInCommit(todo'[s])
    BY <2>1, <2>2, <2>3 DEF CommitIsLast, EndsInCommit
  <2>5. Buffered(stack'[s], blocks'[s], todo'[s]) = << >>
    BY <2>1, <2>2, <2>3 DEF Buffered
  <2>. QED BY <2>2, <2>4, <2>5 DEF CleanInv, NothingLeftBehind
<1>11. ASSUME NEW requests, Deletes(requests) = {}, CommitIsLast(requests, blocks'[s]),
              todo'[s] = requests, todo[s] = << >>, NothingLeftBehind(s)',
              Buffered(stack'[s], blocks'[s], todo'[s])
                = Buffered(stack[s], blocks[s], todo[s]),
              UNCHANGED <<core, searcher, adds, deletes>>
       PROVE  CleanInv(s)'
  <2>1. ~ Dirty(s)' => ~ Dirty(s)
    BY <1>11 DEF Dirty
  <2>2. ~ Dirty(s)' => /\ searcher' = core'
                       /\ Buffered(stack'[s], blocks'[s], todo'[s]) = << >>
    BY <1>11, <2>1, CleanBetweenCalls
  <2>. QED BY <1>11, <2>2 DEF CleanInv
<1>12. ASSUME StartBatch(s)
       PROVE  CleanInv(s)'
  <2>1. /\ todo[s] = << >> /\ UNCHANGED <<core, searcher, adds, deletes, todo>>
        /\ stack'[s] = start_new(stack[s]) /\ blocks'[s] = blocks[s] + 1
    BY <1>12 DEF StartBatch, Calls, solr, TypeOK
  <2>2. NothingLeftBehind(s)'
    <3>1. Len(start_new(stack[s])) = Len(stack[s]) + 1
      BY SessionTypes, StackTypes
    <3>. QED BY <2>1, <3>1 DEF CleanInv, NothingLeftBehind
  <2>3. Deletes(todo'[s]) = {} /\ CommitIsLast(todo'[s], blocks'[s])
    BY <2>1 DEF Deletes, CommitIsLast
  <2>. QED BY <1>11, <1>12, <2>1, <2>2, <2>3, StartWriterInv
<1>13. ASSUME FlushBatch(s)
       PROVE  CleanInv(s)'
  <2> DEFINE request == AddRequest(current(stack[s]))
  <2>1. /\ todo[s] = << >> /\ UNCHANGED <<core, searcher, adds, deletes>>
        /\ stack'[s] = end_current(stack[s]) /\ blocks'[s] = blocks[s] - 1
        /\ todo'[s] = <<request>> /\ Len(stack[s]) > 0
    BY <1>13 DEF FlushBatch, solr, TypeOK, depth
  <2>2. request.op = "add"
    BY DEF AddRequest
  <2>. HIDE DEF request
  <2>3. NothingLeftBehind(s)'
    <3>1. stack[s] \in Seq(Seq(Docs)) /\ stack[s] # << >>
      BY <2>1, SessionTypes
    <3>2. Len(end_current(stack[s])) = Len(stack[s]) - 1
      BY <3>1, StackTypes
    <3>. QED BY <2>1, <3>2 DEF CleanInv, NothingLeftBehind
  <2>4. DOMAIN todo'[s] = {1} /\ todo'[s][1] = request
    BY <2>1
  <2>5. Deletes(todo'[s]) = {} /\ CommitIsLast(todo'[s], blocks'[s])
    BY <2>2, <2>4 DEF Deletes, CommitIsLast
  <2>. QED BY <1>11, <1>13, <2>1, <2>3, <2>5, FlushWriterInv
<1>14. ASSUME BlockRaises(s)
       PROVE  FALSE
  BY <1>14 DEF BlockRaises, OnlyTimeouts
<1>. QED
  BY <1>2, <1>3, <1>4, <1>5, <1>7, <1>8, <1>9, <1>10, <1>12, <1>13, <1>14 DEF Call


\* A commit that is last in todo stays last.
LEMMA CommitStaysLast ==
    ASSUME TypeOK, NEW s \in Sessions, todo[s] # << >>, CommitIsLast(todo[s], blocks[s]),
           NEW o, Returns(s, o), blocks'[s] = blocks[s]
    PROVE  CommitIsLast(todo'[s], blocks'[s])
<1>1. CASE todo'[s] = Tail(todo[s])
  <2>1. /\ Len(todo[s]) \in Nat /\ DOMAIN todo[s] = 1 .. Len(todo[s])
    BY SessionTypes
  <2>2. /\ Len(todo'[s]) = Len(todo[s]) - 1 /\ DOMAIN todo'[s] = 1 .. Len(todo[s]) - 1
        /\ \A i \in DOMAIN todo'[s] : todo'[s][i] = todo[s][i + 1] /\ i + 1 \in DOMAIN todo[s]
    BY <1>1, TailOfTodo
  <2>3. ASSUME NEW i \in DOMAIN todo'[s], todo'[s][i].op = "commit"
        PROVE  i = Len(todo'[s]) /\ blocks'[s] = 0
    <3>1. i + 1 = Len(todo[s]) /\ blocks[s] = 0
      BY <2>2, <2>3 DEF CommitIsLast
    <3>. QED BY <2>1, <2>2, <3>1
  <2>. QED BY <2>3 DEF CommitIsLast
<1>2. CASE todo'[s] = << >>
  BY <1>2 DEF CommitIsLast
<1>. QED BY <1>1, <1>2 DEF Returns, Unwind, TypeOK

LEMMA AddRequestCleanInv ==
    ASSUME TypeOK, TypeOK', NEW s \in Sessions, WriterInv(s), CleanInv(s), DocsFirst(todo[s]),
           NEW o, o # "refused", SendAdd(s, o)
    PROVE  CleanInv(s)'
<1>1. /\ todo[s] # << >> /\ Head(todo[s]).op = "add" /\ Returns(s, o)
      /\ UNCHANGED <<stack, adds, deletes, searcher>>
      /\ core' = Core!Overwritten(Head(todo[s]).docs)
  BY DEF SendAdd, Sending, Core!SolrAdd
<1>2. /\ OnlyCommits(todo'[s]) /\ blocks'[s] = blocks[s]
      /\ Buffered(stack'[s], blocks'[s], todo'[s]) = << >>
      /\ Buffered(stack[s], blocks[s], todo[s]) = Head(todo[s]).docs
  BY AddRequestWriterInv
<1>3. NothingLeftBehind(s)' /\ CommitIsLast(todo'[s], blocks'[s])
  BY <1>1, <1>2, CommitStaysLast DEF CleanInv, NothingLeftBehind
<1>4. Deletes(todo'[s]) = {}
  BY <1>2, OnlyCommitsOrdered
<1>5. ASSUME ~ Dirty(s)'
      PROVE  searcher' = core'
  <2>1. ~ Dirty(s)
    BY <1>1, <1>5 DEF Dirty
  <2>2. Head(todo[s]).docs = << >>
    BY <1>2, <2>1 DEF CleanInv
  <2>3. searcher = core
    <3>1. ~ EndsInCommit(todo[s])
      BY <1>1, HeadOfTodo DEF EndsInCommit
    <3>. QED BY <2>1, <3>1 DEF CleanInv
  <2>4. Core!Overwritten(<< >>) = core
    <3>1. \A k \in Keys : Core!At(<< >>, k) = {}
      BY DEF Core!At
    <3>2. core = [k \in Keys |-> core[k]]
      BY DEF TypeOK, Core!SolrTypeOK
    <3>. QED BY <3>1, <3>2 DEF Core!Overwritten
  <2>. QED BY <1>1, <2>2, <2>3, <2>4
<1>. QED BY <1>2, <1>3, <1>4, <1>5 DEF CleanInv

LEMMA DeleteRequestCleanInv ==
    ASSUME TypeOK, TypeOK', NEW s \in Sessions, WriterInv(s), CleanInv(s), DocsFirst(todo[s]),
           SendDelete(s, "ok")
    PROVE  CleanInv(s)'
<1>1. /\ todo[s] # << >> /\ Head(todo[s]).op = "delete" /\ Returns(s, "ok")
      /\ UNCHANGED <<adds, deletes, searcher>>
  BY DEF SendDelete, Sending, Core!SolrDelete
<1>2. /\ todo'[s] = Tail(todo[s]) /\ blocks'[s] = blocks[s] /\ stack'[s] = stack[s]
      /\ Buffered(stack'[s], blocks'[s], todo'[s]) = << >>
  BY DeleteRequestWriterInv
<1>3. NothingLeftBehind(s)' /\ CommitIsLast(todo'[s], blocks'[s])
  BY <1>1, <1>2, CommitStaysLast DEF CleanInv, NothingLeftBehind
<1>4. ASSUME ~ Dirty(s)'
      PROVE  EndsInCommit(todo'[s])
  <2>1. ~ Dirty(s)
    BY <1>1, <1>4 DEF Dirty
  <2>2. 1 \in DOMAIN todo[s] /\ todo[s][1].op = "delete"
    BY <1>1, HeadOfTodo
  <2>3. EndsInCommit(todo[s])
    BY <2>1, <2>2 DEF CleanInv, Deletes
  <2>4. /\ Len(todo[s]) \in Nat /\ DOMAIN todo[s] = 1 .. Len(todo[s])
    BY SessionTypes
  <2>5. Len(todo[s]) > 1
    BY <2>2, <2>3, <2>4 DEF EndsInCommit
  <2>6. /\ Len(todo'[s]) = Len(todo[s]) - 1 /\ DOMAIN todo'[s] = 1 .. Len(todo[s]) - 1
        /\ \A i \in DOMAIN todo'[s] : todo'[s][i] = todo[s][i + 1] /\ i + 1 \in DOMAIN todo[s]
    BY <1>1, <1>2, TailOfTodo
  <2>7. 1 \in DOMAIN todo'[s] /\ todo'[s] # << >> /\ todo'[s][1] = todo[s][2] /\ 2 \in DOMAIN todo[s]
    <3>1. 1 \in 1 .. Len(todo[s]) - 1
      BY <2>4, <2>5
    <3>. QED BY <2>6, <3>1
  <2>8. todo'[s][1].op # "add"
    BY <2>7 DEF WriterInv, Ordered
  <2>9. todo'[s][Len(todo'[s])] = todo[s][Len(todo[s])]
    <3> DEFINE n == Len(todo[s]) - 1
    <3>1. n \in 1 .. Len(todo[s]) - 1 /\ n + 1 = Len(todo[s])
      BY <2>4, <2>5
    <3>. HIDE DEF n
    <3>2. todo'[s][n] = todo[s][n + 1]
      BY <2>6, <3>1
    <3>3. Len(todo'[s]) = n
      BY <2>6 DEF n
    <3>. QED BY <3>1, <3>2, <3>3
  <2>. QED BY <2>3, <2>7, <2>8, <2>9 DEF EndsInCommit
<1>. QED BY <1>2, <1>3, <1>4 DEF CleanInv

LEMMA CommitRequestCleanInv ==
    ASSUME TypeOK, TypeOK', NEW s \in Sessions, CleanInv(s), NEW o, o # "refused",
           SendCommit(s, o)
    PROVE  CleanInv(s)'
<1>1. /\ todo[s] # << >> /\ Head(todo[s]).op = "commit" /\ Returns(s, o) /\ stack' = stack
      /\ searcher' = core /\ core' = core
  BY DEF SendCommit, Sending, Core!SolrCommit
<1>2. Len(todo[s]) = 1 /\ blocks[s] = 0
  BY <1>1, HeadOfTodo DEF CleanInv, CommitIsLast
<1>3. todo'[s] = << >>
  <2>1. Tail(todo[s]) = << >>
    <3>1. Tail(todo[s]) \in Seq(Requests) /\ Len(Tail(todo[s])) = 0
      BY <1>1, <1>2, TailOfTodo
    <3>. QED BY <3>1, EmptySeq
  <2>. QED BY <1>1, <2>1 DEF Returns, Unwind, TypeOK
<1>4. blocks'[s] = 0
  <2>1. blocks'[s] <= 0 /\ blocks'[s] \in Nat
    BY <1>1, <1>2, ReturnsBlocks DEF TypeOK
  <2>. QED BY <2>1
<1>5. NothingLeftBehind(s)' /\ CommitIsLast(todo'[s], blocks'[s])
  BY <1>1, <1>2, <1>3, <1>4 DEF CleanInv, NothingLeftBehind, CommitIsLast
<1>6. Deletes(todo'[s]) = {} /\ Buffered(stack'[s], blocks'[s], todo'[s]) = << >>
  BY <1>3, <1>4 DEF Deletes, Buffered
<1>. QED BY <1>1, <1>5, <1>6 DEF CleanInv

OneCleanInv == \A s \in Sessions : CleanInv(s)

LEMMA CleanInductive ==
    OneWriter /\ RemovalsShow /\ OnlyTimeouts => (Spec => [](OneWriterInv /\ OneCleanInv))
<1> SUFFICES ASSUME OneWriter, RemovalsShow, OnlyTimeouts
             PROVE  Spec => [](OneWriterInv /\ OneCleanInv)
  OBVIOUS
<1>1. BlocksOnlyAdd /\ UpdatesArrive
  <2>1. BlocksOnlyAdd
    BY DEF RemovalsShow, BlocksOnlyAdd
  <2>. QED BY <2>1 DEF OnlyTimeouts, UpdatesArrive
<1>2. Init => OneCleanInv
  <2> SUFFICES ASSUME Init, NEW s \in Sessions
               PROVE  CleanInv(s)
    BY DEF OneCleanInv
  <2>1. /\ blocks[s] = 0 /\ todo[s] = << >> /\ stack[s] = << >>
        /\ searcher = core
    BY DEF Init, Core!SolrInit
  <2>2. Len(stack[s]) = 0
    BY <2>1, EmptySeq
  <2>. QED BY <2>1, <2>2 DEF CleanInv, NothingLeftBehind, CommitIsLast, Buffered, Deletes
<1>3. TypeOK /\ TypeOK' /\ StackCoversBlocks /\ PlacesInv /\ OneWriterInv /\ OneCleanInv
        /\ [Next]_vars => OneCleanInv'
  <2> SUFFICES ASSUME TypeOK, TypeOK', StackCoversBlocks, PlacesInv, OneWriterInv,
                      OneCleanInv, [Next]_vars, NEW s \in Sessions
               PROVE  CleanInv(s)'
    BY DEF OneCleanInv
  <2>1. WriterInv(s) /\ CleanInv(s) /\ DocsFirst(todo[s]) /\ Sessions = {s}
    BY DEF OneWriterInv, OneCleanInv, PlacesInv, AddsComeFirst, OneWriter
  <2>2. CASE Call(s)
    BY <1>1, <2>1, <2>2, CallCleanInv
  <2>3. CASE Request(s)
    <3>1. /\ Outcomes("delete") = {"ok"}
          /\ \A o \in Outcomes("add") \cup Outcomes("commit") : o # "refused"
      BY DEF Outcomes, OnlyTimeouts
    <3>. QED
      BY <2>1, <2>3, <3>1, AddRequestCleanInv, DeleteRequestCleanInv, CommitRequestCleanInv
         DEF Request
  <2>4. CASE UNCHANGED vars
    BY <2>1, <2>4 DEF vars, CleanInv, NothingLeftBehind, Dirty
  <2>. QED BY <2>1, <2>2, <2>3, <2>4 DEF Next
<1>4. Spec => []OneWriterInv
  BY <1>1, WriterInductive
<1>. QED
  BY <1>2, <1>3, <1>4, TypeCorrect, NoCurrentBatchNeverRaised, PlacesInductive, PTL DEF Spec

\* dirty? can be trusted for searches: when the single writer of a core is
\* between two calls, outside a batch block and not dirty, searches see what
\* its calls asked for.  A request may be applied and time out; besides that
\* nothing raises, blocks only add, and a removal counts or commits.
THEOREM CleanIsCurrent ==
    OneWriter /\ RemovalsShow /\ OnlyTimeouts => (Spec => []CleanMeansCurrent)
<1> SUFFICES ASSUME OneWriter, RemovalsShow, OnlyTimeouts
             PROVE  Spec => []CleanMeansCurrent
  OBVIOUS
<1>1. TypeOK /\ OneWriterInv /\ OneCleanInv => CleanMeansCurrent
  <2> SUFFICES ASSUME TypeOK, OneWriterInv, OneCleanInv,
                      NEW s \in Sessions, Idle(s), ~ Dirty(s)
               PROVE  searcher = wanted
    BY DEF CleanMeansCurrent
  <2>1. todo[s] = << >> /\ WriterInv(s) /\ CleanInv(s)
    BY DEF Idle, OneWriterInv, OneCleanInv
  <2>2. searcher = core /\ Buffered(stack[s], blocks[s], todo[s]) = << >>
    BY <2>1, CleanBetweenCalls
  <2>3. Doomed(todo[s]) = {}
    BY <2>1 DEF Doomed, Deletes
  <2>4. Agrees(core, wanted, << >>, {})
    BY <2>1, <2>2, <2>3 DEF WriterInv, CleanInv
  <2>5. \A k \in Keys : core[k] = wanted[k]
    BY <2>4 DEF Agrees, Names
  <2>. QED BY <2>2, <2>5 DEF TypeOK, Core!SolrTypeOK
<1>. QED BY <1>1, CleanInductive, TypeCorrect, PTL
=============================================================================
