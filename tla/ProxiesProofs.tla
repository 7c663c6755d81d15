--------------------------- MODULE ProxiesProofs ---------------------------
(***************************************************************************)
(* Proofs about Proxies, for any shards, keys, blocks and failures:        *)
(*  - every run of a batch block that raises leaves one batch behind, also *)
(*    where the error is swallowed or the block run again, and no other    *)
(*    run leaves any;                                                      *)
(*  - every state is well formed;                                          *)
(*  - an addition, or a removal by object or of everything, that some      *)
(*    shard holds unpublished has been counted, so that dirty? is true;    *)
(*  - a commit that ended well has published the shards that were due;     *)
(*  - a call that ended well took effect, in the right shard and in no     *)
(*    other.                                                               *)
(*                                                                         *)
(* The last three say of a batch that its block calls nothing that commits *)
(* at once (PlainBlocks), and the last one that it removes nothing it has  *)
(* indexed (OrderlyBlocks).  Most of what the calls are made of is in      *)
(* Plan: the first half of the module says which requests a plan has.      *)
(***************************************************************************)
EXTENDS Proxies, SortingProofs, SequenceTheorems, TLAPS

\* A sequence of whatever elements.
IsSequence(s) == \E S : s \in Seq(S)

Opened == IF frame.open THEN 1 ELSE 0

\* One batch for the running block, and one for every block that was left.
BatchesCounted ==
    /\ IsSequence(stack)
    /\ abandoned \in Nat
    /\ DOMAIN frame = {"open", "block", "left", "tries"}
    /\ frame.open \in BOOLEAN
    /\ depth(stack) = abandoned + Opened

-----------------------------------------------------------------------------
(* The operators of the Batcher on stacks of any batches.                  *)

\* start_new opens a batch.
LEMMA StartAdds ==
    ASSUME NEW s, IsSequence(s)
    PROVE  IsSequence(start_new(s)) /\ depth(start_new(s)) = depth(s) + 1
<1>1. PICK S : s \in Seq(S)
  BY DEF IsSequence
<1>2. s \in Seq(S \cup {<< >>})
  BY <1>1
<1>3. Append(s, << >>) \in Seq(S \cup {<< >>}) /\ Len(Append(s, << >>)) = Len(s) + 1
  BY <1>2
<1>. QED BY <1>3 DEF IsSequence, start_new, depth

\* end_current closes the innermost batch.
LEMMA EndRemoves ==
    ASSUME NEW s, IsSequence(s), depth(s) > 0
    PROVE  IsSequence(end_current(s)) /\ depth(end_current(s)) = depth(s) - 1
<1>1. PICK S : s \in Seq(S)
  BY DEF IsSequence
<1> DEFINE n == Len(s) - 1
<1>2. n \in Nat /\ \A i \in 1 .. n : s[i] \in S
  BY <1>1, LenProperties, ElementOfSeq DEF depth
<1>3. SubSeq(s, 1, n) \in Seq(S) /\ Len(SubSeq(s, 1, n)) = n
  <2> HIDE DEF n
  <2>1. /\ SubSeq(s, 1, n) \in Seq(S)
        /\ Len(SubSeq(s, 1, n)) = IF 1 <= n THEN n - 1 + 1 ELSE 0
    BY <1>2, SubSeqProperties
  <2>2. (IF 1 <= n THEN n - 1 + 1 ELSE 0) = n
    BY <1>2
  <2>. QED BY <2>1, <2>2
<1>. QED BY <1>3 DEF IsSequence, end_current, depth

\* concat only fills it.
LEMMA ConcatKeeps ==
    ASSUME NEW s, NEW docs, IsSequence(s), batching(s)
    PROVE  IsSequence(concat(s, docs)) /\ depth(concat(s, docs)) = depth(s)
<1>1. PICK S : s \in Seq(S)
  BY DEF IsSequence
<1> DEFINE new == s[Len(s)] \o docs
<1>2. concat(s, docs) = [s EXCEPT ![Len(s)] = new]
  BY DEF concat
<1> HIDE DEF new
<1>3. s \in Seq(S \cup {new}) /\ Len(s) \in 1 .. Len(s)
  <2>1. Len(s) \in Nat /\ Len(s) > 0
    BY <1>1, LenProperties DEF batching, depth
  <2>. QED BY <1>1, <2>1, SeqMonotonic
<1>4. /\ [s EXCEPT ![Len(s)] = new] \in Seq(S \cup {new})
      /\ Len([s EXCEPT ![Len(s)] = new]) = Len(s)
  BY <1>3, ExceptSeq
<1>. QED BY <1>2, <1>4 DEF IsSequence, depth

-----------------------------------------------------------------------------
(* Steps.                                                                  *)

\* A step that leaves the stack and the block alone.
LEMMA NothingMoves ==
    ASSUME BatchesCounted, UNCHANGED <<stack, frame, abandoned>>
    PROVE  BatchesCounted'
  BY DEF BatchesCounted, Opened

\* A request that ends, fails or is made again leaves the stack alone.
LEMMA RequestsKeep ==
    ASSUME BatchesCounted, UNCHANGED stack,
           NEW outcome, NEW keys, Continues(outcome, keys)
    PROVE  BatchesCounted'
<1>1. UNCHANGED <<frame, abandoned>>
  BY DEF Continues, Proceeds, CallFails
<1>. QED BY <1>1, NothingMoves

\* A block that raises leaves its batch; a retry opens another one.
LEMMA BlockRaisesKeeps ==
    ASSUME BatchesCounted, NEW error, BlockRaises(error)
    PROVE  BatchesCounted'
<1>1. /\ frame.open /\ abandoned' = abandoned + 1
      /\ \/ /\ stack' = start_new(stack)
            /\ frame' = [frame EXCEPT !.left = frame.block, !.tries = 1]
         \/ stack' = stack /\ frame' = NoFrame
  BY DEF BlockRaises
<1>2. abandoned' \in Nat /\ depth(stack) = abandoned'
  BY <1>1 DEF BatchesCounted, Opened
<1>3. CASE /\ stack' = start_new(stack)
           /\ frame' = [frame EXCEPT !.left = frame.block, !.tries = 1]
  <2>1. frame'.open = TRUE /\ DOMAIN frame' = {"open", "block", "left", "tries"}
    BY <1>1, <1>3 DEF BatchesCounted
  <2>2. IsSequence(stack') /\ depth(stack') = depth(stack) + 1
    BY <1>3, StartAdds DEF BatchesCounted
  <2>. QED BY <1>2, <2>1, <2>2 DEF BatchesCounted, Opened
<1>4. CASE stack' = stack /\ frame' = NoFrame
  <2>1. frame'.open = FALSE /\ DOMAIN frame' = {"open", "block", "left", "tries"}
    BY <1>4 DEF NoFrame
  <2>2. Opened' = 0
    BY <2>1 DEF Opened
  <2>3. PICK n \in Nat : n = abandoned' /\ n = depth(stack)
    BY <1>2
  <2>4. depth(stack') = n
    BY <1>4, <2>3
  <2>5. depth(stack)' = abandoned' + Opened'
    BY <2>2, <2>3, <2>4 DEF depth
  <2>. QED BY <1>2, <1>4, <2>1, <2>5 DEF BatchesCounted
<1>. QED BY <1>1, <1>3, <1>4

\* A block opens its batch.
LEMMA CallBatchKeeps ==
    ASSUME BatchesCounted, NEW block, CallBatch(block)
    PROVE  BatchesCounted'
<1>1. /\ ~frame.open /\ UNCHANGED abandoned /\ stack' = start_new(stack)
      /\ frame' = [open |-> TRUE, block |-> block, left |-> block, tries |-> 0]
  BY DEF CallBatch
<1>2. frame'.open = TRUE /\ DOMAIN frame' = {"open", "block", "left", "tries"}
  BY <1>1
<1>3. Opened = 0 /\ Opened' = 1
  BY <1>1, <1>2 DEF Opened
<1>4. IsSequence(stack') /\ depth(stack') = depth(stack) + 1
  BY <1>1, StartAdds DEF BatchesCounted
<1>. QED BY <1>1, <1>2, <1>3, <1>4 DEF BatchesCounted

\* The flush pops the batch of the block; a retry opens another one.
LEMMA FlushKeeps ==
    ASSUME BatchesCounted, NEW outcome, SendFlush(outcome)
    PROVE  BatchesCounted'
<1> DEFINE popped == end_current(stack)
<1>1. /\ frame.open /\ UNCHANGED abandoned
      /\ \/ stack' = start_new(popped) /\ frame' = [frame EXCEPT !.left = frame.block, !.tries = 1]
         \/ stack' = popped /\ frame' = NoFrame
  BY DEF SendFlush
<1>2. abandoned \in Nat /\ depth(stack) = abandoned + 1
  BY <1>1 DEF BatchesCounted, Opened
<1>3. IsSequence(popped) /\ depth(popped) = abandoned
  <2>1. depth(stack) > 0
    BY <1>2
  <2>2. IsSequence(popped) /\ depth(popped) = depth(stack) - 1
    BY <2>1, EndRemoves DEF BatchesCounted
  <2>. QED BY <1>2, <2>2
<1> HIDE DEF popped
<1>4. CASE stack' = start_new(popped) /\ frame' = [frame EXCEPT !.left = frame.block, !.tries = 1]
  <2>1. frame'.open = TRUE /\ DOMAIN frame' = {"open", "block", "left", "tries"}
    BY <1>1, <1>4 DEF BatchesCounted
  <2>2. IsSequence(stack') /\ depth(stack') = abandoned + 1
    BY <1>3, <1>4, StartAdds
  <2>. QED BY <1>1, <1>2, <2>1, <2>2 DEF BatchesCounted, Opened
<1>5. CASE stack' = popped /\ frame' = NoFrame
  <2>1. frame'.open = FALSE /\ DOMAIN frame' = {"open", "block", "left", "tries"}
    BY <1>5 DEF NoFrame
  <2>2. Opened' = 0
    BY <2>1 DEF Opened
  <2>3. abandoned' = abandoned
    BY <1>1
  <2>4. IsSequence(stack') /\ depth(stack') = abandoned
    BY <1>3, <1>5
  <2>5. depth(stack)' = abandoned' + Opened'
    BY <1>2, <2>2, <2>3, <2>4 DEF depth
  <2>. QED BY <1>2, <2>1, <2>3, <2>4, <2>5 DEF BatchesCounted
<1>. QED BY <1>1, <1>4, <1>5

\* A document that goes to a batch opens and closes none.
LEMMA BatchIndexKeeps ==
    ASSUME BatchesCounted, BatchIndex
    PROVE  BatchesCounted'
<1>1. /\ batching(stack) /\ UNCHANGED <<frame, abandoned>>
      /\ stack' = concat(stack, Docs(Head(call.todo).keys))
  BY DEF BatchIndex, Proceeds
<1>2. IsSequence(stack') /\ depth(stack') = depth(stack)
  BY <1>1, ConcatKeeps DEF BatchesCounted
<1>. QED BY <1>1, <1>2 DEF BatchesCounted, Opened

\* Nor does the next call of a block.
LEMMA CallInBlockKeeps ==
    ASSUME BatchesCounted, CallInBlock
    PROVE  BatchesCounted'
<1>1. UNCHANGED <<stack, abandoned>> /\ frame' = [frame EXCEPT !.left = Tail(@)]
  BY DEF CallInBlock, Starts
<1>2. frame'.open = frame.open /\ DOMAIN frame' = {"open", "block", "left", "tries"}
  BY <1>1 DEF BatchesCounted
<1>. QED BY <1>1, <1>2 DEF BatchesCounted, Opened

\* The batches are counted in every state.
LEMMA BatchesCountedInductive == Spec => []BatchesCounted
<1>1. Init => BatchesCounted
  <2> SUFFICES ASSUME Init PROVE BatchesCounted
    OBVIOUS
  <2>1. stack = << >> /\ abandoned = 0 /\ frame = NoFrame
    BY DEF Init
  <2>2. IsSequence(stack) /\ depth(stack) = 0
    BY <2>1 DEF IsSequence, depth
  <2>. QED BY <2>1, <2>2 DEF BatchesCounted, Opened, NoFrame
<1>2. BatchesCounted /\ [Next]_vars => BatchesCounted'
  <2> SUFFICES ASSUME BatchesCounted, [Next]_vars PROVE BatchesCounted'
    OBVIOUS
  <2>1. CASE UNCHANGED vars
    BY <2>1, NothingMoves DEF vars
  <2>2. ASSUME NEW op \in Ops, NEW list \in Lists \cup {<< >>}, Call(op, list)
        PROVE  BatchesCounted'
    BY <2>2, NothingMoves DEF Call, Starts
  <2>3. ASSUME NEW block \in Blocks, CallBatch(block)
        PROVE  BatchesCounted'
    BY <2>3, CallBatchKeeps
  <2>4. CASE CallInBlock
    BY <2>4, CallInBlockKeeps
  <2>5. CASE BatchIndex
    BY <2>5, BatchIndexKeeps
  <2>6. CASE SkipCommit
    BY <2>6, NothingMoves DEF SkipCommit, Proceeds
  <2>7. ASSUME NEW o \in Possible,
               \/ SendIndex(o) \/ SendRemove(o) \/ SendRemoveById(o) \/ SendRemoveAll(o)
               \/ SendCommit(o)
        PROVE  BatchesCounted'
    <3>1. UNCHANGED stack /\ \E keys : Continues(o, keys)
      BY <2>7 DEF SendIndex, SendRemove, SendRemoveById, SendRemoveAll, SendCommit
    <3>. QED BY <3>1, RequestsKeep
  <2>8. ASSUME NEW o \in Possible, SendFlush(o)
        PROVE  BatchesCounted'
    BY <2>8, FlushKeeps
  <2>9. ASSUME NEW error \in Errors, BlockRaises(error)
        PROVE  BatchesCounted'
    BY <2>9, BlockRaisesKeeps
  <2>. QED BY <2>1, <2>2, <2>3, <2>4, <2>5, <2>6, <2>7, <2>8, <2>9 DEF Next, Step
<1>. QED BY <1>1, <1>2, PTL DEF Spec

\* session.rb, batch, which has no ensure, under retry_5xx_session_proxy.rb and
\* silent_fail_session_proxy.rb: the session's stack holds the batch of the running
\* block and one more for every run of a block that an exception has left, whether
\* it was let out, swallowed or made the proxy run the block again; a run whose
\* flush failed leaves none.
THEOREM BatchesAreLeft == Spec => []BatchesLeft
<1>1. BatchesCounted => BatchesLeft
  BY DEF BatchesCounted, BatchesLeft, Opened
<1>. QED BY <1>1, BatchesCountedInductive, PTL

-----------------------------------------------------------------------------
(* FlattenSeq: its recursive function exists, and the result has the       *)
(* elements of the parts.                                                  *)

FlatStep(ss, f) == [i \in 1 .. Len(ss) |-> IF i = 1 THEN ss[i] ELSE f[i - 1] \o ss[i]]

\* f is the recursive function, as far as m.
Flattens(ss, f, m) ==
    \A i \in 1 .. m : f[i] = IF i = 1 THEN ss[i] ELSE f[i - 1] \o ss[i]

\* A function that follows the recursion exists: a counterexample would have a
\* least length.
LEMMA FlattenExists ==
    ASSUME NEW S, NEW ss \in Seq(Seq(S)), Len(ss) # 0
    PROVE  \E f : f = FlatStep(ss, f)
<1> DEFINE n == Len(ss)
           Bad == {m \in 1 .. n : ~ \E g : DOMAIN g = 1 .. m /\ Flattens(ss, g, m)}
<1>1. n \in Nat /\ n >= 1
  OBVIOUS
<1>2. Bad = {}
  <2> SUFFICES ASSUME Bad # {} PROVE FALSE
    OBVIOUS
  <2>1. PICK m \in Bad : \A j \in Bad : m <= j
    <3>1. Bad \subseteq Nat
      BY <1>1
    <3>. QED BY <3>1, LeastExists
  <2>2. m \in 1 .. n
    OBVIOUS
  <2>3. CASE m = 1
    <3>1. DOMAIN [i \in 1 .. 1 |-> ss[i]] = 1 .. m /\ Flattens(ss, [i \in 1 .. 1 |-> ss[i]], m)
      BY <2>3 DEF Flattens
    <3>. QED BY <3>1
  <2>4. CASE m # 1
    <3>1. m - 1 \in 1 .. n /\ m - 1 < m
      BY <1>1, <2>2, <2>4
    <3>2. m - 1 \notin Bad
      <4>1. m \in Nat /\ ~(m <= m - 1)
        BY <2>2
      <4> HIDE DEF Bad
      <4>. QED BY <2>1, <4>1
    <3>3. PICK g : DOMAIN g = 1 .. m - 1 /\ Flattens(ss, g, m - 1)
      BY <3>1, <3>2
    <3> DEFINE h == [i \in 1 .. m |-> IF i = m THEN g[m - 1] \o ss[m] ELSE g[i]]
    <3>4. ASSUME NEW i \in 1 .. m
          PROVE  h[i] = IF i = 1 THEN ss[i] ELSE h[i - 1] \o ss[i]
      <4>1. CASE i = m
        <5>1. i - 1 \in 1 .. m /\ i - 1 # m /\ i # 1
          BY <2>2, <2>4, <4>1
        <5>. QED BY <4>1, <5>1
      <4>2. CASE i # m
        <5>1. i \in 1 .. m - 1
          BY <2>2, <4>2
        <5>2. g[i] = IF i = 1 THEN ss[i] ELSE g[i - 1] \o ss[i]
          BY <3>3, <5>1 DEF Flattens
        <5>3. i # 1 => i - 1 \in 1 .. m /\ i - 1 # m
          BY <2>2, <5>1
        <5>. QED BY <4>2, <5>2, <5>3
      <4>. QED BY <4>1, <4>2
    <3>5. DOMAIN h = 1 .. m
      OBVIOUS
    <3> HIDE DEF h
    <3>6. Flattens(ss, h, m)
      BY <3>4 DEF Flattens
    <3>. QED BY <3>5, <3>6
  <2>. QED BY <2>3, <2>4
<1>3. n \in 1 .. n
  BY <1>1
<1>4. PICK g : DOMAIN g = 1 .. n /\ Flattens(ss, g, n)
  BY <1>2, <1>3
<1> DEFINE h == [i \in 1 .. n |-> g[i]]
<1>5. ASSUME NEW i \in 1 .. n
      PROVE  h[i] = IF i = 1 THEN ss[i] ELSE h[i - 1] \o ss[i]
  <2>1. i # 1 => i - 1 \in 1 .. n
    BY <1>1
  <2>. QED BY <1>4, <2>1 DEF Flattens
<1>6. h = FlatStep(ss, h)
  <2>1. h = [i \in 1 .. n |-> h[i]]
    OBVIOUS
  <2> HIDE DEF h
  <2>. QED BY <1>5, <2>1 DEF FlatStep
<1>. QED BY <1>6

Flat(ss) == CHOOSE f : f = FlatStep(ss, f)

\* FlattenSeq is the last value of that function.
LEMMA FlattenUnfold ==
    ASSUME NEW ss, Len(ss) # 0
    PROVE  FlattenSeq(ss) = Flat(ss)[Len(ss)]
  BY Zenon DEF FlattenSeq, Flat, FlatStep

\* The elements of two sequences, one after the other.
LEMMA ConcatElements ==
    ASSUME NEW S, NEW s \in Seq(S), NEW t \in Seq(S)
    PROVE  s \o t \in Seq(S) /\ ToSet(s \o t) = ToSet(s) \cup ToSet(t)
<1>1. /\ s \o t \in Seq(S) /\ Len(s \o t) = Len(s) + Len(t)
      /\ Len(s) \in Nat /\ Len(t) \in Nat
      /\ DOMAIN s = 1 .. Len(s) /\ DOMAIN t = 1 .. Len(t) /\ DOMAIN (s \o t) = 1 .. Len(s) + Len(t)
  OBVIOUS
<1>2. \A i \in 1 .. Len(s) + Len(t) : (s \o t)[i] = IF i <= Len(s) THEN s[i] ELSE t[i - Len(s)]
  OBVIOUS
<1>3. ASSUME NEW x \in ToSet(s \o t) PROVE x \in ToSet(s) \cup ToSet(t)
  <2>1. PICK i \in 1 .. Len(s) + Len(t) : x = (s \o t)[i]
    BY <1>1, <1>3 DEF ToSet
  <2>2. CASE i <= Len(s)
    BY <1>1, <1>2, <2>1, <2>2 DEF ToSet
  <2>3. CASE ~(i <= Len(s))
    <3>1. i - Len(s) \in 1 .. Len(t)
      BY <1>1, <2>3
    <3>. QED BY <1>1, <1>2, <2>1, <2>3, <3>1 DEF ToSet
  <2>. QED BY <2>2, <2>3
<1>4. ASSUME NEW i \in 1 .. Len(s) PROVE s[i] \in ToSet(s \o t)
  <2>1. i \in 1 .. Len(s) + Len(t) /\ i <= Len(s)
    BY <1>1
  <2>. QED BY <1>1, <1>2, <2>1 DEF ToSet
<1>5. ASSUME NEW i \in 1 .. Len(t) PROVE t[i] \in ToSet(s \o t)
  <2>1. i + Len(s) \in 1 .. Len(s) + Len(t) /\ ~(i + Len(s) <= Len(s)) /\ i + Len(s) - Len(s) = i
    BY <1>1
  <2>. QED BY <1>1, <1>2, <2>1 DEF ToSet
<1>6. ToSet(s) \subseteq ToSet(s \o t) /\ ToSet(t) \subseteq ToSet(s \o t)
  BY <1>1, <1>4, <1>5 DEF ToSet
<1>. QED BY <1>1, <1>3, <1>6

\* The elements of all the parts.
LEMMA FlattenElements ==
    ASSUME NEW S, NEW ss \in Seq(Seq(S))
    PROVE  /\ FlattenSeq(ss) \in Seq(S)
           /\ ToSet(FlattenSeq(ss)) = UNION {ToSet(ss[i]) : i \in DOMAIN ss}
<1>1. CASE Len(ss) = 0
  <2>1. FlattenSeq(ss) = ss /\ ss = << >> /\ DOMAIN ss = {}
    BY <1>1 DEF FlattenSeq
  <2>2. << >> \in Seq(S) /\ ToSet(<< >>) = {}
    BY DEF ToSet
  <2>. QED BY <2>1, <2>2
<1>2. CASE Len(ss) # 0
  <2> DEFINE n == Len(ss)
             f == Flat(ss)
  <2>1. n \in Nat /\ n >= 1 /\ DOMAIN ss = 1 .. n /\ \A i \in 1 .. n : ss[i] \in Seq(S)
    BY <1>2
  <2>2. f = FlatStep(ss, f)
    BY <1>2, FlattenExists DEF Flat
  <2> HIDE DEF f
  <2>3. ASSUME NEW i \in 1 .. n PROVE f[i] = IF i = 1 THEN ss[i] ELSE f[i - 1] \o ss[i]
    BY <2>2 DEF FlatStep
  <2> DEFINE Good(m) == f[m] \in Seq(S) /\ ToSet(f[m]) = UNION {ToSet(ss[i]) : i \in 1 .. m}
             Bad == {m \in 1 .. n : ~Good(m)}
  <2>4. Bad = {}
    <3> SUFFICES ASSUME Bad # {} PROVE FALSE
      OBVIOUS
    <3>1. PICK m \in Bad : \A j \in Bad : m <= j
      <4>1. Bad \subseteq Nat
        BY <2>1
      <4>. QED BY <4>1, LeastExists
    <3>2. m \in 1 .. n
      OBVIOUS
    <3>3. CASE m = 1
      <4>0. 1 .. 1 = {1}
        OBVIOUS
      <4>1. f[1] = ss[1] /\ ss[1] \in Seq(S) /\ 1 .. 1 = {1}
        BY <2>1, <2>3, <3>2, <3>3, <4>0
      <4>2. UNION {ToSet(ss[i]) : i \in {1}} = ToSet(ss[1])
        OBVIOUS
      <4>3. Good(1)
        BY <4>1, <4>2
      <4>. QED BY <3>3, <4>3
    <3>4. CASE m # 1
      <4>1. m - 1 \in 1 .. n /\ m - 1 < m
        BY <2>1, <3>2, <3>4
      <4>2. Good(m - 1)
        <5>1. m \in Nat /\ ~(m <= m - 1)
          BY <3>2
        <5>2. m - 1 \notin Bad
          <6> HIDE DEF Bad
          <6>. QED BY <3>1, <5>1
        <5>. QED BY <4>1, <5>2
      <4>3. f[m] = f[m - 1] \o ss[m] /\ ss[m] \in Seq(S)
        BY <2>1, <2>3, <3>2, <3>4
      <4>4. f[m] \in Seq(S) /\ ToSet(f[m]) = ToSet(f[m - 1]) \cup ToSet(ss[m])
        BY <4>2, <4>3, ConcatElements
      <4>5. 1 .. m = (1 .. m - 1) \cup {m}
        BY <3>2
      <4>6. UNION {ToSet(ss[i]) : i \in (1 .. m - 1) \cup {m}}
              = (UNION {ToSet(ss[i]) : i \in 1 .. m - 1}) \cup ToSet(ss[m])
        OBVIOUS
      <4>7. Good(m)
        BY <4>2, <4>4, <4>5, <4>6
      <4>. QED BY <4>7
    <3>. QED BY <3>3, <3>4
  <2>5. n \in 1 .. n
    BY <2>1
  <2>6. Good(n)
    BY <2>4, <2>5
  <2>7. FlattenSeq(ss) = f[n]
    BY <1>2, FlattenUnfold DEF f
  <2>. QED BY <2>1, <2>6, <2>7
<1>. QED BY <1>1, <1>2

-----------------------------------------------------------------------------
(* What a call consists of.                                                *)

Names == ByObject \cup ByShard

Requested == {"index", "remove", "remove_by_id", "remove_all"} \cup Committing

Req == [op : Requested, at : Sessions, keys : Seq(Keys)]

\* The sessions of the proxy.
Where == ToSet(all_sessions)

\* The sessions of the proxy, and the session of a key.
LEMMA WhereSessions ==
    ASSUME sharded \in BOOLEAN
    PROVE  /\ all_sessions \in Seq(Sessions) /\ Where \subseteq Sessions
           /\ \A k \in Keys : Home(k) \in Where
           /\ ~sharded => Where = {Shards[1]} /\ \A k \in Keys : Home(k) = Shards[1]
<1>1. Shards \in Seq(Sessions) /\ 1 \in DOMAIN Shards /\ Shards[1] \in Sessions
  BY ShardsAssumption DEF Sessions
<1>2. \A k \in Keys : ShardOf[k] \in Sessions
  BY ShardsAssumption
<1>3. CASE sharded
  BY <1>1, <1>2, <1>3 DEF all_sessions, Where, Home, ToSet, Sessions
<1>4. CASE ~sharded
  <2>1. all_sessions = <<Shards[1]>>
    BY <1>4 DEF all_sessions
  <2>2. ASSUME NEW s \in Sessions PROVE <<s>> \in Seq(Sessions) /\ ToSet(<<s>>) = {s}
    BY DEF ToSet
  <2>. QED BY <1>1, <1>4, <2>1, <2>2 DEF Where, Home
<1>. QED BY <1>3, <1>4

\* The elements at the picked positions.
LEMMA PickedList ==
    ASSUME NEW S, NEW list \in Seq(S), NEW P \in SUBSET (DOMAIN list)
    PROVE  Picked(list, P) \in Seq(S) /\ ToSet(Picked(list, P)) = {list[i] : i \in P}
<1> DEFINE order == Sorted(P)
           n == Cardinality(P)
<1>1. P \subseteq 1 .. Len(list) /\ Len(list) \in Nat /\ DOMAIN list = 1 .. Len(list)
  OBVIOUS
<1>2. IsFiniteSet(P) /\ P \subseteq Nat
  <2>1. IsFiniteSet(1 .. Len(list))
    BY <1>1, FS_Interval
  <2>. QED BY <1>1, <2>1, FS_Subset
<1>3. n \in Nat /\ order \in [1 .. n -> P] /\ \A x \in P : \E i \in 1 .. n : order[i] = x
  BY <1>2, SortedProperties
<1> HIDE DEF order, n
<1>4. Picked(list, P) = [i \in 1 .. n |-> list[order[i]]]
  BY <1>3 DEF Picked, order
<1>5. \A i \in 1 .. n : order[i] \in P /\ list[order[i]] \in S
  BY <1>1, <1>3
<1>6. Picked(list, P) \in Seq(S)
  BY <1>3, <1>4, <1>5
<1>7. ToSet(Picked(list, P)) = {list[order[i]] : i \in 1 .. n}
  BY <1>4 DEF ToSet
<1>8. {list[order[i]] : i \in 1 .. n} = {list[i] : i \in P}
  BY <1>3, <1>5
<1>. QED BY <1>6, <1>7, <1>8

\* The sessions of the objects are the homes of their keys.
LEMMA SessionsOfList ==
    ASSUME sharded \in BOOLEAN, NEW list \in Seq(Keys)
    PROVE  /\ SessionsOf(list) \in Seq(Sessions)
           /\ ToSet(SessionsOf(list)) = {Home(k) : k \in ToSet(list)}
<1> DEFINE homes == [i \in DOMAIN list |-> Home(list[i])]
           firsts == {i \in DOMAIN homes : \A j \in 1 .. i - 1 : homes[j] # homes[i]}
<1>1. Len(list) \in Nat /\ DOMAIN list = 1 .. Len(list) /\ \A i \in DOMAIN list : list[i] \in Keys
  OBVIOUS
<1>2. \A i \in DOMAIN list : homes[i] \in Sessions /\ homes[i] = Home(list[i])
  BY <1>1, WhereSessions
<1>3. homes \in Seq(Sessions) /\ DOMAIN homes = 1 .. Len(list)
  BY <1>1, <1>2
<1> HIDE DEF homes
<1>4. SessionsOf(list) \in Seq(Sessions) /\ ToSet(SessionsOf(list)) = {homes[i] : i \in firsts}
  <2>1. SessionsOf(list) = Picked(homes, firsts)
    BY DEF SessionsOf, homes
  <2>2. firsts \in SUBSET (DOMAIN homes)
    OBVIOUS
  <2> HIDE DEF firsts
  <2>. QED BY <1>3, <2>1, <2>2, PickedList
<1>5. ASSUME NEW i \in 1 .. Len(list) PROVE \E j \in firsts : homes[j] = homes[i]
  <2> DEFINE same == {j \in 1 .. Len(list) : homes[j] = homes[i]}
  <2>1. same # {} /\ same \subseteq Nat
    BY <1>1
  <2>2. PICK j \in same : \A m \in same : j <= m
    BY <2>1, LeastExists
  <2>3. j \in 1 .. Len(list) /\ homes[j] = homes[i]
    BY <2>2
  <2>4. ASSUME NEW m \in 1 .. j - 1, homes[m] = homes[j] PROVE FALSE
    <3>1. m \in 1 .. Len(list) /\ m < j /\ m \in Nat /\ j \in Nat
      BY <1>1, <2>3
    <3>2. m \in same
      BY <2>3, <2>4, <3>1
    <3>3. j <= m
      <4> HIDE DEF same
      <4>. QED BY <2>2, <3>2
    <3>. QED BY <3>1, <3>3
  <2>. QED BY <1>3, <2>3, <2>4
<1>6. {homes[i] : i \in firsts} = {homes[i] : i \in 1 .. Len(list)}
  BY <1>3, <1>5
<1>7. {homes[i] : i \in 1 .. Len(list)} = {Home(k) : k \in ToSet(list)}
  BY <1>1, <1>2 DEF ToSet
<1>. QED BY <1>4, <1>6, <1>7

\* The group of a session has the objects whose home it is.
LEMMA GroupOfList ==
    ASSUME NEW list \in Seq(Keys), NEW s
    PROVE  /\ GroupOf(list, s) \in Seq(Keys)
           /\ ToSet(GroupOf(list, s)) = {k \in ToSet(list) : Home(k) = s}
<1> DEFINE P == {i \in DOMAIN list : Home(list[i]) = s}
<1>1. GroupOf(list, s) \in Seq(Keys) /\ ToSet(GroupOf(list, s)) = {list[i] : i \in P}
  <2>1. P \in SUBSET (DOMAIN list) /\ GroupOf(list, s) = Picked(list, P)
    BY DEF GroupOf
  <2> HIDE DEF P
  <2>. QED BY <2>1, PickedList
<1>2. {list[i] : i \in P} = {k \in ToSet(list) : Home(k) = s}
  BY DEF ToSet
<1>. QED BY <1>1, <1>2

Part == [op : Names, at : Sessions, keys : Seq(Keys)]

\* One part per home.
LEMMA GroupedParts ==
    ASSUME sharded \in BOOLEAN, NEW op \in Names, NEW list \in Seq(Keys)
    PROVE  /\ Grouped(op, list) \in Seq(Part)
           /\ ToSet(Grouped(op, list))
                = {[op |-> op, at |-> s, keys |-> GroupOf(list, s)] : s \in {Home(k) : k \in ToSet(list)}}
<1> DEFINE ss == SessionsOf(list)
<1>1. ss \in Seq(Sessions) /\ ToSet(ss) = {Home(k) : k \in ToSet(list)}
  BY SessionsOfList
<1>2. Grouped(op, list) = [n \in DOMAIN ss |-> [op |-> op, at |-> ss[n], keys |-> GroupOf(list, ss[n])]]
  BY DEF Grouped
<1> HIDE DEF ss
<1>3. Len(ss) \in Nat /\ DOMAIN ss = 1 .. Len(ss) /\ \A n \in DOMAIN ss : ss[n] \in Sessions
  BY <1>1
<1>4. \A n \in DOMAIN ss : [op |-> op, at |-> ss[n], keys |-> GroupOf(list, ss[n])] \in Part
  BY <1>3, GroupOfList DEF Part
<1>5. Grouped(op, list) \in Seq(Part)
  <2> HIDE DEF Part
  <2>. QED BY <1>2, <1>3, <1>4
<1>6. ToSet(Grouped(op, list))
        = {[op |-> op, at |-> s, keys |-> GroupOf(list, s)] : s \in ToSet(ss)}
  BY <1>2 DEF ToSet
<1>. QED BY <1>1, <1>5, <1>6

\* One part per session.
LEMMA EverywhereParts ==
    ASSUME sharded \in BOOLEAN, NEW op \in Names
    PROVE  /\ Everywhere(op) \in Seq(Part)
           /\ ToSet(Everywhere(op)) = {[op |-> op, at |-> s, keys |-> << >>] : s \in Where}
<1>1. all_sessions \in Seq(Sessions)
  BY WhereSessions
<1>2. /\ Len(all_sessions) \in Nat /\ DOMAIN all_sessions = 1 .. Len(all_sessions)
      /\ \A n \in DOMAIN all_sessions : all_sessions[n] \in Sessions
  BY <1>1
<1>3. << >> \in Seq(Keys)
  OBVIOUS
<1>4. \A s \in Sessions : [op |-> op, at |-> s, keys |-> << >>] \in Part
  BY <1>3 DEF Part
<1>5. Everywhere(op) \in Seq(Part)
  <2> HIDE DEF Part
  <2>. QED BY <1>2, <1>4 DEF Everywhere
<1>6. ToSet(Everywhere(op)) = {[op |-> op, at |-> s, keys |-> << >>] : s \in ToSet(all_sessions)}
  BY DEF Everywhere, ToSet
<1>. QED BY <1>5, <1>6 DEF Where

\* One request for every object of a removal.
Removals(c) == {[op |-> "remove", at |-> c.at, keys |-> <<k>>] : k \in ToSet(c.keys)}

RequestsSet(c) ==
    CASE c.op = "index!" -> {[c EXCEPT !.op = "index"], [c EXCEPT !.op = "commit"]}
      [] c.op = "remove" -> Removals(c)
      [] c.op = "remove!" -> Removals(c) \cup {[c EXCEPT !.op = "commit"]}
      [] c.op = "remove_all!" -> {[c EXCEPT !.op = "remove_all"], [c EXCEPT !.op = "commit"]}
      [] OTHER -> {c}

\* Sequences of one and of two requests.
LEMMA PairSet ==
    ASSUME NEW x \in Req, NEW y \in Req
    PROVE  /\ <<x>> \in Seq(Req) /\ ToSet(<<x>>) = {x}
           /\ <<x, y>> \in Seq(Req) /\ ToSet(<<x, y>>) = {x, y}
<1>1. <<x>> \in Seq(Req) /\ <<x, y>> \in Seq(Req)
  OBVIOUS
<1>2. DOMAIN <<x>> = {1} /\ DOMAIN <<x, y>> = {1, 2}
  OBVIOUS
<1>3. <<x>>[1] = x /\ <<x, y>>[1] = x /\ <<x, y>>[2] = y
  OBVIOUS
<1>4. {<<x>>[i] : i \in {1}} = {x} /\ {<<x, y>>[i] : i \in {1, 2}} = {x, y}
  BY <1>3
<1>. QED BY <1>1, <1>2, <1>4 DEF ToSet

\* The requests of a session call, as a set.
LEMMA RequestsList ==
    ASSUME NEW c \in Part
    PROVE  Requests(c) \in Seq(Req) /\ ToSet(Requests(c)) = RequestsSet(c)
<1>1. /\ c.op \in Names /\ c.at \in Sessions /\ c.keys \in Seq(Keys)
      /\ Len(c.keys) \in Nat /\ DOMAIN c.keys = 1 .. Len(c.keys)
      /\ \A n \in DOMAIN c.keys : c.keys[n] \in Keys
  BY DEF Part
<1>2. ASSUME NEW op \in Requested PROVE [c EXCEPT !.op = op] \in Req
  BY DEF Part, Req
<1>3. "index" \in Requested /\ "commit" \in Requested /\ "remove_all" \in Requested
      /\ "remove" \in Requested
  BY DEF Requested, Committing
<1>4. /\ [c EXCEPT !.op = "index"] \in Req /\ [c EXCEPT !.op = "commit"] \in Req
      /\ [c EXCEPT !.op = "remove_all"] \in Req
  BY <1>2, <1>3
<1> DEFINE each == [n \in DOMAIN c.keys |-> [op |-> "remove", at |-> c.at, keys |-> <<c.keys[n]>>]]
<1>5. each \in Seq(Req) /\ ToSet(each) = Removals(c)
  <2>1. ASSUME NEW k \in Keys PROVE <<k>> \in Seq(Keys)
    OBVIOUS
  <2>2. \A k \in Keys : [op |-> "remove", at |-> c.at, keys |-> <<k>>] \in Req
    BY <1>1, <1>3, <2>1 DEF Req
  <2>3. each \in Seq(Req)
    <3> HIDE DEF Req
    <3>. QED BY <1>1, <2>2
  <2>4. ToSet(each) = Removals(c)
    BY DEF ToSet, Removals
  <2>. QED BY <2>3, <2>4
<1> HIDE DEF each
<1>6. CASE c.op = "index!"
  <2>0. PICK x \in Req, y \in Req : x = [c EXCEPT !.op = "index"] /\ y = [c EXCEPT !.op = "commit"]
    BY <1>4
  <2>1. Requests(c) = <<[c EXCEPT !.op = "index"], [c EXCEPT !.op = "commit"]>>
    BY <1>6 DEF Requests
  <2>2. RequestsSet(c) = {[c EXCEPT !.op = "index"], [c EXCEPT !.op = "commit"]}
    BY <1>6 DEF RequestsSet
  <2>3. Requests(c) = <<x, y>> /\ RequestsSet(c) = {x, y}
    BY <2>0, <2>1, <2>2
  <2>4. <<x, y>> \in Seq(Req) /\ ToSet(<<x, y>>) = {x, y}
    BY PairSet
  <2>. QED BY <2>3, <2>4
<1>7. CASE c.op = "remove_all!"
  <2>0. PICK x \in Req, y \in Req : x = [c EXCEPT !.op = "remove_all"] /\ y = [c EXCEPT !.op = "commit"]
    BY <1>4
  <2>1. Requests(c) = <<[c EXCEPT !.op = "remove_all"], [c EXCEPT !.op = "commit"]>>
    BY <1>7 DEF Requests
  <2>2. RequestsSet(c) = {[c EXCEPT !.op = "remove_all"], [c EXCEPT !.op = "commit"]}
    BY <1>7 DEF RequestsSet
  <2>3. Requests(c) = <<x, y>> /\ RequestsSet(c) = {x, y}
    BY <2>0, <2>1, <2>2
  <2>4. <<x, y>> \in Seq(Req) /\ ToSet(<<x, y>>) = {x, y}
    BY PairSet
  <2>. QED BY <2>3, <2>4
<1>8. CASE c.op = "remove"
  <2>1. Requests(c) = [n \in DOMAIN c.keys |-> [c EXCEPT !.keys = <<c.keys[n]>>]]
    BY <1>8 DEF Requests
  <2>2. \A n \in DOMAIN c.keys :
          [c EXCEPT !.keys = <<c.keys[n]>>] = [op |-> "remove", at |-> c.at, keys |-> <<c.keys[n]>>]
    BY <1>8 DEF Part
  <2>3. Requests(c) = each /\ RequestsSet(c) = Removals(c)
    BY <1>8, <2>1, <2>2 DEF each, RequestsSet
  <2>. QED BY <1>5, <2>3
<1>9. CASE c.op = "remove!"
  <2>1. Requests(c) = each \o <<[c EXCEPT !.op = "commit"]>>
    BY <1>9 DEF Requests, each
  <2>2. RequestsSet(c) = Removals(c) \cup {[c EXCEPT !.op = "commit"]}
    BY <1>9 DEF RequestsSet
  <2>3. <<[c EXCEPT !.op = "commit"]>> \in Seq(Req)
        /\ ToSet(<<[c EXCEPT !.op = "commit"]>>) = {[c EXCEPT !.op = "commit"]}
    BY <1>4, PairSet
  <2>4. PICK list \in Seq(Req) : list = <<[c EXCEPT !.op = "commit"]>>
    BY <2>3
  <2>5. each \o list \in Seq(Req) /\ ToSet(each \o list) = ToSet(each) \cup ToSet(list)
    BY <1>5, ConcatElements
  <2>6. Requests(c) = each \o list /\ ToSet(list) = {[c EXCEPT !.op = "commit"]}
    BY <2>1, <2>3, <2>4
  <2>. QED BY <1>5, <2>2, <2>5, <2>6
<1>10. CASE c.op \notin {"index!", "remove_all!", "remove", "remove!"}
  <2>1. Requests(c) = <<c>> /\ RequestsSet(c) = {c}
    BY <1>10 DEF Requests, RequestsSet
  <2>2. c \in Req
    <3>1. c.op \in Requested
      BY <1>1, <1>10 DEF Names, ByObject, ByShard, Requested, Committing
    <3>2. c = [op |-> c.op, at |-> c.at, keys |-> c.keys]
      BY DEF Part
    <3>. QED BY <1>1, <3>1, <3>2 DEF Req
  <2>3. <<c>> \in Seq(Req) /\ ToSet(<<c>>) = {c}
    BY <2>2, PairSet
  <2>. QED BY <2>1, <2>3
<1>. QED BY <1>6, <1>7, <1>8, <1>9, <1>10

Parts(op, list) ==
    IF op \in ByObject
    THEN {[op |-> op, at |-> s, keys |-> GroupOf(list, s)] : s \in {Home(k) : k \in ToSet(list)}}
    ELSE {[op |-> op, at |-> s, keys |-> << >>] : s \in Where}

\* The requests of a call are those of its session calls.
LEMMA PlanRequests ==
    ASSUME sharded \in BOOLEAN, NEW op \in Names, NEW list \in Seq(Keys)
    PROVE  /\ Plan(op, list) \in Seq(Req)
           /\ ToSet(Plan(op, list)) = UNION {RequestsSet(c) : c \in Parts(op, list)}
           /\ Parts(op, list) \subseteq Part
<1> DEFINE parts == IF op \in ByObject THEN Grouped(op, list) ELSE Everywhere(op)
<1>1. parts \in Seq(Part) /\ ToSet(parts) = Parts(op, list)
  BY GroupedParts, EverywhereParts DEF Parts
<1>2. Plan(op, list) = FlattenSeq([n \in DOMAIN parts |-> Requests(parts[n])])
  BY DEF Plan
<1> HIDE DEF parts
<1> DEFINE lists == [n \in DOMAIN parts |-> Requests(parts[n])]
<1>3. /\ Len(parts) \in Nat /\ DOMAIN parts = 1 .. Len(parts)
      /\ \A n \in DOMAIN parts : parts[n] \in Part
  BY <1>1
<1>4. \A n \in DOMAIN parts : lists[n] \in Seq(Req) /\ ToSet(lists[n]) = RequestsSet(parts[n])
  BY <1>3, RequestsList
<1>5. lists \in Seq(Seq(Req)) /\ DOMAIN lists = DOMAIN parts
  <2>1. DOMAIN lists = DOMAIN parts
    OBVIOUS
  <2> HIDE DEF Req
  <2>. QED BY <1>3, <1>4, <2>1
<1> HIDE DEF lists
<1>6. /\ Plan(op, list) \in Seq(Req)
      /\ ToSet(Plan(op, list)) = UNION {ToSet(lists[i]) : i \in DOMAIN lists}
  BY <1>2, <1>5, FlattenElements DEF lists
<1>7. {ToSet(lists[i]) : i \in DOMAIN lists} = {RequestsSet(parts[i]) : i \in DOMAIN parts}
  BY <1>4, <1>5
<1>8. {RequestsSet(parts[i]) : i \in DOMAIN parts} = {RequestsSet(c) : c \in ToSet(parts)}
  BY DEF ToSet
<1>9. ToSet(parts) \subseteq Part
  BY <1>3 DEF ToSet
<1>. QED BY <1>1, <1>6, <1>7, <1>8, <1>9

\* What requests a call may consist of, and the one that does what it is for.
OpsOf(op) == CASE op = "index!" -> {"index", "commit"}
               [] op = "remove!" -> {"remove", "commit"}
               [] op = "remove_all!" -> {"remove_all", "commit"}
               [] OTHER -> {op}

Main(op) == CASE op = "index!" -> "index"
              [] op = "remove!" -> "remove"
              [] op = "remove_all!" -> "remove_all"
              [] OTHER -> op

ByKey == {"index", "remove", "remove_by_id"}

\* They go to the session of the call, for its objects.
LEMMA PartRequests ==
    ASSUME NEW c \in Part, NEW r \in RequestsSet(c)
    PROVE  /\ r.at = c.at /\ r.op \in OpsOf(c.op)
           /\ r.op \in ByKey => ToSet(r.keys) \subseteq ToSet(c.keys)
<1>1. ASSUME r \in Removals(c)
      PROVE  r.at = c.at /\ r.op = "remove" /\ ToSet(r.keys) \subseteq ToSet(c.keys)
  <2>1. PICK k \in ToSet(c.keys) : r = [op |-> "remove", at |-> c.at, keys |-> <<k>>]
    BY <1>1 DEF Removals
  <2>2. r.at = c.at /\ r.op = "remove" /\ r.keys = <<k>>
    BY <2>1
  <2>3. ToSet(<<k>>) = {k}
    BY DEF ToSet
  <2>. QED BY <2>1, <2>2, <2>3
<1>2. ASSUME NEW op, r = [c EXCEPT !.op = op]
      PROVE  r.at = c.at /\ r.op = op /\ r.keys = c.keys
  BY <1>2 DEF Part
<1>3. CASE c.op = "index!"
  <2>1. r = [c EXCEPT !.op = "index"] \/ r = [c EXCEPT !.op = "commit"]
    BY <1>3 DEF RequestsSet
  <2>. QED BY <1>2, <1>3, <2>1 DEF OpsOf
<1>4. CASE c.op = "remove_all!"
  <2>1. r = [c EXCEPT !.op = "remove_all"] \/ r = [c EXCEPT !.op = "commit"]
    BY <1>4 DEF RequestsSet
  <2>. QED BY <1>2, <1>4, <2>1 DEF OpsOf
<1>5. CASE c.op = "remove"
  BY <1>1, <1>5 DEF RequestsSet, OpsOf
<1>6. CASE c.op = "remove!"
  <2>1. r \in Removals(c) \/ r = [c EXCEPT !.op = "commit"]
    BY <1>6 DEF RequestsSet
  <2>. QED BY <1>1, <1>2, <1>6, <2>1 DEF OpsOf
<1>7. CASE c.op \notin {"index!", "remove_all!", "remove", "remove!"}
  <2>1. r = c
    BY <1>7 DEF RequestsSet
  <2>. QED BY <1>7, <2>1 DEF OpsOf
<1>. QED BY <1>3, <1>4, <1>5, <1>6, <1>7

\* So every request of a plan is of its call, for keys that belong there.
LEMMA PlanFacts ==
    ASSUME sharded \in BOOLEAN, NEW op \in Names, NEW list \in Seq(Keys),
           NEW r \in ToSet(Plan(op, list))
    PROVE  /\ r \in Req /\ r.at \in Where /\ r.op \in OpsOf(op)
           /\ r.op \in ByKey => \A k \in ToSet(r.keys) : k \in ToSet(list) /\ Home(k) = r.at
<1>1. r \in Req
  <2>1. PICK plan \in Seq(Req) : plan = Plan(op, list)
    BY PlanRequests
  <2>2. ToSet(plan) \subseteq Req
    <3> HIDE DEF Req
    <3>. QED BY DEF ToSet
  <2>. QED BY <2>1, <2>2
<1>2. PICK c \in Parts(op, list) : r \in RequestsSet(c) /\ c \in Part
  BY PlanRequests
<1>3. /\ r.at = c.at /\ r.op \in OpsOf(c.op)
      /\ r.op \in ByKey => ToSet(r.keys) \subseteq ToSet(c.keys)
  BY <1>2, PartRequests
<1>4. CASE op \in ByObject
  <2>1. PICK k \in ToSet(list) : c = [op |-> op, at |-> Home(k), keys |-> GroupOf(list, Home(k))]
    BY <1>2, <1>4 DEF Parts
  <2>2. k \in Keys /\ Home(k) \in Where
    BY WhereSessions DEF ToSet
  <2>3. ToSet(c.keys) = {j \in ToSet(list) : Home(j) = Home(k)} /\ c.op = op /\ c.at = Home(k)
    BY <2>1, GroupOfList
  <2>. QED BY <1>1, <1>3, <2>2, <2>3
<1>5. CASE op \notin ByObject
  <2>1. PICK s \in Where : c = [op |-> op, at |-> s, keys |-> << >>]
    BY <1>2, <1>5 DEF Parts
  <2>2. c.op = op /\ c.at = s /\ c.keys = << >> /\ ToSet(<< >>) = {}
    BY <2>1 DEF ToSet
  <2>. QED BY <1>1, <1>3, <2>1, <2>2
<1>. QED BY <1>4, <1>5

\* The plan covers what the call is for: every object, or every session.
LEMMA PlanCovers ==
    ASSUME sharded \in BOOLEAN, NEW op \in Names, NEW list \in Seq(Keys)
    PROVE  /\ op \in ByShard => \A s \in Where : \E r \in ToSet(Plan(op, list)) :
                  r.at = s /\ r.op = Main(op)
           /\ op \in ByObject => \A k \in ToSet(list) : \E r \in ToSet(Plan(op, list)) :
                  r.at = Home(k) /\ r.op = Main(op) /\ k \in ToSet(r.keys)
<1>0. ASSUME NEW c \in Parts(op, list), NEW r \in RequestsSet(c)
      PROVE  r \in ToSet(Plan(op, list))
  BY <1>0, PlanRequests
<1>a. ASSUME NEW c, c \in Part, NEW new
      PROVE  LET r == [c EXCEPT !.op = new] IN r.at = c.at /\ r.op = new /\ r.keys = c.keys
  BY <1>a DEF Part
<1>1. ASSUME op \in ByShard, NEW s \in Where
      PROVE  \E r \in ToSet(Plan(op, list)) : r.at = s /\ r.op = Main(op)
  <2>1. op \notin ByObject
    BY <1>1 DEF ByShard, ByObject
  <2>2. PICK c : c = [op |-> op, at |-> s, keys |-> << >>]
    OBVIOUS
  <2>3. c \in Parts(op, list) /\ c.op = op /\ c.at = s /\ c \in Part
    BY <2>1, <2>2, PlanRequests DEF Parts
  <2>4. CASE op = "remove_all!"
    <3>1. PICK r : r = [c EXCEPT !.op = "remove_all"]
      OBVIOUS
    <3>2. r \in RequestsSet(c)
      BY <2>3, <2>4, <3>1 DEF RequestsSet
    <3>3. r.at = s /\ r.op = Main(op)
      BY <1>a, <2>3, <2>4, <3>1 DEF Main
    <3>. QED BY <1>0, <2>3, <3>2, <3>3
  <2>5. CASE op # "remove_all!"
    <3>1. op \notin {"index!", "remove", "remove!", "remove_all!"}
      BY <1>1, <2>5 DEF ByShard
    <3>2. c \in RequestsSet(c) /\ Main(op) = op
      BY <2>3, <3>1 DEF RequestsSet, Main
    <3>. QED BY <1>0, <2>3, <3>2
  <2>. QED BY <2>4, <2>5
<1>2. ASSUME op \in ByObject, NEW k \in ToSet(list)
      PROVE  \E r \in ToSet(Plan(op, list)) :
                 r.at = Home(k) /\ r.op = Main(op) /\ k \in ToSet(r.keys)
  <2>1. PICK c : c = [op |-> op, at |-> Home(k), keys |-> GroupOf(list, Home(k))]
    OBVIOUS
  <2>2. c \in Parts(op, list) /\ c \in Part
    BY <1>2, <2>1, PlanRequests DEF Parts
  <2>3. c.op = op /\ c.at = Home(k) /\ k \in ToSet(c.keys)
    BY <2>1, GroupOfList
  <2>4. CASE op \in {"remove", "remove!"}
    <3>1. PICK r : r = [op |-> "remove", at |-> c.at, keys |-> <<k>>]
      OBVIOUS
    <3>2. r \in Removals(c)
      BY <2>3, <3>1 DEF Removals
    <3>3. r \in RequestsSet(c)
      BY <2>3, <2>4, <3>2 DEF RequestsSet
    <3>4. r.at = Home(k) /\ r.op = Main(op) /\ r.keys = <<k>>
      BY <2>3, <2>4, <3>1 DEF Main
    <3>5. ToSet(<<k>>) = {k}
      BY DEF ToSet
    <3>. QED BY <1>0, <2>2, <3>3, <3>4, <3>5
  <2>5. CASE op = "index!"
    <3>1. PICK r : r = [c EXCEPT !.op = "index"]
      OBVIOUS
    <3>2. r \in RequestsSet(c)
      BY <2>3, <2>5, <3>1 DEF RequestsSet
    <3>3. r.at = Home(k) /\ r.op = Main(op) /\ r.keys = c.keys
      BY <1>a, <2>2, <2>3, <2>5, <3>1 DEF Main
    <3>. QED BY <1>0, <2>2, <2>3, <3>2, <3>3
  <2>6. CASE op \notin {"remove", "remove!", "index!"}
    <3>1. op \notin {"index!", "remove", "remove!", "remove_all!"}
      BY <1>2, <2>6 DEF ByObject
    <3>2. c \in RequestsSet(c) /\ Main(op) = op
      BY <2>3, <3>1 DEF RequestsSet, Main
    <3>. QED BY <1>0, <2>2, <2>3, <3>2
  <2>. QED BY <2>4, <2>5, <2>6
<1>. QED BY <1>1, <1>2

\* The plan of a call depends on the setting only.
LEMMA PlanSame ==
    ASSUME sharded' = sharded, NEW op, NEW list
    PROVE  /\ Plan(op, list)' = Plan(op, list)
           /\ Where' = Where
           /\ \A k \in Keys : Home(k)' = Home(k)
<1>1. Where' = Where
  BY DEF Where, all_sessions
<1>2. \A k \in Keys : Home(k)' = Home(k)
  BY DEF Home
<1>3. all_sessions' = all_sessions
  BY DEF all_sessions
<1>4. ASSUME NEW k PROVE Home(k)' = Home(k)
  BY DEF Home
<1>5. SessionsOf(list)' = SessionsOf(list)
  <2> DEFINE homes == [i \in DOMAIN list |-> Home(list[i])]
  <2>1. homes' = homes
    BY <1>4
  <2>2. ASSUME NEW h
        PROVE  \A g : g = h => Picked(g, {i \in DOMAIN g : \A j \in 1 .. i - 1 : g[j] # g[i]})
                               = Picked(h, {i \in DOMAIN h : \A j \in 1 .. i - 1 : h[j] # h[i]})
    OBVIOUS
  <2>3. /\ SessionsOf(list) = Picked(homes, {i \in DOMAIN homes : \A j \in 1 .. i - 1 : homes[j] # homes[i]})
        /\ SessionsOf(list)' = Picked(homes', {i \in DOMAIN homes' : \A j \in 1 .. i - 1 : homes'[j] # homes'[i]})
    BY DEF SessionsOf
  <2> HIDE DEF homes
  <2>. QED BY <2>1, <2>2, <2>3
<1>6. ASSUME NEW s PROVE GroupOf(list, s)' = GroupOf(list, s)
  <2>1. {i \in DOMAIN list : Home(list[i]) = s}' = {i \in DOMAIN list : Home(list[i]) = s}
    BY <1>4
  <2>. QED BY <2>1 DEF GroupOf
<1>7. Grouped(op, list)' = Grouped(op, list)
  <2>1. PICK ss : ss = SessionsOf(list) /\ ss = SessionsOf(list)'
    BY <1>5
  <2>2. /\ Grouped(op, list) = [n \in DOMAIN ss |-> [op |-> op, at |-> ss[n], keys |-> GroupOf(list, ss[n])]]
        /\ Grouped(op, list)' = [n \in DOMAIN ss |-> [op |-> op, at |-> ss[n], keys |-> GroupOf(list, ss[n])']]
    BY <2>1 DEF Grouped
  <2>. QED BY <1>6, <2>2
<1>8. Everywhere(op)' = Everywhere(op)
  BY <1>3 DEF Everywhere
<1>9. Plan(op, list)' = Plan(op, list)
  BY <1>7, <1>8 DEF Plan
<1>. QED BY <1>1, <1>2, <1>9

-----------------------------------------------------------------------------
(* Every state is well formed.                                             *)

CallRec == [op : Names \cup {"none"}, args : Seq(Keys), plan : Seq(Req), todo : Seq(Req),
            tries : 0 .. 1]

BlockCalls == Seq(ByObject \X Keys)

FrameRec == [open : BOOLEAN, block : BlockCalls, left : BlockCalls, tries : 0 .. 1]

\* Documents of the calls up to this one.
DocsTo(n) == [id : Keys, at : 0 .. n]

SettingT == wrap \in Wraps /\ sharded \in BOOLEAN /\ clock \in Nat

\* What a shard may hold unpublished; the session does not count the last.
Kinds == {"add", "delete", "remove_by_id"}

CountT ==
    /\ count \in [Sessions -> SUBSET {"add", "delete"}]
    /\ pending \in [Sessions -> SUBSET Kinds]
    /\ doubtful \subseteq Keys /\ unheard \subseteq Sessions

SolrT ==
    /\ core \in [Sessions -> [Keys -> 0 .. clock]]
    /\ searcher \in [Sessions -> [Keys -> 0 .. clock]]

StackT == stack \in Seq(Seq(DocsTo(clock)))

\* What is left of a call is part of its plan.
CallT ==
    /\ call \in CallRec
    /\ call.op = "none" => call.todo = << >>
    /\ call.op # "none" =>
           call.plan = Plan(call.op, call.args) /\ ToSet(call.todo) \subseteq ToSet(call.plan)

FrameT == frame \in FrameRec

TypeInv == SettingT /\ CountT /\ SolrT /\ StackT /\ CallT /\ FrameT

\* What the head of a sequence leaves.
LEMMA HeadTail ==
    ASSUME NEW S, NEW s \in Seq(S), s # << >>
    PROVE  /\ Head(s) \in ToSet(s) /\ Tail(s) \in Seq(S) /\ Len(s) \in Nat
           /\ ToSet(s) = {Head(s)} \cup ToSet(Tail(s))
           /\ Len(s) = 1 => ToSet(Tail(s)) = {}
           /\ Len(s) > 1 <=> Tail(s) # << >>
           /\ Len(s) > 1 <=> Len(s) # 1
<1>1. /\ Len(s) \in Nat /\ Len(s) >= 1 /\ DOMAIN s = 1 .. Len(s)
      /\ Tail(s) \in Seq(S) /\ Len(Tail(s)) = Len(s) - 1 /\ DOMAIN Tail(s) = 1 .. Len(s) - 1
      /\ \A i \in 1 .. Len(s) - 1 : Tail(s)[i] = s[i + 1]
      /\ Head(s) = s[1]
  OBVIOUS
<1>2. Head(s) \in ToSet(s)
  BY <1>1 DEF ToSet
<1>3. ASSUME NEW x \in ToSet(Tail(s)) PROVE x \in ToSet(s)
  <2>1. PICK i \in 1 .. Len(s) - 1 : x = s[i + 1]
    BY <1>1, <1>3 DEF ToSet
  <2>2. i + 1 \in 1 .. Len(s)
    BY <1>1
  <2>. QED BY <1>1, <2>1, <2>2 DEF ToSet
<1>4. ASSUME NEW x \in ToSet(s), x # Head(s) PROVE x \in ToSet(Tail(s))
  <2>1. PICK i \in 1 .. Len(s) : x = s[i]
    BY <1>1, <1>4 DEF ToSet
  <2>2. i # 1 /\ i - 1 \in 1 .. Len(s) - 1 /\ (i - 1) + 1 = i
    BY <1>1, <1>4, <2>1
  <2>3. Tail(s)[i - 1] = x
    BY <1>1, <2>1, <2>2
  <2>. QED BY <1>1, <2>2, <2>3 DEF ToSet
<1>5. Len(s) = 1 => ToSet(Tail(s)) = {}
  <2>1. Len(s) = 1 => DOMAIN Tail(s) = {}
    BY <1>1
  <2>. QED BY <2>1 DEF ToSet
<1>6. Len(s) > 1 <=> Tail(s) # << >>
  BY <1>1
<1>7. Len(s) > 1 <=> Len(s) # 1
  BY <1>1
<1>. QED BY <1>1, <1>2, <1>3, <1>4, <1>5, <1>6, <1>7

\* A later clock has more documents.
LEMMA DocsGrow ==
    ASSUME NEW m \in Nat, NEW n \in Nat, m <= n
    PROVE  /\ 0 .. m \subseteq 0 .. n /\ DocsTo(m) \subseteq DocsTo(n)
           /\ Seq(Seq(DocsTo(m))) \subseteq Seq(Seq(DocsTo(n)))
<1>1. 0 .. m \subseteq 0 .. n
  OBVIOUS
<1>2. DocsTo(m) \subseteq DocsTo(n)
  BY <1>1 DEF DocsTo
<1>3. Seq(DocsTo(m)) \subseteq Seq(DocsTo(n))
  <2> HIDE DEF DocsTo
  <2>. QED BY <1>2, SeqMonotonic
<1>4. Seq(Seq(DocsTo(m))) \subseteq Seq(Seq(DocsTo(n)))
  BY <1>3, SeqMonotonic
<1>. QED BY <1>1, <1>2, <1>4

\* The operators of the Batcher on stacks of documents.
LEMMA StackTypes ==
    ASSUME NEW S, NEW s \in Seq(Seq(S)), NEW docs \in Seq(S)
    PROVE  /\ start_new(s) \in Seq(Seq(S))
           /\ Len(s) > 0 => /\ end_current(s) \in Seq(Seq(S))
                            /\ current(s) \in Seq(S)
                            /\ concat(s, docs) \in Seq(Seq(S))
                            /\ current(concat(s, docs)) = current(s) \o docs
           /\ current(start_new(s)) = << >>
<1> DEFINE B == Seq(S)
<1>1. << >> \in B
  OBVIOUS
<1> HIDE DEF B
<1>2. s \in Seq(B)
  BY DEF B
<1>3. start_new(s) \in Seq(B) /\ current(start_new(s)) = << >>
  BY <1>1, <1>2 DEF start_new, current
<1>4. ASSUME Len(s) > 0
      PROVE  /\ end_current(s) \in Seq(B) /\ current(s) \in B
             /\ Len(s) \in 1 .. Len(s) /\ Len(s) \in Nat
  <2>1. Len(s) \in Nat /\ Len(s) \in 1 .. Len(s) /\ DOMAIN s = 1 .. Len(s)
    BY <1>2, <1>4
  <2>2. current(s) \in B
    BY <1>2, <2>1 DEF current
  <2>3. Len(s) - 1 \in Nat /\ \A i \in 1 .. Len(s) - 1 : s[i] \in B
    BY <1>2, <2>1
  <2>4. end_current(s) \in Seq(B)
    <3>1. PICK n \in Nat : n = Len(s) - 1
      BY <2>3
    <3>2. SubSeq(s, 1, n) \in Seq(B)
      BY <1>2, <2>3, <3>1, SubSeqProperties
    <3>. QED BY <3>1, <3>2 DEF end_current
  <2>. QED BY <2>1, <2>2, <2>4
<1>5. ASSUME Len(s) > 0
      PROVE  concat(s, docs) \in Seq(B) /\ current(concat(s, docs)) = current(s) \o docs
  <2>1. PICK new \in B : new = s[Len(s)] \o docs
    <3>1. s[Len(s)] \in Seq(S)
      BY <1>4, <1>5 DEF B, current
    <3>2. s[Len(s)] \o docs \in Seq(S)
      BY <3>1
    <3>. QED BY <3>2 DEF B
  <2>2. concat(s, docs) = [s EXCEPT ![Len(s)] = new]
    BY <1>5, <2>1 DEF concat, batching, depth
  <2>3. [s EXCEPT ![Len(s)] = new] \in Seq(B) /\ Len([s EXCEPT ![Len(s)] = new]) = Len(s)
    BY <1>2, <1>4, <1>5, ExceptSeq
  <2>4. [s EXCEPT ![Len(s)] = new][Len(s)] = new
    BY <1>2, <1>4, <1>5
  <2>. QED BY <2>1, <2>2, <2>3, <2>4 DEF current
<1>. QED BY <1>3, <1>4, <1>5 DEF B

\* The last document of an id wins.
LEMMA AppliedType ==
    ASSUME SettingT, SolrT, NEW s \in Sessions, NEW docs \in Seq(DocsTo(clock))
    PROVE  /\ Applied(s, docs) \in [Keys -> 0 .. clock]
           /\ \A k \in Keys :
                \/ (\A i \in DOMAIN docs : docs[i].id # k) /\ Applied(s, docs)[k] = core[s][k]
                \/ \E i \in DOMAIN docs :
                     /\ docs[i].id = k /\ Applied(s, docs)[k] = docs[i].at
                     /\ \A j \in DOMAIN docs : docs[j].id = k => j <= i
<1>1. Len(docs) \in Nat /\ DOMAIN docs = 1 .. Len(docs) /\ \A i \in DOMAIN docs : docs[i] \in DocsTo(clock)
  OBVIOUS
<1>2. ASSUME NEW k \in Keys
      PROVE  /\ Applied(s, docs)[k] \in 0 .. clock
             /\ \/ (\A i \in DOMAIN docs : docs[i].id # k) /\ Applied(s, docs)[k] = core[s][k]
                \/ \E i \in DOMAIN docs :
                     /\ docs[i].id = k /\ Applied(s, docs)[k] = docs[i].at
                     /\ \A j \in DOMAIN docs : docs[j].id = k => j <= i
  <2> DEFINE at == {i \in DOMAIN docs : docs[i].id = k}
             top == CHOOSE i \in at : \A j \in at : j <= i
  <2>1. Applied(s, docs)[k] = IF at = {} THEN core[s][k] ELSE docs[top].at
    BY DEF Applied
  <2>2. at \subseteq 0 .. Len(docs)
    BY <1>1
  <2>3. CASE at = {}
    BY <2>1, <2>3 DEF SolrT
  <2>4. CASE at # {}
    <3>1. \E i \in at : \A j \in at : j <= i
      <4> HIDE DEF at
      <4>. QED BY <1>1, <2>2, <2>4, GreatestExists
    <3>2. PICK t : t = top /\ t \in at /\ \A j \in at : j <= t
      BY <3>1
    <3>3. t \in DOMAIN docs /\ docs[t].id = k /\ docs[t].at \in 0 .. clock
      BY <1>1, <3>2 DEF DocsTo
    <3>4. Applied(s, docs)[k] = docs[t].at
      BY <2>1, <2>4, <3>2
    <3>5. \A j \in DOMAIN docs : docs[j].id = k => j <= t
      BY <3>2
    <3>. QED BY <3>3, <3>4, <3>5
  <2>. QED BY <2>3, <2>4
<1>3. Applied(s, docs) = [k \in Keys |-> Applied(s, docs)[k]]
  BY DEF Applied
<1>4. Applied(s, docs) \in [Keys -> 0 .. clock]
  BY <1>2, <1>3
<1>. QED BY <1>2, <1>4

\* The documents of a request.
LEMMA DocsType ==
    ASSUME SettingT, NEW list \in Seq(Keys)
    PROVE  /\ Docs(list) \in Seq(DocsTo(clock)) /\ DOMAIN Docs(list) = DOMAIN list
           /\ \A i \in DOMAIN list : Docs(list)[i].id = list[i] /\ Docs(list)[i].at = clock
<1>1. Len(list) \in Nat /\ DOMAIN list = 1 .. Len(list) /\ \A i \in DOMAIN list : list[i] \in Keys
  OBVIOUS
<1>2. \A i \in DOMAIN list : [id |-> list[i], at |-> clock] \in DocsTo(clock)
  BY <1>1 DEF SettingT, DocsTo
<1>3. Docs(list) \in Seq(DocsTo(clock))
  <2> HIDE DEF DocsTo
  <2>. QED BY <1>1, <1>2 DEF Docs
<1>. QED BY <1>3 DEF Docs

\* The call that a request leaves behind, and the block.
LEMMA AfterRequest ==
    ASSUME CallT, FrameT, SettingT, UNCHANGED sharded, call.todo # << >>,
           \/ Proceeds
           \/ \E error : CallFails(error)
    PROVE  CallT' /\ FrameT'
<1>1. /\ call \in CallRec /\ call.op # "none"
      /\ call.plan = Plan(call.op, call.args) /\ ToSet(call.todo) \subseteq ToSet(call.plan)
  BY DEF CallT
<1>2. \/ call' = NoCall
      \/ call' = [call EXCEPT !.todo = Tail(call.todo)]
      \/ (call' = Again(call) /\ call.tries = 0)
  BY DEF Proceeds, CallFails, Raises, Retries
<1>4. FrameT'
  BY DEF Proceeds, CallFails, FrameT
<1>5. /\ call.op \in Names /\ call.args \in Seq(Keys) /\ call.plan \in Seq(Req)
      /\ call.todo \in Seq(Req) /\ call.tries \in 0 .. 1
  BY <1>1 DEF CallRec
<1>6. PICK op, list : op = call.op /\ list = call.args
  OBVIOUS
<1>7. CASE call' = NoCall
  <2>1. << >> \in Seq(Req) /\ << >> \in Seq(Keys)
    OBVIOUS
  <2>2. NoCall \in CallRec /\ NoCall.op = "none" /\ NoCall.todo = << >>
    <3> HIDE DEF Req
    <3>. QED BY <2>1 DEF NoCall, CallRec
  <2>. QED BY <1>4, <1>7, <2>2 DEF CallT
<1>8. ASSUME call' = [call EXCEPT !.todo = Tail(call.todo)] \/ (call' = Again(call) /\ call.tries = 0)
      PROVE  CallT'
  <2>1. Tail(call.todo) \in Seq(Req) /\ ToSet(Tail(call.todo)) \subseteq ToSet(call.todo)
    <3> HIDE DEF Req
    <3>. QED BY <1>5, HeadTail
  <2>2. /\ call'.op = call.op /\ call'.args = call.args /\ call'.plan = call.plan
        /\ call'.todo = Tail(call.todo) \/ call'.todo = call.plan
    BY <1>1, <1>8 DEF CallRec, Again
  <2>3. call' \in CallRec
    <3>1. CASE call' = [call EXCEPT !.todo = Tail(call.todo)]
      BY <1>1, <2>1, <3>1 DEF CallRec
    <3>2. CASE call' = Again(call) /\ call.tries = 0
      <4>1. call' = [op |-> call.op, args |-> call.args, plan |-> call.plan,
                     todo |-> call.plan, tries |-> 1]
        <5>1. call = [op |-> call.op, args |-> call.args, plan |-> call.plan,
                      todo |-> call.todo, tries |-> call.tries]
          BY <1>1 DEF CallRec
        <5>2. call.tries + 1 = 1
          BY <3>2
        <5>. QED BY <3>2, <5>1, <5>2 DEF Again
      <4>. QED BY <1>1, <1>5, <4>1 DEF CallRec
    <3>. QED BY <1>8, <3>1, <3>2
  <2>4. ToSet(call'.todo) \subseteq ToSet(call'.plan)
    BY <1>1, <2>1, <2>2
  <2>5. call'.plan = Plan(op, list)'
    BY <1>1, <1>6, <2>2, PlanSame
  <2>6. call'.op = op /\ call'.args = list
    BY <1>6, <2>2
  <2>7. call'.op # "none" => call'.plan = Plan(call.op, call.args)'
    BY <2>5, <2>6
  <2>. QED BY <1>1, <2>2, <2>3, <2>4, <2>7 DEF CallT
<1>9. CASE call' # NoCall
  <2>1. call' = [call EXCEPT !.todo = Tail(call.todo)] \/ (call' = Again(call) /\ call.tries = 0)
    BY <1>2, <1>9
  <2>2. CallT'
    BY <1>8, <2>1
  <2>. QED BY <1>4, <2>2
<1>. QED BY <1>7, <1>9

\* The arguments are sequences of keys.
LEMMA ListsAreSeqs == Lists \cup {<< >>} \subseteq Seq(Keys)
<1>0. << >> \in Seq(Keys)
  OBVIOUS
<1> SUFFICES ASSUME NEW list \in Lists PROVE list \in Seq(Keys)
  BY <1>0
<1>1. PICK n \in 1 .. Cardinality(Keys) : list \in [1 .. n -> Keys]
  BY DEF Lists
<1>2. n \in Nat
  BY <1>1
<1>. QED BY <1>1, <1>2

\* A call begins.
LEMMA StartsTypes ==
    ASSUME TypeInv, NEW op \in Names, NEW list \in Seq(Keys), Starts(op, list)
    PROVE  SettingT' /\ CountT' /\ SolrT' /\ StackT' /\ CallT'
<1>1. /\ clock' = clock + 1 /\ UNCHANGED <<wrap, sharded, count, stack, core, searcher, pending, unheard>>
      /\ call' = [op |-> op, args |-> list, plan |-> Plan(op, list), todo |-> Plan(op, list), tries |-> 0]
      /\ doubtful' = doubtful \cup Affects(op, list)
  BY DEF Starts, solr
<1>2. clock \in Nat /\ clock' \in Nat /\ clock <= clock'
  BY <1>1 DEF TypeInv, SettingT
<1>3. SettingT'
  BY <1>1, <1>2 DEF TypeInv, SettingT
<1>4. ToSet(list) \subseteq Keys
  BY DEF ToSet
<1>5. CountT'
  BY <1>1, <1>4 DEF TypeInv, CountT, Affects
<1>6. SolrT'
  <2>1. 0 .. clock \subseteq 0 .. clock'
    BY <1>2
  <2>. QED BY <1>1, <2>1 DEF TypeInv, SolrT
<1>7. StackT'
  <2>1. PICK m \in Nat, n \in Nat : m = clock /\ n = clock' /\ m <= n
    BY <1>2
  <2>2. stack \in Seq(Seq(DocsTo(m))) /\ stack' = stack
    BY <1>1, <2>1 DEF TypeInv, StackT
  <2>3. stack' \in Seq(Seq(DocsTo(n)))
    BY <2>1, <2>2, DocsGrow
  <2>. QED BY <2>1, <2>3 DEF StackT
<1>8. CallT'
  <2>1. PICK plan \in Seq(Req) : plan = Plan(op, list)
    BY PlanRequests DEF TypeInv, SettingT
  <2>2. call' = [op |-> op, args |-> list, plan |-> plan, todo |-> plan, tries |-> 0]
    BY <1>1, <2>1
  <2>3. call' \in CallRec
    <3> HIDE DEF Req
    <3>. QED BY <2>2 DEF CallRec
  <2>4. call'.op = op /\ call'.args = list /\ call'.plan = plan /\ call'.todo = plan
    BY <2>2
  <2>5. Plan(op, list)' = plan
    BY <1>1, <2>1, PlanSame
  <2>6. op # "none"
    BY DEF Names, ByObject, ByShard
  <2>7. Plan(call.op, call.args)' = plan
    BY <2>4, <2>5
  <2>. QED BY <2>3, <2>4, <2>6, <2>7 DEF CallT
<1>. QED BY <1>3, <1>5, <1>6, <1>7, <1>8

\* What a request does to the index of a shard.
LEMMA AddsTypes ==
    ASSUME SettingT, CountT, SolrT, UNCHANGED clock,
           NEW s \in Sessions, NEW docs \in Seq(DocsTo(clock)), NEW o, Adds(s, docs, o)
    PROVE  SolrT' /\ pending' \in [Sessions -> SUBSET Kinds]
<1>1. PICK new \in [Keys -> 0 .. clock] : new = Applied(s, docs)
  BY AppliedType
<1>2. /\ core' = [core EXCEPT ![s] = new] \/ core' = core
      /\ pending' = [pending EXCEPT ![s] = pending[s] \cup {"add"}] \/ pending' = pending
      /\ searcher' = searcher
  BY <1>1 DEF Adds
<1>. QED BY <1>2 DEF CountT, SolrT, Kinds

\* The same for removals.
LEMMA DeletesTypes ==
    ASSUME SettingT, CountT, SolrT, UNCHANGED clock,
           NEW s \in Sessions, NEW keys, NEW kind \in Kinds, NEW o, Deletes(s, keys, kind, o)
    PROVE  SolrT' /\ pending' \in [Sessions -> SUBSET Kinds]
<1> DEFINE new == [k \in Keys |-> IF k \in keys THEN 0 ELSE core[s][k]]
<1>1. new \in [Keys -> 0 .. clock]
  BY DEF SettingT, SolrT
<1>2. /\ core' = [core EXCEPT ![s] = new] \/ core' = core
      /\ pending' = [pending EXCEPT ![s] = pending[s] \cup {kind}] \/ pending' = pending
      /\ searcher' = searcher
  BY DEF Deletes
<1> HIDE DEF new
<1>. QED BY <1>1, <1>2 DEF CountT, SolrT

\* The same for commits.
LEMMA CommitsTypes ==
    ASSUME SettingT, CountT, SolrT, UNCHANGED clock,
           NEW s \in Sessions, NEW o, Commits(s, o)
    PROVE  /\ SolrT' /\ unheard' \subseteq Sessions
           /\ count' \in [Sessions -> SUBSET {"add", "delete"}]
           /\ pending' \in [Sessions -> SUBSET Kinds]
<1>1. /\ count' = [count EXCEPT ![s] = {}] /\ core' = core
      /\ searcher' = [searcher EXCEPT ![s] = core[s]] \/ searcher' = searcher
      /\ pending' = [pending EXCEPT ![s] = {}] \/ pending' = pending
      /\ unheard' = unheard \ {s} \/ unheard' = unheard \cup {s}
  BY DEF Commits
<1>. QED BY <1>1 DEF CountT, SolrT

\* The next request of a running call.
LEMMA NextRequest ==
    ASSUME TypeInv, NEW ops, Running(ops)
    PROVE  /\ call.todo # << >> /\ call.op \in Names /\ call.args \in Seq(Keys)
           /\ call.plan = Plan(call.op, call.args)
           /\ Head(call.todo) \in ToSet(call.todo) /\ Head(call.todo) \in ToSet(Plan(call.op, call.args))
           /\ Head(call.todo).at \in Sessions /\ Head(call.todo).keys \in Seq(Keys)
           /\ Head(call.todo).at \in Where /\ Head(call.todo).op \in ops
           /\ ToSet(Head(call.todo).keys) \subseteq Keys /\ ToSet(call.args) \subseteq Keys
<1>1. call.todo # << >> /\ Head(call.todo).op \in ops
  BY DEF Running
<1>2. /\ call \in CallRec /\ call.op # "none"
      /\ call.plan = Plan(call.op, call.args) /\ ToSet(call.todo) \subseteq ToSet(call.plan)
  BY <1>1 DEF TypeInv, CallT
<1>3. call.op \in Names /\ call.args \in Seq(Keys) /\ call.todo \in Seq(Req)
  BY <1>2 DEF CallRec
<1>4. Head(call.todo) \in ToSet(call.todo)
  <2> HIDE DEF Req
  <2>. QED BY <1>1, <1>3, HeadTail
<1>5. PICK r : r = Head(call.todo)
  OBVIOUS
<1>6. r \in Req /\ r.at \in Where
  BY <1>2, <1>3, <1>4, <1>5, PlanFacts DEF TypeInv, SettingT
<1>7. r.at \in Sessions /\ r.keys \in Seq(Keys)
  BY <1>6 DEF Req
<1>8. ToSet(r.keys) \subseteq Keys /\ ToSet(call.args) \subseteq Keys
  BY <1>3, <1>7 DEF ToSet
<1>. QED BY <1>1, <1>2, <1>3, <1>4, <1>5, <1>6, <1>7, <1>8

\* The state a request leaves, but for the indexes.
LEMMA ContinuesTypes ==
    ASSUME TypeInv, NEW ops, Running(ops), NEW o, NEW keys, Continues(o, keys), UNCHANGED <<sharded, wrap, clock>>
    PROVE  SettingT' /\ CallT' /\ FrameT' /\ doubtful' \subseteq Keys
<1>1. SettingT'
  BY DEF TypeInv, SettingT
<1>2. Proceeds \/ \E error : CallFails(error)
  BY DEF Continues
<1>3. call.todo # << >>
  BY NextRequest
<1>4. CallT' /\ FrameT'
  BY <1>2, <1>3, AfterRequest DEF TypeInv
<1>5. doubtful' \subseteq Keys
  BY DEF Continues, Certain, TypeInv, CountT
<1>. QED BY <1>1, <1>4, <1>5

\* A step that leaves the stack alone.
LEMMA StackSame ==
    ASSUME StackT, UNCHANGED <<stack, clock>>
    PROVE  StackT'
  BY DEF StackT

\* The requests, action by action.
LEMMA SendTypes ==
    ASSUME TypeInv, NEW o,
           SendIndex(o) \/ SendRemove(o) \/ SendRemoveById(o) \/ SendRemoveAll(o) \/ SendCommit(o)
    PROVE  TypeInv'
<1> DEFINE r == Head(call.todo)
<1>0. SettingT /\ CountT /\ SolrT /\ StackT
  BY DEF TypeInv
<1>1. UNCHANGED <<wrap, sharded, stack, clock>>
  BY DEF SendIndex, SendRemove, SendRemoveById, SendRemoveAll, SendCommit
<1>2. \E ops, keys : Running(ops) /\ Continues(o, keys)
  BY DEF SendIndex, SendRemove, SendRemoveById, SendRemoveAll, SendCommit
<1>3. /\ SettingT' /\ CallT' /\ FrameT' /\ doubtful' \subseteq Keys /\ StackT'
      /\ r.at \in Sessions /\ r.keys \in Seq(Keys)
  BY <1>0, <1>1, <1>2, ContinuesTypes, NextRequest, StackSame
<1>4. PICK at \in Sessions, list \in Seq(Keys) : at = r.at /\ list = r.keys
  BY <1>3
<1>a. ASSUME NEW kind \in {"add", "delete"}, Counts(at, kind, o)
      PROVE  count' \in [Sessions -> SUBSET {"add", "delete"}]
  BY <1>0, <1>a DEF Counts, CountT
<1>5. /\ SolrT' /\ unheard' \subseteq Sessions
      /\ count' \in [Sessions -> SUBSET {"add", "delete"}]
      /\ pending' \in [Sessions -> SUBSET Kinds]
  <2>1. CASE SendIndex(o)
    <3>1. /\ Counts(at, "add", o) /\ Adds(at, Docs(list), o) /\ unheard' = unheard
      BY <2>1, <1>4 DEF SendIndex
    <3>2. Docs(list) \in Seq(DocsTo(clock))
      BY <1>0, DocsType
    <3>. QED BY <1>0, <1>1, <1>a, <3>1, <3>2, AddsTypes DEF CountT
  <2>2. CASE SendRemove(o)
    <3>1. /\ Counts(at, "delete", o) /\ \E keys : Deletes(at, keys, "delete", o)
          /\ unheard' = unheard
      BY <2>2, <1>4 DEF SendRemove
    <3>. QED BY <1>0, <1>1, <1>a, <3>1, DeletesTypes DEF CountT, Kinds
  <2>3. CASE SendRemoveById(o)
    <3>1. /\ count' = count /\ \E keys : Deletes(at, keys, "remove_by_id", o)
          /\ unheard' = unheard
      BY <2>3, <1>4 DEF SendRemoveById
    <3>. QED BY <1>0, <1>1, <3>1, DeletesTypes DEF CountT, Kinds
  <2>4. CASE SendRemoveAll(o)
    <3>1. /\ Counts(at, "delete", o) /\ Deletes(at, Keys, "delete", o)
          /\ unheard' = unheard
      BY <2>4, <1>4 DEF SendRemoveAll
    <3>. QED BY <1>0, <1>1, <1>a, <3>1, DeletesTypes DEF CountT, Kinds
  <2>5. CASE SendCommit(o)
    <3>1. Commits(at, o)
      BY <2>5, <1>4 DEF SendCommit
    <3>. QED BY <1>0, <1>1, <3>1, CommitsTypes
  <2>. QED BY <2>1, <2>2, <2>3, <2>4, <2>5
<1>. QED BY <1>3, <1>5 DEF TypeInv, CountT

\* A commit that nothing is due for.
LEMMA SkipTypes ==
    ASSUME TypeInv, SkipCommit
    PROVE  TypeInv'
<1>1. /\ Running(Committing) /\ Proceeds
      /\ UNCHANGED <<wrap, sharded, count, stack, core, searcher, pending, clock, doubtful, unheard>>
  BY DEF SkipCommit, solr
<1>2. CallT' /\ FrameT'
  BY <1>1, NextRequest, AfterRequest DEF TypeInv
<1>. QED BY <1>1, <1>2 DEF TypeInv, SettingT, CountT, SolrT, StackT

\* Documents that go to the batch.
LEMMA BatchIndexTypes ==
    ASSUME TypeInv, BatchIndex
    PROVE  TypeInv'
<1>1. /\ Running({"index"}) /\ Proceeds /\ batching(stack)
      /\ count' = [count EXCEPT ![Head(call.todo).at] = @ \cup {"add"}]
      /\ stack' = concat(stack, Docs(Head(call.todo).keys))
      /\ UNCHANGED <<wrap, sharded, core, searcher, pending, clock, doubtful, unheard>>
  BY DEF BatchIndex, solr
<1>2. CallT' /\ FrameT'
  BY <1>1, NextRequest, AfterRequest DEF TypeInv
<1>3. PICK at \in Sessions, list \in Seq(Keys) : at = Head(call.todo).at /\ list = Head(call.todo).keys
  BY <1>1, NextRequest
<1>4. CountT'
  BY <1>1, <1>3 DEF TypeInv, CountT
<1>5. StackT'
  <2>1. Docs(list) \in Seq(DocsTo(clock))
    BY DocsType DEF TypeInv
  <2>2. stack \in Seq(Seq(DocsTo(clock))) /\ Len(stack) > 0 /\ clock' = clock
    BY <1>1 DEF TypeInv, StackT, batching, depth
  <2>3. concat(stack, Docs(list)) \in Seq(Seq(DocsTo(clock)))
    <3> HIDE DEF DocsTo
    <3>. QED BY <2>1, <2>2, StackTypes
  <2>. QED BY <1>1, <1>3, <2>2, <2>3 DEF StackT
<1>. QED BY <1>1, <1>2, <1>4, <1>5 DEF TypeInv, SettingT, SolrT

\* An open block has a batch.
LEMMA BatchOfBlock ==
    ASSUME TypeInv, BatchesCounted, frame.open
    PROVE  /\ stack \in Seq(Seq(DocsTo(clock))) /\ Len(stack) > 0
           /\ current(stack) \in Seq(DocsTo(clock))
<1>1. stack \in Seq(Seq(DocsTo(clock)))
  BY DEF TypeInv, StackT
<1>2. Len(stack) > 0
  BY DEF BatchesCounted, Opened, depth
<1>3. << >> \in Seq(DocsTo(clock))
  <2> HIDE DEF DocsTo
  <2>. QED OBVIOUS
<1>4. current(stack) \in Seq(DocsTo(clock))
  <2> HIDE DEF DocsTo
  <2>. QED BY <1>1, <1>2, <1>3, StackTypes
<1>. QED BY <1>1, <1>2, <1>4

\* A block that is made again, field by field.
LEMMA BlockAgain ==
    ASSUME NEW B, NEW S, NEW T, 1 \in T, NEW f \in [open : B, block : S, left : S, tries : T]
    PROVE  [f EXCEPT !.left = f.block, !.tries = 1] \in [open : B, block : S, left : S, tries : T]
  OBVIOUS

\* What is left of a block that ended or is made again.
LEMMA FramesAfter ==
    ASSUME FrameT
    PROVE  /\ NoFrame \in FrameRec
           /\ [frame EXCEPT !.left = frame.block, !.tries = 1] \in FrameRec
<1>1. << >> \in BlockCalls
  BY DEF BlockCalls
<1>2. NoFrame \in FrameRec
  BY <1>1 DEF NoFrame, FrameRec
<1> HIDE DEF BlockCalls
<1>3. PICK T : T = 0 .. 1
  OBVIOUS
<1>4. 1 \in T /\ FrameRec = [open : BOOLEAN, block : BlockCalls, left : BlockCalls, tries : T]
  BY <1>3 DEF FrameRec
<1>5. frame \in [open : BOOLEAN, block : BlockCalls, left : BlockCalls, tries : T]
  BY <1>4 DEF FrameT
<1>6. [frame EXCEPT !.left = frame.block, !.tries = 1]
        \in [open : BOOLEAN, block : BlockCalls, left : BlockCalls, tries : T]
  BY <1>4, <1>5, BlockAgain
<1>. QED BY <1>2, <1>4, <1>6

\* A step that leaves the call alone.
LEMMA CallSame ==
    ASSUME CallT, UNCHANGED <<sharded, call>>
    PROVE  CallT'
<1>1. PICK op, list : op = call.op /\ list = call.args
  OBVIOUS
<1>2. Plan(op, list)' = Plan(op, list)
  BY PlanSame
<1>3. call'.op = op /\ call'.args = list /\ call' = call
  BY <1>1
<1>4. Plan(call.op, call.args)' = Plan(op, list)
  BY <1>2, <1>3
<1>. QED BY <1>1, <1>3, <1>4 DEF CallT

\* The batch is sent.
LEMMA FlushTypes ==
    ASSUME TypeInv, BatchesCounted, NEW o, SendFlush(o)
    PROVE  TypeInv'
<1> DEFINE popped == end_current(stack)
           docs == current(stack)
<1>1. /\ frame.open /\ Adds(Shards[1], docs, o)
      /\ UNCHANGED <<wrap, sharded, count, call, clock, unheard>>
      /\ stack' = start_new(popped) \/ stack' = popped
      /\ frame' = [frame EXCEPT !.left = frame.block, !.tries = 1] \/ frame' = NoFrame
      /\ doubtful' \subseteq doubtful
  BY DEF SendFlush
<1>2. /\ stack \in Seq(Seq(DocsTo(clock))) /\ Len(stack) > 0
      /\ docs \in Seq(DocsTo(clock))
  BY <1>1, BatchOfBlock
<1>3. popped \in Seq(Seq(DocsTo(clock))) /\ start_new(popped) \in Seq(Seq(DocsTo(clock)))
  <2> HIDE DEF DocsTo, docs
  <2>1. popped \in Seq(Seq(DocsTo(clock)))
    BY <1>2, StackTypes
  <2> HIDE DEF popped
  <2>2. start_new(popped) \in Seq(Seq(DocsTo(clock)))
    BY <1>2, <2>1, StackTypes
  <2>. QED BY <2>1, <2>2
<1>4. StackT'
  <2> HIDE DEF DocsTo, popped
  <2>1. stack' \in Seq(Seq(DocsTo(clock)))
    BY <1>1, <1>3
  <2>. QED BY <1>1, <2>1 DEF StackT, DocsTo
<1>5. Shards[1] \in Sessions
  BY WhereSessions, ShardsAssumption DEF Sessions
<1>6. SolrT' /\ CountT'
  <2> HIDE DEF docs
  <2>1. SolrT' /\ pending' \in [Sessions -> SUBSET Kinds]
    BY <1>1, <1>2, <1>5, AddsTypes DEF TypeInv
  <2>. QED BY <1>1, <2>1 DEF TypeInv, CountT
<1>7. CallT'
  BY <1>1, CallSame DEF TypeInv
<1>8. FrameT'
  BY <1>1, FramesAfter DEF TypeInv, FrameT
<1>9. SettingT'
  BY <1>1 DEF TypeInv, SettingT
<1>. QED BY <1>4, <1>6, <1>7, <1>8, <1>9 DEF TypeInv

\* A run of the block is left by an exception.
LEMMA BlockRaisesTypes ==
    ASSUME TypeInv, NEW error, BlockRaises(error)
    PROVE  TypeInv'
<1>1. /\ UNCHANGED <<wrap, sharded, count, core, searcher, pending, call, clock, doubtful, unheard>>
      /\ stack' = start_new(stack) \/ stack' = stack
      /\ frame' = [frame EXCEPT !.left = frame.block, !.tries = 1] \/ frame' = NoFrame
  BY DEF BlockRaises, solr
<1>2. StackT'
  <2>1. << >> \in Seq(DocsTo(clock)) /\ stack \in Seq(Seq(DocsTo(clock)))
    <3>1. stack \in Seq(Seq(DocsTo(clock)))
      BY DEF TypeInv, StackT
    <3> HIDE DEF DocsTo
    <3>. QED BY <3>1
  <2>2. stack' \in Seq(Seq(DocsTo(clock)))
    <3> HIDE DEF DocsTo
    <3>. QED BY <1>1, <2>1, StackTypes
  <2>. QED BY <1>1, <2>2 DEF StackT, DocsTo
<1>3. CallT'
  BY <1>1, CallSame DEF TypeInv
<1>4. FrameT'
  BY <1>1, FramesAfter DEF TypeInv, FrameT
<1>. QED BY <1>1, <1>2, <1>3, <1>4 DEF TypeInv, SettingT, CountT, SolrT

\* A block begins.
LEMMA CallBatchTypes ==
    ASSUME TypeInv, NEW block \in Blocks, CallBatch(block)
    PROVE  TypeInv'
<1>1. /\ frame' = [open |-> TRUE, block |-> block, left |-> block, tries |-> 0]
      /\ stack' = start_new(stack) /\ clock' = clock + 1
      /\ UNCHANGED <<wrap, sharded, count, core, searcher, pending, call, doubtful, unheard>>
  BY DEF CallBatch, solr
<1>2. clock \in Nat /\ clock' \in Nat /\ clock <= clock'
  BY <1>1 DEF TypeInv, SettingT
<1>3. SettingT' /\ CountT'
  BY <1>1, <1>2 DEF TypeInv, SettingT, CountT
<1>4. SolrT'
  <2>1. 0 .. clock \subseteq 0 .. clock'
    BY <1>2
  <2>. QED BY <1>1, <2>1 DEF TypeInv, SolrT
<1>5. StackT'
  <2>1. PICK m \in Nat, n \in Nat : m = clock /\ n = clock' /\ m <= n
    BY <1>2
  <2>2. stack \in Seq(Seq(DocsTo(n)))
    BY <2>1, DocsGrow DEF TypeInv, StackT
  <2>3. << >> \in Seq(DocsTo(n))
    <3> HIDE DEF DocsTo
    <3>. QED OBVIOUS
  <2>4. stack' \in Seq(Seq(DocsTo(n)))
    <3> HIDE DEF DocsTo
    <3>. QED BY <1>1, <2>2, <2>3, StackTypes
  <2>. QED BY <2>1, <2>4 DEF StackT
<1>6. FrameT'
  <2>1. block \in BlockCalls
    BY BlocksAssumption DEF BlockCalls
  <2>. QED BY <1>1, <2>1 DEF FrameT, FrameRec
<1>7. CallT'
  BY <1>1, CallSame DEF TypeInv
<1>. QED BY <1>3, <1>4, <1>5, <1>6, <1>7 DEF TypeInv

\* The next call of a block.
LEMMA NextOfBlock ==
    ASSUME TypeInv, frame.left # << >>
    PROVE  /\ Head(frame.left) \in ByObject \X Keys /\ Head(frame.left)[1] \in ByObject
           /\ Head(frame.left)[2] \in Keys
           /\ Tail(frame.left) \in BlockCalls
           /\ ToSet(Tail(frame.left)) \subseteq ToSet(frame.left) /\ Head(frame.left) \in ToSet(frame.left)
<1> DEFINE Calls == ByObject \X Keys
<1>1. frame.left \in Seq(Calls) /\ BlockCalls = Seq(Calls)
  BY DEF TypeInv, FrameT, FrameRec, BlockCalls
<1>2. /\ Head(frame.left) \in ToSet(frame.left) /\ Tail(frame.left) \in Seq(Calls)
      /\ ToSet(Tail(frame.left)) \subseteq ToSet(frame.left)
  <2> HIDE DEF Calls
  <2>. QED BY <1>1, HeadTail
<1>3. Head(frame.left) \in Calls
  <2> HIDE DEF Calls
  <2>. QED BY <1>1
<1>. QED BY <1>1, <1>2, <1>3

\* A block makes its next call.
LEMMA CallInBlockTypes ==
    ASSUME TypeInv, CallInBlock
    PROVE  TypeInv'
<1>1. /\ frame.left # << >> /\ frame' = [frame EXCEPT !.left = Tail(frame.left)]
      /\ Starts(Head(frame.left)[1], <<Head(frame.left)[2]>>)
  BY DEF CallInBlock
<1>2. PICK op \in ByObject, k \in Keys : op = Head(frame.left)[1] /\ k = Head(frame.left)[2]
  BY <1>1, NextOfBlock
<1>3. op \in Names /\ <<k>> \in Seq(Keys) /\ Starts(op, <<k>>)
  BY <1>1, <1>2 DEF Names
<1>4. SettingT' /\ CountT' /\ SolrT' /\ StackT' /\ CallT'
  BY <1>3, StartsTypes
<1>5. Tail(frame.left) \in BlockCalls
  BY <1>1, NextOfBlock
<1>6. FrameT'
  <2> HIDE DEF BlockCalls
  <2>. QED BY <1>1, <1>5 DEF TypeInv, FrameT, FrameRec
<1>. QED BY <1>4, <1>6 DEF TypeInv

\* Every state is well formed, and its batches are counted.
LEMMA TypesInductive == Spec => [](TypeInv /\ BatchesCounted)
<1>1. Init => TypeInv
  <2> SUFFICES ASSUME Init PROVE TypeInv
    OBVIOUS
  <2>1. /\ wrap \in Wraps /\ sharded \in BOOLEAN /\ clock = 0
        /\ count = [s \in Sessions |-> {}] /\ pending = [s \in Sessions |-> {}]
        /\ stack = << >> /\ call = NoCall /\ frame = NoFrame
        /\ core = [s \in Sessions |-> [k \in Keys |-> 0]] /\ searcher = core
        /\ doubtful = {} /\ unheard = {}
    BY DEF Init
  <2>2. SettingT /\ CountT /\ SolrT
    BY <2>1 DEF SettingT, CountT, SolrT
  <2>3. StackT
    <3> HIDE DEF DocsTo
    <3>. QED BY <2>1 DEF StackT
  <2>4. CallT
    <3>1. << >> \in Seq(Req) /\ << >> \in Seq(Keys)
      OBVIOUS
    <3>2. NoCall \in CallRec /\ NoCall.op = "none" /\ NoCall.todo = << >>
      <4> HIDE DEF Req
      <4>. QED BY <3>1 DEF NoCall, CallRec
    <3>. QED BY <2>1, <3>2 DEF CallT
  <2>5. FrameT
    <3>1. << >> \in BlockCalls
      BY DEF BlockCalls
    <3>. QED BY <2>1, <3>1 DEF NoFrame, FrameRec, FrameT
  <2>. QED BY <2>2, <2>3, <2>4, <2>5 DEF TypeInv
<1>2. TypeInv /\ BatchesCounted /\ [Next]_vars => TypeInv'
  <2> SUFFICES ASSUME TypeInv, BatchesCounted, [Next]_vars PROVE TypeInv'
    OBVIOUS
  <2>1. CASE UNCHANGED vars
    <3>1. UNCHANGED <<wrap, sharded, count, stack, core, searcher, pending, call, frame, clock, doubtful, unheard>>
      BY <2>1 DEF vars, solr
    <3>2. CallT'
      BY <3>1, CallSame DEF TypeInv
    <3>. QED BY <3>1, <3>2 DEF TypeInv, SettingT, CountT, SolrT, StackT, FrameT
  <2>2. ASSUME NEW op \in Ops, NEW list \in Lists \cup {<< >>}, Call(op, list)
        PROVE  TypeInv'
    <3>1. op \in Names /\ Starts(op, list) /\ frame' = frame
      BY <2>2 DEF Call, Names
    <3>2. list \in Seq(Keys)
      BY ListsAreSeqs
    <3>. QED BY <3>1, <3>2, StartsTypes DEF TypeInv, FrameT
  <2>3. ASSUME NEW block \in Blocks, CallBatch(block)
        PROVE  TypeInv'
    BY <2>3, CallBatchTypes
  <2>4. CASE CallInBlock
    BY <2>4, CallInBlockTypes
  <2>5. CASE BatchIndex
    BY <2>5, BatchIndexTypes
  <2>6. CASE SkipCommit
    BY <2>6, SkipTypes
  <2>7. ASSUME NEW o \in Possible,
               \/ SendIndex(o) \/ SendRemove(o) \/ SendRemoveById(o) \/ SendRemoveAll(o)
               \/ SendCommit(o)
        PROVE  TypeInv'
    BY <2>7, SendTypes
  <2>8. ASSUME NEW o \in Possible, SendFlush(o)
        PROVE  TypeInv'
    BY <2>8, FlushTypes
  <2>9. ASSUME NEW error \in Errors, BlockRaises(error)
        PROVE  TypeInv'
    BY <2>9, BlockRaisesTypes
  <2>. QED BY <2>1, <2>2, <2>3, <2>4, <2>5, <2>6, <2>7, <2>8, <2>9 DEF Next, Step
<1>. QED BY <1>1, <1>2, BatchesCountedInductive, PTL DEF Spec

THEOREM TypeCorrect == Spec => []TypeOK
<1>1. TypeInv => TypeOK
  <2> SUFFICES ASSUME TypeInv PROVE TypeOK
    OBVIOUS
  <2>1. call.todo \in Seq(Req) /\ call.tries \in 0 .. 1 /\ frame.tries \in 0 .. 1
    BY DEF TypeInv, CallT, CallRec, FrameT, FrameRec
  <2>2. \A i \in DOMAIN call.todo : call.todo[i].at \in Sessions
    <3>1. \A i \in DOMAIN call.todo : call.todo[i] \in Req
      <4> HIDE DEF Req
      <4>. QED BY <2>1
    <3>. QED BY <3>1 DEF Req
  <2>. QED BY <2>1, <2>2 DEF TypeInv, TypeOK, SettingT, CountT, SolrT, Kinds
<1>. QED BY <1>1, TypesInductive, PTL

\* The code of a block calls nothing that commits at once.
Plain == {"index", "remove", "remove_by_id"}

PlainBlocks == \A b \in Blocks : \A c \in ToSet(b) : c[1] \in Plain

\* Code that does not remove an object after it has indexed it.
Orderly(b) ==
    \A i, j \in DOMAIN b : i < j /\ b[i][1] = "index" /\ b[j][1] # "index" => b[i][2] # b[j][2]

OrderlyBlocks == \A b \in Blocks : Orderly(b)

-----------------------------------------------------------------------------
(* What is pending has been counted, removals by id left out.              *)

PlainCode(b) == \A c \in ToSet(b) : c[1] \in Plain

\* Only a plain session runs a block, and its calls commit nothing.
BlockInv ==
    frame.open => /\ ~sharded /\ PlainCode(frame.left) /\ PlainCode(frame.block)
                  /\ call.op \in Plain \cup {"none"}

CountedInv ==
    /\ \A s \in Sessions : pending[s] # {} => s \in Where
    /\ \A s \in Sessions \ unheard : Countable(s) \subseteq count[s]

\* The documents of the batch are counted before they are sent.
BatchInv == frame.open /\ current(stack) # << >> => "add" \in count[Shards[1]]

DirtyInv == BlockInv /\ CountedInv /\ BatchInv

\* The calls and blocks that a request leaves.
LEMMA RequestLeaves ==
    ASSUME TypeInv, \/ Proceeds
                    \/ \E error : CallFails(error)
    PROVE  call'.op \in {call.op, "none"} /\ frame' = frame
<1>1. call \in CallRec
  BY DEF TypeInv, CallT
<1>2. \/ call' = NoCall
      \/ call' = [call EXCEPT !.todo = Tail(call.todo)]
      \/ call' = Again(call)
  BY DEF Proceeds, CallFails, Raises
<1>3. NoCall.op = "none"
  BY DEF NoCall
<1>4. call'.op \in {call.op, "none"}
  BY <1>1, <1>2, <1>3 DEF Again, CallRec
<1>5. frame' = frame
  BY DEF Proceeds, CallFails
<1>. QED BY <1>4, <1>5

\* A request keeps what is known of the block.
LEMMA BlockKept ==
    ASSUME TypeInv, BlockInv, UNCHANGED sharded,
           \/ Proceeds
           \/ \E error : CallFails(error)
    PROVE  BlockInv'
<1>1. call'.op \in {call.op, "none"} /\ frame' = frame
  BY RequestLeaves
<1>. QED BY <1>1 DEF BlockInv, PlainCode

\* Inside a block no request commits.
LEMMA NoCommitInBlock ==
    ASSUME TypeInv, BlockInv, frame.open
    PROVE  ~Running(Committing) /\ ~Running({"remove_all"})
<1>1. call.op \in Plain \cup {"none"}
  BY DEF BlockInv
<1>2. ASSUME NEW ops, Running(ops)
      PROVE  call.op \in Plain /\ call.op \in ops
  <2>1. /\ call.op \in Names /\ call.args \in Seq(Keys)
        /\ Head(call.todo) \in ToSet(Plan(call.op, call.args)) /\ Head(call.todo).op \in ops
    BY <1>2, NextRequest
  <2>2. call.op # "none"
    BY <1>2 DEF Running, TypeInv, CallT
  <2>3. PICK r : r = Head(call.todo)
    OBVIOUS
  <2>4. r.op \in OpsOf(call.op)
    BY <2>1, <2>3, PlanFacts DEF TypeInv, SettingT
  <2>5. OpsOf(call.op) = {call.op}
    BY <1>1, <2>2 DEF Plain, OpsOf
  <2>. QED BY <1>1, <2>1, <2>2, <2>3, <2>4, <2>5
<1>. QED BY <1>2 DEF Plain, Committing

\* The requests: each counts before it writes, and a commit publishes what it
\* forgets, or is unheard.
LEMMA SendDirty ==
    ASSUME TypeInv, DirtyInv, NEW o \in Possible,
           SendIndex(o) \/ SendRemove(o) \/ SendRemoveById(o) \/ SendRemoveAll(o) \/ SendCommit(o)
    PROVE  DirtyInv'
<1>0. CountT /\ BlockInv /\ CountedInv /\ BatchInv
  BY DEF TypeInv, DirtyInv
<1>1. UNCHANGED <<sharded, stack>>
  BY DEF SendIndex, SendRemove, SendRemoveById, SendRemoveAll, SendCommit
<1>2. \E ops, keys : Running(ops) /\ Continues(o, keys)
  BY DEF SendIndex, SendRemove, SendRemoveById, SendRemoveAll, SendCommit
<1>3. PICK at \in Sessions : at = Head(call.todo).at /\ at \in Where
  BY <1>2, NextRequest
<1>4. BlockInv'
  BY <1>0, <1>1, <1>2, BlockKept DEF Continues
<1>5. Where' = Where
  BY <1>1, PlanSame
<1>6. /\ \A s \in Sessions : s # at => count'[s] = count[s] /\ pending'[s] = pending[s]
      /\ unheard' \cup {at} = unheard \cup {at}
      /\ at \notin unheard' => Countable(at)' \subseteq count'[at]
      /\ count[at] \subseteq count'[at] \/ Running(Committing)
  <2>a. ASSUME NEW kind \in {"add", "delete"}, Counts(at, kind, o)
        PROVE  /\ \A s \in Sessions : s # at => count'[s] = count[s]
               /\ count'[at] = count[at] \cup {kind}
    BY <1>0, <2>a DEF Counts, CountT
  <2>b. ASSUME NEW keys, NEW kind, Deletes(at, keys, kind, o)
        PROVE  /\ \A s \in Sessions : s # at => pending'[s] = pending[s]
               /\ pending'[at] \subseteq pending[at] \cup {kind}
    BY <1>0, <2>b DEF Deletes, CountT
  <2>c. at \notin unheard => pending[at] \ {"remove_by_id"} \subseteq count[at]
    BY <1>0 DEF CountedInv, Countable
  <2>1. CASE SendIndex(o)
    <3>1. /\ Counts(at, "add", o) /\ Adds(at, Docs(Head(call.todo).keys), o) /\ unheard' = unheard
      BY <1>3, <2>1 DEF SendIndex
    <3>2. /\ \A s \in Sessions : s # at => pending'[s] = pending[s]
          /\ pending'[at] \subseteq pending[at] \cup {"add"}
      BY <1>0, <3>1 DEF Adds, CountT
    <3>. QED BY <2>a, <2>c, <3>1, <3>2 DEF Countable
  <2>2. CASE SendRemove(o)
    <3>1. /\ Counts(at, "delete", o) /\ \E keys : Deletes(at, keys, "delete", o) /\ unheard' = unheard
      BY <1>3, <2>2 DEF SendRemove
    <3>. QED BY <2>a, <2>b, <2>c, <3>1 DEF Countable
  <2>3. CASE SendRemoveById(o)
    <3>1. /\ count' = count /\ \E keys : Deletes(at, keys, "remove_by_id", o) /\ unheard' = unheard
      BY <1>3, <2>3 DEF SendRemoveById
    <3>. QED BY <2>b, <2>c, <3>1 DEF Countable
  <2>4. CASE SendRemoveAll(o)
    <3>1. /\ Counts(at, "delete", o) /\ Deletes(at, Keys, "delete", o) /\ unheard' = unheard
      BY <1>3, <2>4 DEF SendRemoveAll
    <3>. QED BY <2>a, <2>b, <2>c, <3>1 DEF Countable
  <2>5. CASE SendCommit(o)
    <3>1. Commits(at, o) /\ Running(Committing)
      BY <1>3, <2>5 DEF SendCommit
    <3>2. \A s \in Sessions : s # at => count'[s] = count[s] /\ pending'[s] = pending[s]
      BY <1>0, <3>1 DEF Commits, CountT
    <3>3. \/ unheard' = unheard \ {at} /\ pending'[at] = {}
          \/ unheard' = unheard \cup {at}
      BY <1>0, <3>1 DEF Commits, CountT
    <3>. QED BY <3>1, <3>2, <3>3 DEF Countable
  <2>. QED BY <2>1, <2>2, <2>3, <2>4, <2>5
<1>7. CountedInv'
  <2>1. ASSUME NEW s \in Sessions, pending'[s] # {} PROVE s \in Where
    <3>1. CASE s = at
      BY <1>3, <3>1
    <3>2. CASE s # at
      BY <1>0, <1>6, <2>1, <3>2 DEF CountedInv
    <3>. QED BY <3>1, <3>2
  <2>2. ASSUME NEW s \in Sessions, s \notin unheard' PROVE Countable(s)' \subseteq count'[s]
    <3>1. CASE s = at
      BY <1>6, <2>2, <3>1
    <3>2. CASE s # at
      <4>1. s \notin unheard
        BY <1>6, <2>2, <3>2
      <4>. QED BY <1>0, <1>6, <3>2, <4>1 DEF CountedInv, Countable
    <3>. QED BY <3>1, <3>2
  <2>. QED BY <1>5, <2>1, <2>2 DEF CountedInv
<1>8. BatchInv'
  <2> SUFFICES ASSUME frame'.open, current(stack') # << >> PROVE "add" \in count'[Shards[1]]
    BY DEF BatchInv
  <2>1. frame' = frame
    BY <1>2, RequestLeaves DEF Continues
  <2>2. "add" \in count[Shards[1]] /\ ~Running(Committing)
    BY <1>0, <1>1, <2>1, NoCommitInBlock DEF BatchInv
  <2>3. Shards[1] \in Sessions
    BY ShardsAssumption DEF Sessions
  <2>. QED BY <1>6, <2>2, <2>3
<1>. QED BY <1>4, <1>7, <1>8 DEF DirtyInv

\* The batch is counted when it is filled.
LEMMA BatchIndexDirty ==
    ASSUME TypeInv, BatchesCounted, DirtyInv, BatchIndex
    PROVE  DirtyInv'
<1>0. CountT /\ BlockInv /\ CountedInv /\ BatchInv
  BY DEF TypeInv, DirtyInv
<1>1. /\ Running({"index"}) /\ Proceeds
      /\ count' = [count EXCEPT ![Head(call.todo).at] = @ \cup {"add"}]
      /\ UNCHANGED <<sharded, pending, unheard>>
  BY DEF BatchIndex, solr
<1>2. BlockInv' /\ Where' = Where
  BY <1>0, <1>1, BlockKept, PlanSame
<1>3. PICK at \in Sessions : at = Head(call.todo).at /\ at \in Where
  BY <1>1, NextRequest
<1>4. /\ \A s \in Sessions : count[s] \subseteq count'[s]
      /\ "add" \in count'[at]
  BY <1>0, <1>1, <1>3 DEF CountT
<1>5. CountedInv'
  BY <1>0, <1>1, <1>2, <1>4 DEF CountedInv, Countable
<1>6. BatchInv'
  <2> SUFFICES ASSUME frame'.open PROVE "add" \in count'[Shards[1]]
    BY DEF BatchInv
  <2>1. ~sharded
    BY <1>0, <1>1, RequestLeaves DEF BlockInv
  <2>2. at = Shards[1]
    BY <1>3, <2>1, WhereSessions DEF TypeInv, SettingT
  <2>. QED BY <1>4, <2>2
<1>. QED BY <1>2, <1>5, <1>6 DEF DirtyInv

\* A commit that nothing is due for.
LEMMA SkipDirty ==
    ASSUME TypeInv, DirtyInv, SkipCommit
    PROVE  DirtyInv'
<1>1. Proceeds /\ UNCHANGED <<sharded, count, stack, pending, unheard>>
  BY DEF SkipCommit, solr
<1>2. BlockInv' /\ Where' = Where
  BY <1>1, BlockKept, PlanSame DEF DirtyInv
<1>3. frame' = frame
  BY <1>1, RequestLeaves
<1>. QED BY <1>1, <1>2, <1>3 DEF DirtyInv, CountedInv, BatchInv, Countable

\* The batch of a block that begins is empty.
LEMMA EmptyBatch ==
    ASSUME NEW s, IsSequence(s)
    PROVE  current(start_new(s)) = << >>
<1>1. PICK S : s \in Seq(S)
  BY DEF IsSequence
<1>2. s \in Seq(S \cup {<< >>})
  BY <1>1
<1>. QED BY <1>2 DEF start_new, current

\* The batch is sent: it was counted when it was filled.
LEMMA FlushDirty ==
    ASSUME TypeInv, BatchesCounted, DirtyInv, NEW o \in Possible, SendFlush(o)
    PROVE  DirtyInv'
<1>0. CountT /\ BlockInv /\ CountedInv /\ BatchInv /\ frame \in FrameRec
  BY DEF TypeInv, DirtyInv, FrameT
<1>1. /\ frame.open /\ Adds(Shards[1], current(stack), o)
      /\ UNCHANGED <<sharded, count, call, unheard>>
      /\ \/ /\ stack' = start_new(end_current(stack))
            /\ frame' = [frame EXCEPT !.left = frame.block, !.tries = 1]
         \/ frame' = NoFrame
  BY DEF SendFlush
<1>2. Where' = Where /\ Shards[1] \in Sessions /\ Shards[1] \in Where
  <2>1. Where = {Shards[1]}
    BY <1>0, <1>1, WhereSessions DEF BlockInv, TypeInv, SettingT
  <2>. QED BY <1>1, <2>1, PlanSame, ShardsAssumption DEF Sessions
<1>3. CountedInv'
  <2>1. /\ \A s \in Sessions : s # Shards[1] => pending'[s] = pending[s]
        /\ \/ pending'[Shards[1]] = pending[Shards[1]]
           \/ /\ pending'[Shards[1]] = pending[Shards[1]] \cup {"add"}
              /\ "add" \in count[Shards[1]]
    BY <1>0, <1>1, <1>2 DEF Adds, BatchInv, CountT
  <2>2. /\ \A s \in Sessions : s # Shards[1] => Countable(s)' = Countable(s)
        /\ Countable(Shards[1])' \subseteq Countable(Shards[1]) \cup count[Shards[1]]
    BY <2>1 DEF Countable
  <2>3. ASSUME NEW s \in Sessions, s \notin unheard' PROVE Countable(s)' \subseteq count'[s]
    BY <1>0, <1>1, <2>2, <2>3 DEF CountedInv
  <2>4. ASSUME NEW s \in Sessions, pending'[s] # {} PROVE s \in Where'
    BY <1>0, <1>2, <2>1, <2>4 DEF CountedInv
  <2>. QED BY <2>3, <2>4 DEF CountedInv
<1>4. NoFrame.open = FALSE
  BY DEF NoFrame
<1>5. CASE frame' = NoFrame
  BY <1>3, <1>4, <1>5 DEF DirtyInv, BlockInv, BatchInv
<1>6. CASE /\ stack' = start_new(end_current(stack))
           /\ frame' = [frame EXCEPT !.left = frame.block, !.tries = 1]
  <2>1. frame'.open = frame.open /\ frame'.left = frame.block /\ frame'.block = frame.block
    BY <1>0, <1>6 DEF FrameRec
  <2>2. BlockInv'
    BY <1>0, <1>1, <2>1 DEF BlockInv, PlainCode
  <2>3. current(stack') = << >>
    <3>1. depth(stack) > 0
      BY <1>1, BatchOfBlock DEF depth
    <3>2. IsSequence(end_current(stack))
      BY <3>1, EndRemoves DEF BatchesCounted
    <3>. QED BY <1>6, <3>2, EmptyBatch
  <2>4. BatchInv'
    BY <2>3 DEF BatchInv, current
  <2>. QED BY <1>3, <2>2, <2>4 DEF DirtyInv
<1>. QED BY <1>1, <1>5, <1>6

\* A run of the block is left by an exception: another one begins with an empty
\* batch.
LEMMA BlockRaisesDirty ==
    ASSUME TypeInv, BatchesCounted, DirtyInv, NEW error, BlockRaises(error)
    PROVE  DirtyInv'
<1>0. BlockInv /\ CountedInv /\ frame \in FrameRec
  BY DEF TypeInv, DirtyInv, FrameT
<1>1. /\ frame.open /\ UNCHANGED <<sharded, count, pending, call, unheard>>
      /\ \/ /\ stack' = start_new(stack)
            /\ frame' = [frame EXCEPT !.left = frame.block, !.tries = 1]
         \/ frame' = NoFrame
  BY DEF BlockRaises, solr
<1>2. CountedInv'
  BY <1>0, <1>1, PlanSame DEF CountedInv, Countable
<1>3. CASE frame' = NoFrame
  <2>1. frame'.open = FALSE
    BY <1>3 DEF NoFrame
  <2>. QED BY <1>2, <2>1 DEF DirtyInv, BlockInv, BatchInv
<1>4. CASE /\ stack' = start_new(stack)
           /\ frame' = [frame EXCEPT !.left = frame.block, !.tries = 1]
  <2>1. frame'.open = frame.open /\ frame'.left = frame.block /\ frame'.block = frame.block
    BY <1>0, <1>4 DEF FrameRec
  <2>2. BlockInv'
    BY <1>0, <1>1, <2>1 DEF BlockInv, PlainCode
  <2>3. current(stack') = << >>
    BY <1>4, EmptyBatch DEF BatchesCounted
  <2>4. BatchInv'
    BY <2>3 DEF BatchInv, current
  <2>. QED BY <1>2, <2>2, <2>4 DEF DirtyInv
<1>. QED BY <1>1, <1>3, <1>4

\* A block begins.
LEMMA CallBatchDirty ==
    ASSUME PlainBlocks, TypeInv, BatchesCounted, DirtyInv, NEW block \in Blocks, CallBatch(block)
    PROVE  DirtyInv'
<1>1. /\ call.op = "none" /\ ~sharded
      /\ frame' = [open |-> TRUE, block |-> block, left |-> block, tries |-> 0]
      /\ stack' = start_new(stack)
      /\ UNCHANGED <<sharded, count, pending, call, unheard>>
  BY DEF CallBatch, solr
<1>2. frame'.open /\ frame'.left = block /\ frame'.block = block
  BY <1>1
<1>3. BlockInv'
  BY <1>1, <1>2 DEF BlockInv, PlainBlocks, PlainCode
<1>4. current(stack') = << >>
  BY <1>1, EmptyBatch DEF BatchesCounted
<1>5. BatchInv'
  BY <1>4 DEF BatchInv, current
<1>6. CountedInv'
  BY <1>1, PlanSame DEF DirtyInv, CountedInv, Countable
<1>. QED BY <1>3, <1>5, <1>6 DEF DirtyInv

\* A block makes its next call.
LEMMA CallInBlockDirty ==
    ASSUME TypeInv, DirtyInv, CallInBlock
    PROVE  DirtyInv'
<1>1. /\ frame.open /\ frame.left # << >> /\ frame' = [frame EXCEPT !.left = Tail(frame.left)]
      /\ call'.op = Head(frame.left)[1]
      /\ UNCHANGED <<sharded, count, stack, pending, unheard>>
  BY DEF CallInBlock, Starts, solr
<1>2. frame \in FrameRec /\ BlockInv
  BY DEF TypeInv, FrameT, DirtyInv
<1>3. frame'.open = frame.open /\ frame'.left = Tail(frame.left) /\ frame'.block = frame.block
  BY <1>1, <1>2 DEF FrameRec
<1>4. BlockInv'
  <2>1. /\ Head(frame.left) \in ToSet(frame.left)
        /\ ToSet(Tail(frame.left)) \subseteq ToSet(frame.left)
    BY <1>1, NextOfBlock
  <2>2. Head(frame.left)[1] \in Plain
    BY <1>1, <1>2, <2>1 DEF BlockInv, PlainCode
  <2>. QED BY <1>1, <1>2, <1>3, <2>1, <2>2 DEF BlockInv, PlainCode
<1>5. Where' = Where
  BY <1>1, PlanSame
<1>. QED BY <1>1, <1>3, <1>4, <1>5 DEF DirtyInv, CountedInv, BatchInv, Countable

\* What is pending and has to be counted has been counted in every state.
LEMMA DirtyInductive ==
    ASSUME PlainBlocks
    PROVE  Spec => [](TypeInv /\ BatchesCounted /\ DirtyInv)
<1>1. Init => DirtyInv
  <2> SUFFICES ASSUME Init PROVE DirtyInv
    OBVIOUS
  <2>1. pending = [s \in Sessions |-> {}] /\ frame = NoFrame
    BY DEF Init
  <2>2. frame.open = FALSE
    BY <2>1 DEF NoFrame
  <2>. QED BY <2>1, <2>2 DEF DirtyInv, BlockInv, CountedInv, BatchInv, Countable
<1>2. TypeInv /\ BatchesCounted /\ DirtyInv /\ [Next]_vars => DirtyInv'
  <2> SUFFICES ASSUME TypeInv, BatchesCounted, DirtyInv, [Next]_vars PROVE DirtyInv'
    OBVIOUS
  <2>1. ASSUME UNCHANGED <<sharded, count, stack, pending, unheard, frame>>,
               call'.op = call.op \/ ~frame.open
        PROVE  DirtyInv'
    BY <2>1, PlanSame DEF DirtyInv, BlockInv, CountedInv, BatchInv, Countable
  <2>2. CASE UNCHANGED vars
    BY <2>1, <2>2 DEF vars, solr
  <2>3. ASSUME NEW op \in Ops, NEW list \in Lists \cup {<< >>}, Call(op, list)
        PROVE  DirtyInv'
    BY <2>1, <2>3 DEF Call, Starts, solr
  <2>4. ASSUME NEW block \in Blocks, CallBatch(block)
        PROVE  DirtyInv'
    BY <2>4, CallBatchDirty
  <2>5. CASE CallInBlock
    BY <2>5, CallInBlockDirty
  <2>6. CASE BatchIndex
    BY <2>6, BatchIndexDirty
  <2>7. CASE SkipCommit
    BY <2>7, SkipDirty
  <2>8. ASSUME NEW o \in Possible,
               \/ SendIndex(o) \/ SendRemove(o) \/ SendRemoveById(o) \/ SendRemoveAll(o)
               \/ SendCommit(o)
        PROVE  DirtyInv'
    BY <2>8, SendDirty
  <2>9. ASSUME NEW o \in Possible, SendFlush(o)
        PROVE  DirtyInv'
    BY <2>9, FlushDirty
  <2>10. ASSUME NEW error \in Errors, BlockRaises(error)
         PROVE  DirtyInv'
    BY <2>10, BlockRaisesDirty
  <2>. QED BY <2>2, <2>3, <2>4, <2>5, <2>6, <2>7, <2>8, <2>9, <2>10 DEF Next, Step
<1>. QED BY <1>1, <1>2, TypesInductive, PTL DEF Spec

\* sunspot.rb, dirty?, over all shards and all tries: when no block of a batch
\* commits at once, an addition, or a removal by object or of everything, that some
\* shard holds unpublished leaves the proxy dirty, whatever failed between two
\* shards.  Removals by id, which no session counts, and what a refused commit left
\* behind are not claimed.
THEOREM DirtyIsSound ==
    ASSUME PlainBlocks
    PROVE  Spec => []ProxyDirtySound
<1>1. CountedInv => ProxyDirtySound
  <2> SUFFICES ASSUME CountedInv, NEW s \in Sessions \ unheard, Countable(s) # {} PROVE Dirty
    BY DEF ProxyDirtySound
  <2>1. s \in Where /\ count[s] # {}
    BY DEF CountedInv, Countable
  <2>. QED BY <2>1 DEF Where, ToSet, Dirty
<1>. QED BY <1>1, DirtyInductive, PTL DEF DirtyInv

-----------------------------------------------------------------------------
(* What a commit has published.                                            *)

LastT == last \in [op : Names \cup {"none", "batch"}, ended : {"ok", "ignored", "raised"},
                   tries : 0 .. 1, blind : SUBSET Sessions]

\* A call that must publish what is due: made once if it looks at its counters.
Publishing(op, tries) == op = "commit" \/ (op \in Committing /\ tries = 0)

Published(op, s) ==
    CASE op = "commit_if_delete_dirty" -> "delete" \notin pending[s]
      [] op = "commit_if_dirty" -> Countable(s) = {}
      [] OTHER -> pending[s] = {}

Spared(op) == IF op = "commit" THEN {} ELSE last.blind

RunningInv ==
    Publishing(call.op, call.tries) =>
        /\ call.op # "commit" => unheard \subseteq last.blind
        /\ \A s \in Where \ Spared(call.op) :
             Published(call.op, s) \/ \E r \in ToSet(call.todo) : r.at = s

EndedInv ==
    Between /\ last.ended = "ok" /\ Publishing(last.op, last.tries) =>
        \A s \in Sessions \ Spared(last.op) : Published(last.op, s)

PublishInv == LastT /\ RunningInv /\ EndedInv

\* The requests of a conditional or unconditional commit are of its kind.
LEMMA CommitRequests ==
    ASSUME TypeInv, NEW ops, Running(ops), call.op \in Committing
    PROVE  Head(call.todo).op = call.op /\ call.op \in ops
<1>1. /\ call.op \in Names /\ call.args \in Seq(Keys)
      /\ Head(call.todo) \in ToSet(Plan(call.op, call.args)) /\ Head(call.todo).op \in ops
  BY NextRequest
<1>2. PICK r : r = Head(call.todo)
  OBVIOUS
<1>3. r.op \in OpsOf(call.op)
  BY <1>1, <1>2, PlanFacts DEF TypeInv, SettingT
<1>4. OpsOf(call.op) = {call.op}
  BY DEF Committing, OpsOf
<1>. QED BY <1>1, <1>2, <1>3, <1>4

\* What a request that went well has to leave behind.
Progress(op) ==
    /\ op # "commit" => unheard' \subseteq last.blind
    /\ \A s \in Where \ Spared(op) :
         Published(op, s)' \/ \E r \in ToSet(Tail(call.todo)) : r.at = s

\* The record of a call that ended.
LEMMA LastTyped ==
    ASSUME TypeInv, LastT, NEW how \in {"ok", "ignored", "raised"}, Ended(how)
    PROVE  LastT' /\ last'.op = call.op /\ last'.ended = how /\ last'.tries = call.tries
           /\ last'.blind = last.blind
<1>1. call.op \in Names \cup {"none"} /\ call.tries \in 0 .. 1
  BY DEF TypeInv, CallT, CallRec
<1>2. PICK op \in Names \cup {"none", "batch"}, tries \in 0 .. 1 : op = call.op /\ tries = call.tries
  BY <1>1
<1>3. last' = [last EXCEPT !.op = op, !.ended = how, !.tries = tries]
  BY <1>2 DEF Ended
<1>4. \A T : \A n \in T, l \in [op : Names \cup {"none", "batch"}, ended : {"ok", "ignored", "raised"},
                   tries : T, blind : SUBSET Sessions] :
        LET new == [l EXCEPT !.op = op, !.ended = how, !.tries = n]
        IN  /\ new \in [op : Names \cup {"none", "batch"}, ended : {"ok", "ignored", "raised"},
                        tries : T, blind : SUBSET Sessions]
            /\ new.op = op /\ new.ended = how /\ new.tries = n /\ new.blind = l.blind
  OBVIOUS
<1>. QED BY <1>2, <1>3, <1>4 DEF LastT

\* Progress is all that a request has to make.
LEMMA PublishedAfter ==
    ASSUME TypeInv, PublishInv, NEW ops, Running(ops), UNCHANGED sharded,
           \A s \in Sessions : pending'[s] # {} => s \in Where,
           pending' \in [Sessions -> SUBSET Kinds],
           \/ Proceeds /\ \A op \in Names : op = call.op /\ Publishing(op, call.tries) => Progress(op)
           \/ \E error : CallFails(error)
    PROVE  PublishInv'
<1>0. LastT /\ RunningInv /\ call \in CallRec
  BY DEF PublishInv, TypeInv, CallT
<1>1. /\ call.todo # << >> /\ call.op \in Names /\ call.args \in Seq(Keys)
      /\ call.plan = Plan(call.op, call.args) /\ call.op # "none" /\ call.todo \in Seq(Req)
      /\ call.tries \in 0 .. 1
  BY <1>0, NextRequest DEF Running, TypeInv, CallT, CallRec
<1>2. PICK op \in Names : op = call.op
  BY <1>1
<1>3. ~Publishing("none", 0) /\ NoCall.op = "none" /\ NoCall.tries = 0
  BY DEF Publishing, Committing, NoCall
<1>4. Where' = Where
  BY PlanSame
<1>5. \/ call' = Again(call) /\ call.tries = 0 /\ last' = last
      \/ call' = NoCall /\ (Ended("ignored") \/ Ended("raised"))
      \/ Proceeds /\ (Publishing(op, call.tries) => Progress(op))
  BY <1>2 DEF CallFails, Raises, Retries
<1>6. CASE call' = Again(call) /\ call.tries = 0 /\ last' = last
  <2>1. call'.op = op /\ call'.todo = call.plan /\ call'.tries = 1
    <3>1. call = [op |-> call.op, args |-> call.args, plan |-> call.plan,
                  todo |-> call.todo, tries |-> call.tries]
      BY <1>0 DEF CallRec
    <3>2. call.tries + 1 = 1
      BY <1>6
    <3>. QED BY <1>2, <1>6, <3>1, <3>2 DEF Again
  <2>2. op = "commit" => \A s \in Where : \E r \in ToSet(call.plan) : r.at = s
    <3>1. op = "commit" => op \in ByShard
      BY DEF ByShard
    <3>. QED BY <1>1, <1>2, <3>1, PlanCovers DEF TypeInv, SettingT
  <2>3. RunningInv'
    BY <1>4, <2>1, <2>2 DEF RunningInv, Publishing
  <2>4. EndedInv'
    BY <1>1, <1>2, <2>1 DEF EndedInv, Between
  <2>. QED BY <1>0, <1>6, <2>3, <2>4 DEF PublishInv, LastT
<1>7. CASE call' = NoCall /\ (Ended("ignored") \/ Ended("raised"))
  <2>1. LastT' /\ last'.ended # "ok"
    BY <1>0, <1>7, LastTyped
  <2>. QED BY <1>3, <1>7, <2>1 DEF PublishInv, RunningInv, EndedInv
<1>8. CASE Proceeds /\ (Publishing(op, call.tries) => Progress(op))
  <2>0. /\ ToSet(Tail(call.todo)) = {} \/ Len(call.todo) > 1
        /\ Tail(call.todo) \in Seq(Req)
    <3> HIDE DEF Req
    <3>. QED BY <1>1, HeadTail
  <2>1. CASE Len(call.todo) > 1
    <3>1. call' = [call EXCEPT !.todo = Tail(call.todo)] /\ last' = last
      BY <1>8, <2>1 DEF Proceeds
    <3>2. call'.op = op /\ call'.tries = call.tries /\ call'.todo = Tail(call.todo)
      BY <1>0, <1>2, <3>1 DEF CallRec
    <3>3. RunningInv'
      <4>1. Publishing(call.op, call.tries)' = Publishing(op, call.tries)
        BY <3>2 DEF Publishing
      <4>2. SUFFICES ASSUME Progress(op) PROVE RunningInv'
        BY <1>2, <1>8, <4>1 DEF RunningInv
      <4>3. Spared(op)' = Spared(op)
        BY <3>1 DEF Spared
      <4>4. \A s : Published(call.op, s)' = Published(op, s)'
        BY <3>2 DEF Published, Countable
      <4>5. Spared(call.op)' = Spared(op)
        BY <3>2, <4>3 DEF Spared
      <4>. QED BY <1>4, <3>1, <3>2, <4>2, <4>4, <4>5 DEF RunningInv, Progress
    <3>4. EndedInv'
      BY <1>1, <1>2, <3>2 DEF EndedInv, Between
    <3>. QED BY <1>0, <3>1, <3>3, <3>4 DEF PublishInv, LastT
  <2>2. CASE ~(Len(call.todo) > 1)
    <3>1. call' = NoCall /\ Ended("ok")
      BY <1>8, <2>2 DEF Proceeds
    <3>2. LastT' /\ last'.op = op /\ last'.tries = call.tries /\ last'.blind = last.blind
      BY <1>0, <1>2, <3>1, LastTyped
    <3>3. EndedInv'
      <4>1. SUFFICES ASSUME Publishing(op, call.tries), NEW s \in Sessions, s \notin Spared(op)
                     PROVE  Published(op, s)'
        BY <3>2 DEF EndedInv, Publishing, Spared, Published, Countable
      <4>2. CASE s \in Where
        BY <1>2, <1>8, <2>0, <2>2, <4>1, <4>2 DEF Progress
      <4>3. CASE s \notin Where
        BY <4>3 DEF Published, Countable
      <4>. QED BY <4>2, <4>3
    <3>. QED BY <1>3, <3>1, <3>2, <3>3 DEF PublishInv, RunningInv
  <2>. QED BY <2>1, <2>2
<1>. QED BY <1>5, <1>6, <1>7, <1>8

\* Possible outcomes: what went well was applied.
LEMMA PossibleOutcomes ==
    ASSUME NEW o \in Possible
    PROVE  o.error = "none" => o.applied
  BY DEF Possible, Outcomes

\* The requests: only a commit counts here, and it publishes its shard.
LEMMA SendPublish ==
    ASSUME TypeInv, BatchesCounted, DirtyInv, PublishInv, DirtyInv', TypeInv', NEW o \in Possible,
           SendIndex(o) \/ SendRemove(o) \/ SendRemoveById(o) \/ SendRemoveAll(o) \/ SendCommit(o)
    PROVE  PublishInv'
<1>1. UNCHANGED sharded
  BY DEF SendIndex, SendRemove, SendRemoveById, SendRemoveAll, SendCommit
<1>2. PICK ops, keys : Running(ops) /\ Continues(o, keys)
  BY DEF SendIndex, SendRemove, SendRemoveById, SendRemoveAll, SendCommit
<1>3. /\ \A s \in Sessions : pending'[s] # {} => s \in Where
      /\ pending' \in [Sessions -> SUBSET Kinds]
  <2>1. Where' = Where
    BY <1>1, PlanSame
  <2>. QED BY <2>1 DEF DirtyInv, CountedInv, TypeInv, CountT
<1>4. ASSUME Proceeds, o.error = "none", NEW op \in Names, op = call.op, Publishing(op, call.tries)
      PROVE  Progress(op)
  <2>1. call.op \in Committing
    BY <1>4 DEF Publishing, Committing
  <2>2. \A any : Running(any) => call.op \in any
    BY <2>1, CommitRequests
  <2>3. SendCommit(o)
    BY <2>1, <2>2 DEF SendIndex, SendRemove, SendRemoveById, SendRemoveAll, Committing
  <2>4. PICK at \in Sessions : at = Head(call.todo).at
    BY <1>2, NextRequest
  <2>5. Commits(at, o) /\ o.applied
    BY <1>4, <2>3, <2>4, PossibleOutcomes DEF SendCommit
  <2>6. /\ pending' = [pending EXCEPT ![at] = {}] /\ unheard' = unheard \ {at}
        /\ pending \in [Sessions -> SUBSET Kinds]
    BY <2>5 DEF Commits, TypeInv, CountT
  <2>7. op # "commit" => unheard' \subseteq last.blind
    BY <1>4, <2>6 DEF PublishInv, RunningInv
  <2>8. ToSet(call.todo) = {Head(call.todo)} \cup ToSet(Tail(call.todo))
    <3>1. call.todo \in Seq(Req) /\ call.todo # << >>
      BY <1>2, NextRequest DEF TypeInv, CallT, CallRec
    <3>. QED BY <3>1, HeadTail DEF Req
  <2>9. ASSUME NEW s \in Where, s \notin Spared(op)
        PROVE  Published(op, s)' \/ \E r \in ToSet(Tail(call.todo)) : r.at = s
    <3>0. s \in Sessions
      BY WhereSessions DEF TypeInv, SettingT
    <3>1. CASE s = at
      BY <2>6, <3>0, <3>1 DEF Published, Countable
    <3>2. CASE s # at
      <4>1. Published(op, s) \/ \E r \in ToSet(call.todo) : r.at = s
        BY <1>4, <2>9 DEF PublishInv, RunningInv
      <4>2. pending'[s] = pending[s]
        BY <2>6, <3>0, <3>2
      <4>3. Published(op, s) => Published(op, s)'
        BY <4>2 DEF Published, Countable
      <4>. QED BY <2>4, <2>8, <3>2, <4>1, <4>3
    <3>. QED BY <3>1, <3>2
  <2>. QED BY <2>7, <2>9 DEF Progress
<1>5. \/ Proceeds /\ \A op \in Names : op = call.op /\ Publishing(op, call.tries) => Progress(op)
      \/ \E error : CallFails(error)
  BY <1>2, <1>4 DEF Continues
<1>. QED BY <1>1, <1>2, <1>3, <1>5, PublishedAfter

\* A commit that is skipped has nothing to publish.
LEMMA SkipPublish ==
    ASSUME TypeInv, DirtyInv, PublishInv, SkipCommit
    PROVE  PublishInv'
<1>1. /\ Running(Committing) /\ Proceeds /\ ~Due(Head(call.todo).op, Head(call.todo).at)
      /\ UNCHANGED <<sharded, pending, unheard>>
  BY DEF SkipCommit, solr
<1>2. ASSUME NEW op \in Names, op = call.op, Publishing(op, call.tries)
      PROVE  Progress(op)
  <2>1. call.op \in Committing
    BY <1>2 DEF Publishing, Committing
  <2>2. Head(call.todo).op = op
    BY <1>1, <1>2, <2>1, CommitRequests
  <2>3. PICK at \in Sessions : at = Head(call.todo).at
    BY <1>1, NextRequest
  <2>4. /\ op = "commit_if_dirty" => count[at] = {}
        /\ op = "commit_if_delete_dirty" => "delete" \notin count[at]
        /\ op # "commit"
    BY <1>1, <1>2, <2>1, <2>2, <2>3 DEF Due, Committing
  <2>5. unheard' \subseteq last.blind
    BY <1>1, <1>2, <2>4 DEF PublishInv, RunningInv
  <2>6. ToSet(call.todo) = {Head(call.todo)} \cup ToSet(Tail(call.todo))
    <3>1. call.todo \in Seq(Req) /\ call.todo # << >>
      BY <1>1, NextRequest DEF TypeInv, CallT, CallRec
    <3>. QED BY <3>1, HeadTail DEF Req
  <2>7. ASSUME NEW s \in Where, s \notin Spared(op)
        PROVE  Published(op, s)' \/ \E r \in ToSet(Tail(call.todo)) : r.at = s
    <3>0. s \in Sessions
      BY WhereSessions DEF TypeInv, SettingT
    <3>1. CASE s = at
      <4>1. s \notin unheard
        BY <1>1, <2>4, <2>5, <2>7 DEF Spared
      <4>2. Countable(s) \subseteq count[s]
        BY <3>0, <4>1 DEF DirtyInv, CountedInv
      <4>3. Published(op, s)
        BY <1>2, <2>1, <2>4, <3>1, <4>2 DEF Published, Countable, Committing
      <4>. QED BY <1>1, <4>3 DEF Published, Countable
    <3>2. CASE s # at
      <4>1. Published(op, s) \/ \E r \in ToSet(call.todo) : r.at = s
        BY <1>2, <2>7 DEF PublishInv, RunningInv
      <4>2. Published(op, s) => Published(op, s)'
        BY <1>1 DEF Published, Countable
      <4>. QED BY <2>3, <2>6, <3>2, <4>1, <4>2
    <3>. QED BY <3>1, <3>2
  <2>. QED BY <2>5, <2>7 DEF Progress
<1>3. /\ \A s \in Sessions : pending'[s] # {} => s \in Where
      /\ pending' \in [Sessions -> SUBSET Kinds]
  BY <1>1 DEF DirtyInv, CountedInv, TypeInv, CountT
<1>. QED BY <1>1, <1>2, <1>3, PublishedAfter

\* Documents that go to the batch.
LEMMA BatchIndexPublish ==
    ASSUME TypeInv, DirtyInv, PublishInv, BatchIndex
    PROVE  PublishInv'
<1>1. Running({"index"}) /\ Proceeds /\ UNCHANGED <<sharded, pending>>
  BY DEF BatchIndex, solr
<1>2. call.op \notin Committing
  BY <1>1, CommitRequests DEF Committing
<1>3. \A op \in Names : op = call.op /\ Publishing(op, call.tries) => Progress(op)
  BY <1>2 DEF Publishing, Committing
<1>4. /\ \A s \in Sessions : pending'[s] # {} => s \in Where
      /\ pending' \in [Sessions -> SUBSET Kinds]
  BY <1>1 DEF DirtyInv, CountedInv, TypeInv, CountT
<1>. QED BY <1>1, <1>3, <1>4, PublishedAfter

\* A call begins.
LEMMA StartsPublish ==
    ASSUME TypeInv, PublishInv, NEW op \in Names, NEW list \in Seq(Keys), Starts(op, list)
    PROVE  PublishInv'
<1>1. /\ call' = [op |-> op, args |-> list, plan |-> Plan(op, list), todo |-> Plan(op, list), tries |-> 0]
      /\ last' = [last EXCEPT !.blind = unheard] /\ UNCHANGED <<sharded, unheard>>
  BY DEF Starts
<1>2. unheard \subseteq Sessions /\ LastT
  BY DEF TypeInv, CountT, PublishInv
<1>3. LastT' /\ last'.blind = unheard'
  BY <1>1, <1>2 DEF LastT
<1>4. call'.op = op /\ call'.todo = Plan(op, list) /\ op # "none"
  BY <1>1 DEF Names, ByObject, ByShard
<1>5. Where' = Where
  BY <1>1, PlanSame
<1>6. RunningInv'
  <2>1. SUFFICES ASSUME op \in Committing PROVE \A s \in Where : \E r \in ToSet(Plan(op, list)) : r.at = s
    BY <1>3, <1>4, <1>5 DEF RunningInv, Publishing, Committing
  <2>2. op \in ByShard
    BY <2>1 DEF Committing, ByShard
  <2>. QED BY <2>2, PlanCovers DEF TypeInv, SettingT
<1>7. EndedInv'
  BY <1>4 DEF EndedInv, Between
<1>. QED BY <1>3, <1>6, <1>7 DEF PublishInv

\* The batch is sent.
LEMMA FlushPublish ==
    ASSUME TypeInv, PublishInv, NEW o \in Possible, SendFlush(o)
    PROVE  PublishInv'
<1>1. /\ call.op = "none" /\ call' = call
      /\ last' = [last EXCEPT !.op = "batch", !.tries = frame.tries,
                       !.ended = IF o.error = "none" THEN "ok"
                                 ELSE IF Ignores(o.error) THEN "ignored" ELSE "raised"]
  BY DEF SendFlush
<1>2. PICK how \in {"ok", "ignored", "raised"} : how = IF o.error = "none" THEN "ok"
                                 ELSE IF Ignores(o.error) THEN "ignored" ELSE "raised"
  OBVIOUS
<1>3. PICK tries \in 0 .. 1 : tries = frame.tries
  BY DEF TypeInv, FrameT, FrameRec
<1>4. last' = [last EXCEPT !.op = "batch", !.tries = tries, !.ended = how]
  BY <1>1, <1>2, <1>3
<1>5. \A T : \A n \in T, l \in [op : Names \cup {"none", "batch"}, ended : {"ok", "ignored", "raised"},
                   tries : T, blind : SUBSET Sessions] :
        LET new == [l EXCEPT !.op = "batch", !.tries = n, !.ended = how]
        IN  /\ new \in [op : Names \cup {"none", "batch"}, ended : {"ok", "ignored", "raised"},
                        tries : T, blind : SUBSET Sessions]
            /\ new.op = "batch"
  OBVIOUS
<1>6. LastT' /\ last'.op = "batch"
  BY <1>4, <1>5 DEF PublishInv, LastT
<1>7. RunningInv'
  BY <1>1 DEF RunningInv, Publishing, Committing
<1>8. EndedInv'
  BY <1>6 DEF EndedInv, Publishing, Committing
<1>. QED BY <1>6, <1>7, <1>8 DEF PublishInv

\* A run of the block is left by an exception.
LEMMA BlockRaisesPublish ==
    ASSUME TypeInv, PublishInv, NEW error, BlockRaises(error)
    PROVE  PublishInv'
<1>1. call.op = "none" /\ call' = call
  BY DEF BlockRaises
<1>2. RunningInv'
  BY <1>1 DEF RunningInv, Publishing, Committing
<1>3. CASE last' = last /\ frame' = [frame EXCEPT !.left = frame.block, !.tries = 1]
  <2>1. frame'.open = frame.open /\ frame.open
    BY <1>3 DEF BlockRaises, TypeInv, FrameT, FrameRec
  <2>. QED BY <1>2, <1>3, <2>1 DEF PublishInv, LastT, EndedInv, Between
<1>4. ASSUME NEW how \in {"ignored", "raised"},
             last' = [last EXCEPT !.op = "batch", !.tries = frame.tries, !.ended = how]
      PROVE  PublishInv'
  <2>1. PICK tries \in 0 .. 1 : tries = frame.tries
    BY DEF TypeInv, FrameT, FrameRec
  <2>2. \A T : \A n \in T, l \in [op : Names \cup {"none", "batch"}, ended : {"ok", "ignored", "raised"},
                     tries : T, blind : SUBSET Sessions] :
          LET new == [l EXCEPT !.op = "batch", !.tries = n, !.ended = how]
          IN  /\ new \in [op : Names \cup {"none", "batch"}, ended : {"ok", "ignored", "raised"},
                          tries : T, blind : SUBSET Sessions]
              /\ new.op = "batch"
    OBVIOUS
  <2>3. LastT' /\ last'.op = "batch"
    BY <1>4, <2>1, <2>2 DEF PublishInv, LastT
  <2>4. EndedInv'
    BY <2>3 DEF EndedInv, Publishing, Committing
  <2>. QED BY <1>2, <2>3, <2>4 DEF PublishInv
<1>5. \/ last' = last /\ frame' = [frame EXCEPT !.left = frame.block, !.tries = 1]
      \/ \E how \in {"ignored", "raised"} :
           last' = [last EXCEPT !.op = "batch", !.tries = frame.tries, !.ended = how]
  BY DEF BlockRaises
<1>. QED BY <1>3, <1>4, <1>5

\* A block begins.
LEMMA CallBatchPublish ==
    ASSUME TypeInv, PublishInv, NEW block \in Blocks, CallBatch(block)
    PROVE  PublishInv'
<1>1. /\ call.op = "none" /\ call' = call
      /\ frame' = [open |-> TRUE, block |-> block, left |-> block, tries |-> 0]
      /\ last' = [last EXCEPT !.blind = unheard]
  BY DEF CallBatch
<1>2. LastT'
  BY <1>1 DEF PublishInv, LastT, TypeInv, CountT
<1>3. RunningInv'
  BY <1>1 DEF RunningInv, Publishing, Committing
<1>4. EndedInv'
  BY <1>1 DEF EndedInv, Between
<1>. QED BY <1>2, <1>3, <1>4 DEF PublishInv

\* The requests that are left cover what is not published in every state.
LEMMA PublishInductive ==
    ASSUME PlainBlocks
    PROVE  Spec => []PublishInv
<1>1. Init => PublishInv
  <2> SUFFICES ASSUME Init PROVE PublishInv
    OBVIOUS
  <2>1. /\ call = NoCall /\ last = [op |-> "none", ended |-> "ok", tries |-> 0, blind |-> {}]
    BY DEF Init
  <2>2. LastT /\ last.op = "none"
    BY <2>1 DEF LastT
  <2>3. call.op = "none"
    BY <2>1 DEF NoCall
  <2>. QED BY <2>2, <2>3 DEF PublishInv, RunningInv, EndedInv, Publishing, Committing
<1>2. /\ TypeInv /\ BatchesCounted /\ DirtyInv /\ (TypeInv /\ BatchesCounted /\ DirtyInv)'
      /\ PublishInv /\ [Next]_vars
      => PublishInv'
  <2> SUFFICES ASSUME TypeInv, BatchesCounted, DirtyInv, TypeInv', DirtyInv', PublishInv, [Next]_vars
               PROVE  PublishInv'
    OBVIOUS
  <2>2. CASE UNCHANGED vars
    <3>1. UNCHANGED <<sharded, pending, unheard, call, last, frame>>
      BY <2>2 DEF vars, solr
    <3>2. Where' = Where
      BY <3>1, PlanSame
    <3>. QED BY <3>1, <3>2
         DEF PublishInv, LastT, RunningInv, EndedInv, Between, Publishing, Published, Spared, Countable
  <2>3. ASSUME NEW op \in Ops, NEW list \in Lists \cup {<< >>}, Call(op, list)
        PROVE  PublishInv'
    <3>1. op \in Names /\ list \in Seq(Keys) /\ Starts(op, list)
      BY <2>3, ListsAreSeqs DEF Call, Names
    <3>. QED BY <3>1, StartsPublish
  <2>4. ASSUME NEW block \in Blocks, CallBatch(block)
        PROVE  PublishInv'
    BY <2>4, CallBatchPublish
  <2>5. CASE CallInBlock
    <3>1. PICK op \in ByObject, k \in Keys : Starts(op, <<k>>)
      BY <2>5, NextOfBlock DEF CallInBlock
    <3>2. op \in Names /\ <<k>> \in Seq(Keys)
      BY DEF Names
    <3>. QED BY <3>1, <3>2, StartsPublish
  <2>6. CASE BatchIndex
    BY <2>6, BatchIndexPublish
  <2>7. CASE SkipCommit
    BY <2>7, SkipPublish
  <2>8. ASSUME NEW o \in Possible,
               \/ SendIndex(o) \/ SendRemove(o) \/ SendRemoveById(o) \/ SendRemoveAll(o)
               \/ SendCommit(o)
        PROVE  PublishInv'
    BY <2>8, SendPublish
  <2>9. ASSUME NEW o \in Possible, SendFlush(o)
        PROVE  PublishInv'
    BY <2>9, FlushPublish
  <2>10. ASSUME NEW error \in Errors, BlockRaises(error)
         PROVE  PublishInv'
    BY <2>10, BlockRaisesPublish
  <2>. QED BY <2>2, <2>3, <2>4, <2>5, <2>6, <2>7, <2>8, <2>9, <2>10 DEF Next, Step
<1>. QED BY <1>1, <1>2, DirtyInductive, PTL DEF Spec

\* abstract_session_proxy.rb and sharding_session_proxy.rb, commit and its
\* conditional forms over all shards: when no block of a batch commits at once, a
\* commit that ended well has published every shard, and a conditional form that was
\* not made again what its shards had counted, at the shards that had refused no
\* commit when it began.
THEOREM CommitsPublish ==
    ASSUME PlainBlocks
    PROVE  Spec => []CommitPublishes
<1>1. EndedInv => CommitPublishes
  BY DEF EndedInv, CommitPublishes, Publishing, Published, Spared, Committing
<1>. QED BY <1>1, PublishInductive, PTL DEF PublishInv

-----------------------------------------------------------------------------
(* What has reached the indexes.                                           *)

Adding == {"index", "index!"}

\* Nothing in a shard it does not belong to.
AtHome == \A s \in Sessions, k \in Keys : s # Home(k) => core[s][k] = 0

Effective == \A k \in Keys \ doubtful : core[Home(k)][k] = wanted[k]

Covers(r, k) == /\ r.at = Home(k) /\ r.op = Main(call.op)
                /\ r.op \in ByKey => k \in ToSet(r.keys)

\* A running call has done its work or still has a request for it.
InWork ==
    call.op # "none" =>
        \A k \in Affects(call.op, call.args) :
            /\ k \in doubtful
            /\ wanted[k] = IF call.op \in Adding THEN clock ELSE 0
            /\ \/ call.op \in Adding /\ batching(stack)
               \/ core[Home(k)][k] = wanted[k]
               \/ \E r \in ToSet(call.todo) : Covers(r, k)

\* The last document of an id in the batch is the one that is wanted, unless
\* the running call is about to add another.
Latest(docs, i) == \A j \in DOMAIN docs : docs[j].id = docs[i].id => j <= i

ToAdd == IF call.op = "index" THEN UNION {ToSet(r.keys) : r \in ToSet(call.todo)} ELSE {}

BatchLatest ==
    frame.open => \A i \in DOMAIN current(stack) :
        Latest(current(stack), i) /\ current(stack)[i].id \notin ToAdd =>
            current(stack)[i].at = wanted[current(stack)[i].id]

\* The block removes nothing that it has indexed.
IdsOf(docs) == {docs[i].id : i \in DOMAIN docs}

Kept == IdsOf(current(stack)) \cup (IF call.op = "index" THEN ToSet(call.args) ELSE {})

InOrder ==
    frame.open =>
        /\ Orderly(frame.left) /\ Orderly(frame.block)
        /\ \A c \in ToSet(frame.left) : c[1] # "index" => c[2] \notin Kept
        /\ call.op # "none" /\ call.op # "index" =>
             \A k \in ToSet(call.args) : k \notin IdsOf(current(stack))

HomeSteps == AtHome /\ Effective /\ InWork

\* What a request of the running call writes: v, to some of the keys it is for.
Writes(at, K, v, o) ==
    /\ \A s \in Sessions, k \in Keys :
         core'[s][k] = core[s][k] \/ (s = at /\ k \in K /\ core'[s][k] = v)
    /\ o.applied => \A k \in K : core'[at][k] = v

\* The writing requests of the calls.
LEMMA MainOps ==
    ASSUME TypeInv, NEW ops, Running(ops)
    PROVE  /\ Head(call.todo).op \in OpsOf(call.op) /\ Head(call.todo).op \in ops
           /\ Head(call.todo).op \in ByKey =>
                \A k \in ToSet(Head(call.todo).keys) : k \in ToSet(call.args) /\ Home(k) = Head(call.todo).at
<1>1. /\ call.op \in Names /\ call.args \in Seq(Keys)
      /\ Head(call.todo) \in ToSet(Plan(call.op, call.args)) /\ Head(call.todo).op \in ops
  BY NextRequest
<1>2. PICK r : r = Head(call.todo)
  OBVIOUS
<1>. QED BY <1>1, <1>2, PlanFacts DEF TypeInv, SettingT

\* The documents of a request, at the clock.
LEMMA IndexWrites ==
    ASSUME TypeInv, NEW at \in Sessions, NEW list \in Seq(Keys), NEW o, Adds(at, Docs(list), o)
    PROVE  Writes(at, ToSet(list), clock, o)
<1>1. /\ Docs(list) \in Seq(DocsTo(clock)) /\ DOMAIN Docs(list) = DOMAIN list
      /\ \A i \in DOMAIN list : Docs(list)[i].id = list[i] /\ Docs(list)[i].at = clock
  BY DocsType DEF TypeInv
<1>2. PICK docs \in Seq(DocsTo(clock)) : docs = Docs(list)
  BY <1>1
<1>3. /\ Applied(at, docs) \in [Keys -> 0 .. clock]
      /\ \A k \in Keys :
           \/ (\A i \in DOMAIN docs : docs[i].id # k) /\ Applied(at, docs)[k] = core[at][k]
           \/ \E i \in DOMAIN docs : docs[i].id = k /\ Applied(at, docs)[k] = docs[i].at
  BY AppliedType DEF TypeInv
<1>4. \A k \in Keys :
        \/ k \notin ToSet(list) /\ Applied(at, docs)[k] = core[at][k]
        \/ k \in ToSet(list) /\ Applied(at, docs)[k] = clock
  BY <1>1, <1>2, <1>3 DEF ToSet
<1>5. core' = IF o.applied THEN [core EXCEPT ![at] = Applied(at, docs)] ELSE core
  BY <1>2 DEF Adds
<1>6. core \in [Sessions -> [Keys -> 0 .. clock]]
  BY DEF TypeInv, SolrT
<1>7. ToSet(list) \subseteq Keys
  BY DEF ToSet
<1>8. PICK new : new = Applied(at, docs)
  OBVIOUS
<1>. QED BY <1>4, <1>5, <1>6, <1>7, <1>8 DEF Writes

\* A removal writes 0.
LEMMA DeleteWrites ==
    ASSUME TypeInv, NEW at \in Sessions, NEW K \in SUBSET Keys, NEW kind, NEW o,
           Deletes(at, K, kind, o)
    PROVE  Writes(at, K, 0, o)
<1>1. core \in [Sessions -> [Keys -> 0 .. clock]]
  BY DEF TypeInv, SolrT
<1>2. core' = IF o.applied
              THEN [core EXCEPT ![at] = [k \in Keys |-> IF k \in K THEN 0 ELSE core[at][k]]]
              ELSE core
  BY DEF Deletes
<1>. QED BY <1>1, <1>2 DEF Writes

\* A request writes what its call wants, where it belongs, and all it is for.
LEMMA SendCore ==
    ASSUME TypeInv, InWork, NEW o \in Possible,
           SendIndex(o) \/ SendRemove(o) \/ SendRemoveById(o) \/ SendRemoveAll(o) \/ SendCommit(o)
    PROVE  /\ \E v : \E K \in SUBSET Keys :
                /\ Writes(Head(call.todo).at, K, v, o)
                /\ \A k \in K : /\ k \in Affects(call.op, call.args) /\ wanted[k] = v
                                /\ Home(k) = Head(call.todo).at \/ v = 0
                /\ \A k \in Affects(call.op, call.args) : Covers(Head(call.todo), k) => k \in K
           /\ \E ops, keys :
                /\ Running(ops) /\ Continues(o, keys)
                /\ \A k \in keys : /\ k \in Affects(call.op, call.args)
                                   /\ ~(call.op \in Adding /\ batching(stack))
<1>0. call.op # "none" /\ call.op \in Names
  <2>1. \E ops : Running(ops)
    BY DEF SendIndex, SendRemove, SendRemoveById, SendRemoveAll, SendCommit
  <2>. QED BY <2>1, NextRequest DEF Names, ByObject, ByShard
<1>1. PICK at \in Sessions, list \in Seq(Keys) :
        /\ at = Head(call.todo).at /\ list = Head(call.todo).keys
        /\ ToSet(list) \subseteq Keys /\ ToSet(call.args) \subseteq Keys
  <2>1. \E ops : Running(ops)
    BY DEF SendIndex, SendRemove, SendRemoveById, SendRemoveAll, SendCommit
  <2>. QED BY <2>1, NextRequest
<1>2. CASE SendIndex(o)
  <2>1. /\ Running({"index"}) /\ ~batching(stack) /\ Adds(at, Docs(list), o)
        /\ Continues(o, ToSet(call.args))
    BY <1>1, <1>2 DEF SendIndex
  <2>2. Head(call.todo).op = "index" /\ call.op \in Adding
    BY <1>0, <2>1, MainOps DEF OpsOf, Adding, Names, ByObject, ByShard
  <2>3. \A k \in ToSet(list) : k \in ToSet(call.args) /\ Home(k) = at
    BY <1>1, <2>1, <2>2, MainOps DEF ByKey
  <2>4. Affects(call.op, call.args) = ToSet(call.args)
    BY <2>2 DEF Affects, Adding, ByObject
  <2>5. \A k \in ToSet(list) : wanted[k] = clock
    BY <1>0, <2>2, <2>3, <2>4 DEF InWork
  <2>6. Writes(at, ToSet(list), clock, o)
    BY <2>1, IndexWrites
  <2>7. \A k \in ToSet(call.args) : Covers(Head(call.todo), k) => k \in ToSet(list)
    BY <1>1, <2>2 DEF Covers, ByKey
  <2>. QED BY <1>1, <2>1, <2>3, <2>4, <2>5, <2>6, <2>7
<1>3. ASSUME SendRemove(o) \/ SendRemoveById(o)
      PROVE  /\ \E v : \E K \in SUBSET Keys :
                  /\ Writes(at, K, v, o)
                  /\ \A k \in K : /\ k \in Affects(call.op, call.args) /\ wanted[k] = v
                                  /\ Home(k) = at \/ v = 0
                  /\ \A k \in Affects(call.op, call.args) : Covers(Head(call.todo), k) => k \in K
             /\ \E ops, keys :
                  /\ Running(ops) /\ Continues(o, keys)
                  /\ \A k \in keys : /\ k \in Affects(call.op, call.args)
                                     /\ ~(call.op \in Adding /\ batching(stack))
  <2>1. /\ Running({"remove", "remove_by_id"}) /\ Continues(o, ToSet(call.args))
        /\ \E kind : Deletes(at, ToSet(list), kind, o)
    BY <1>1, <1>3 DEF SendRemove, SendRemoveById, Running
  <2>2. /\ Head(call.todo).op \in {"remove", "remove_by_id"}
        /\ call.op \in {"remove", "remove!", "remove_by_id"}
    BY <1>0, <2>1, MainOps DEF OpsOf, Names, ByObject, ByShard
  <2>3. \A k \in ToSet(list) : k \in ToSet(call.args) /\ Home(k) = at
    BY <1>1, <2>1, <2>2, MainOps DEF ByKey
  <2>4. Affects(call.op, call.args) = ToSet(call.args) /\ call.op \notin Adding
    BY <2>2 DEF Affects, Adding, ByObject
  <2>5. \A k \in ToSet(list) : wanted[k] = 0
    BY <1>0, <2>3, <2>4 DEF InWork
  <2>6. Writes(at, ToSet(list), 0, o)
    BY <1>1, <2>1, DeleteWrites
  <2>7. \A k \in ToSet(call.args) : Covers(Head(call.todo), k) => k \in ToSet(list)
    BY <1>1, <2>2 DEF Covers, ByKey
  <2>8. /\ ToSet(list) \in SUBSET Keys
        /\ \A k \in ToSet(call.args) : ~(call.op \in Adding /\ batching(stack))
    BY <1>1, <2>4
  <2>. QED BY <2>1, <2>3, <2>4, <2>5, <2>6, <2>7, <2>8
<1>4. CASE SendRemoveAll(o)
  <2>1. /\ Running({"remove_all"}) /\ Continues(o, Keys) /\ Deletes(at, Keys, "delete", o)
    BY <1>1, <1>4 DEF SendRemoveAll
  <2>2. call.op \in {"remove_all", "remove_all!"}
    BY <1>0, <2>1, MainOps DEF OpsOf, Names, ByObject, ByShard
  <2>3. Affects(call.op, call.args) = Keys /\ call.op \notin Adding
    BY <2>2 DEF Affects, Adding, ByObject
  <2>4. \A k \in Keys : wanted[k] = 0
    BY <1>0, <2>3 DEF InWork
  <2>5. Writes(at, Keys, 0, o)
    BY <2>1, DeleteWrites
  <2>. QED BY <1>1, <2>1, <2>3, <2>4, <2>5
<1>5. CASE SendCommit(o)
  <2>1. /\ Running(Committing) /\ Commits(at, o)
        /\ Continues(o, IF call.op = "index!" /\ batching(stack) THEN {}
                        ELSE Affects(call.op, call.args))
    BY <1>1, <1>5 DEF SendCommit
  <2>2. Head(call.todo).op \in Committing /\ Head(call.todo).op \in OpsOf(call.op)
    BY <2>1, MainOps
  <2>3. call.op # "index"
    BY <2>2 DEF OpsOf, Committing
  <2>4. Writes(at, {}, 0, o)
    BY <2>1 DEF Commits, Writes
  <2>5. ASSUME NEW k \in Affects(call.op, call.args) PROVE ~Covers(Head(call.todo), k)
    <3>1. call.op \in ByObject \/ call.op \in {"remove_all", "remove_all!"}
      BY <2>5 DEF Affects
    <3>2. Main(call.op) \notin Committing
      BY <3>1 DEF Main, Committing, ByObject
    <3>. QED BY <2>2, <3>2 DEF Covers
  <2>6. PICK keys : /\ Continues(o, keys)
                    /\ keys = IF call.op = "index!" /\ batching(stack) THEN {}
                              ELSE Affects(call.op, call.args)
    BY <2>1
  <2>7. \A k \in keys : /\ k \in Affects(call.op, call.args)
                        /\ ~(call.op \in Adding /\ batching(stack))
    BY <2>3, <2>6 DEF Adding
  <2>. QED BY <1>1, <2>1, <2>4, <2>5, <2>6, <2>7
<1>. QED BY <1>1, <1>2, <1>3, <1>4, <1>5

\* The plan of a call covers whatever the call affects.
LEMMA PlanCoversAll ==
    ASSUME sharded \in BOOLEAN, NEW op \in Names, NEW list \in Seq(Keys), NEW k \in Affects(op, list)
    PROVE  \E r \in ToSet(Plan(op, list)) :
             /\ r.at = Home(k) /\ r.op = Main(op)
             /\ r.op \in ByKey => k \in ToSet(r.keys)
<1>1. CASE op \in ByObject
  BY <1>1, PlanCovers DEF Affects
<1>2. CASE op \notin ByObject
  <2>1. op \in {"remove_all", "remove_all!"} /\ k \in Keys
    BY <1>2 DEF Affects
  <2>2. PICK r \in ToSet(Plan(op, list)) : r.at = Home(k) /\ r.op = Main(op)
    BY <2>1, PlanCovers, WhereSessions DEF ByShard
  <2>3. r.op = "remove_all"
    BY <2>1, <2>2 DEF Main
  <2>. QED BY <2>2, <2>3 DEF ByKey
<1>. QED BY <1>1, <1>2

\* The call after a request.
LEMMA CallAfter ==
    ASSUME TypeInv, NEW ops, Running(ops), NEW o, NEW keys, Continues(o, keys)
    PROVE  /\ \/ call' = NoCall
              \/ /\ call'.op = call.op /\ call'.args = call.args
                 /\ \/ call'.todo = call.plan /\ o.error # "none"
                    \/ call'.todo = Tail(call.todo) /\ o.error = "none" /\ Len(call.todo) > 1
           /\ \/ doubtful' = doubtful
              \/ o.error = "none" /\ Len(call.todo) = 1 /\ doubtful' = doubtful \ keys
           /\ ToSet(call.todo) = {Head(call.todo)} \cup ToSet(Tail(call.todo))
           /\ Len(call.todo) = 1 => ToSet(Tail(call.todo)) = {}
           /\ Len(call.todo) > 1 <=> Len(call.todo) # 1
<1>1. call \in CallRec /\ call.todo \in Seq(Req) /\ call.todo # << >>
  BY NextRequest DEF TypeInv, CallT, CallRec
<1>2. /\ ToSet(call.todo) = {Head(call.todo)} \cup ToSet(Tail(call.todo))
      /\ Len(call.todo) = 1 => ToSet(Tail(call.todo)) = {}
      /\ Len(call.todo) > 1 <=> Len(call.todo) # 1
  <2> HIDE DEF Req
  <2>. QED BY <1>1, HeadTail
<1>3. \/ call' = NoCall
      \/ call' = Again(call) /\ o.error # "none"
      \/ call' = [call EXCEPT !.todo = Tail(call.todo)] /\ o.error = "none" /\ Len(call.todo) > 1
  BY DEF Continues, Proceeds, CallFails, Raises
<1>4. call' = Again(call) =>
        call'.op = call.op /\ call'.args = call.args /\ call'.todo = call.plan
  BY <1>1 DEF Again, CallRec
<1>5. call' = [call EXCEPT !.todo = Tail(call.todo)] =>
        call'.op = call.op /\ call'.args = call.args /\ call'.todo = Tail(call.todo)
  BY <1>1 DEF CallRec
<1>6. \/ doubtful' = doubtful
      \/ o.error = "none" /\ Len(call.todo) = 1 /\ doubtful' = doubtful \ keys
  BY DEF Continues, Certain
<1>. QED BY <1>2, <1>3, <1>4, <1>5, <1>6

\* The requests: what is written is wanted, and belongs there.
LEMMA SendHome ==
    ASSUME TypeInv, HomeSteps, NEW o \in Possible,
           SendIndex(o) \/ SendRemove(o) \/ SendRemoveById(o) \/ SendRemoveAll(o) \/ SendCommit(o)
    PROVE  HomeSteps'
<1>0. AtHome /\ Effective /\ InWork
  BY DEF HomeSteps
<1>1. UNCHANGED <<sharded, stack, clock, wanted>>
  BY DEF SendIndex, SendRemove, SendRemoveById, SendRemoveAll, SendCommit
<1>2. PICK at : at = Head(call.todo).at
  OBVIOUS
<1>3. PICK v, K :
        /\ K \subseteq Keys
        /\ Writes(at, K, v, o)
        /\ \A k \in K : /\ k \in Affects(call.op, call.args) /\ wanted[k] = v
                        /\ Home(k) = at \/ v = 0
        /\ \A k \in Affects(call.op, call.args) : Covers(Head(call.todo), k) => k \in K
  BY <1>0, <1>2, SendCore
<1>4. PICK ops, keys :
        /\ Running(ops) /\ Continues(o, keys)
        /\ \A k \in keys : /\ k \in Affects(call.op, call.args)
                           /\ ~(call.op \in Adding /\ batching(stack))
  BY <1>0, SendCore
<1>5. /\ call.op # "none" /\ call.op \in Names /\ call.args \in Seq(Keys)
      /\ call.plan = Plan(call.op, call.args) /\ sharded \in BOOLEAN
  BY <1>4, NextRequest DEF Running, TypeInv, CallT, SettingT
<1>6. PICK A : A = Affects(call.op, call.args) /\ A \subseteq Keys
  BY <1>4, NextRequest DEF Affects
<1>7. \A k \in Keys : Home(k)' = Home(k) /\ Home(k) \in Sessions
  BY <1>1, <1>5, PlanSame, WhereSessions
<1>8. AtHome'
  <2>1. ASSUME NEW s \in Sessions, NEW k \in Keys, s # Home(k) PROVE core'[s][k] = 0
    BY <1>0, <1>3, <2>1 DEF Writes, AtHome
  <2>. QED BY <1>7, <2>1 DEF AtHome
<1>9. \A k \in Keys \ A : core'[Home(k)][k] = core[Home(k)][k]
  BY <1>3, <1>6, <1>7 DEF Writes
<1>10. \A k \in A : core[Home(k)][k] = wanted[k] => core'[Home(k)][k] = wanted[k]
  BY <1>3, <1>6, <1>7 DEF Writes
<1>11. o.error = "none" => \A k \in A : Covers(Head(call.todo), k) => core'[Home(k)][k] = wanted[k]
  <2> SUFFICES ASSUME o.error = "none", NEW k \in A, Covers(Head(call.todo), k)
               PROVE  core'[Home(k)][k] = wanted[k]
    OBVIOUS
  <2>1. k \in K /\ Home(k) = at /\ wanted[k] = v
    BY <1>2, <1>3, <1>6 DEF Covers
  <2>. QED BY <1>3, <2>1, PossibleOutcomes DEF Writes
<1>12. /\ \/ call' = NoCall
          \/ /\ call'.op = call.op /\ call'.args = call.args
             /\ \/ call'.todo = call.plan /\ o.error # "none"
                \/ call'.todo = Tail(call.todo) /\ o.error = "none" /\ Len(call.todo) > 1
       /\ \/ doubtful' = doubtful
          \/ o.error = "none" /\ Len(call.todo) = 1 /\ doubtful' = doubtful \ keys
       /\ ToSet(call.todo) = {Head(call.todo)} \cup ToSet(Tail(call.todo))
       /\ Len(call.todo) = 1 => ToSet(Tail(call.todo)) = {}
       /\ Len(call.todo) > 1 <=> Len(call.todo) # 1
  BY <1>4, CallAfter
<1>13. \A k \in A : /\ k \in doubtful /\ wanted[k] = (IF call.op \in Adding THEN clock ELSE 0)
                    /\ \/ call.op \in Adding /\ batching(stack)
                       \/ core[Home(k)][k] = wanted[k]
                       \/ \E r \in ToSet(call.todo) : Covers(r, k)
  BY <1>0, <1>5, <1>6 DEF InWork
<1>14. Effective'
  <2>1. ASSUME NEW k \in Keys, k \notin doubtful' PROVE core'[Home(k)][k] = wanted[k]
    <3>1. CASE k \notin doubtful
      <4>1. k \notin A
        BY <1>13, <3>1
      <4>. QED BY <1>0, <1>9, <3>1, <4>1 DEF Effective
    <3>2. CASE k \in doubtful
      <4>1. /\ o.error = "none" /\ Len(call.todo) = 1 /\ k \in keys
        BY <1>12, <2>1, <3>2
      <4>2. k \in A /\ ~(call.op \in Adding /\ batching(stack))
        BY <1>4, <1>6, <4>1
      <4>3. ToSet(call.todo) = {Head(call.todo)}
        BY <1>12, <4>1
      <4>4. core[Home(k)][k] = wanted[k] \/ Covers(Head(call.todo), k)
        BY <1>13, <4>2, <4>3
      <4>. QED BY <1>10, <1>11, <4>1, <4>2, <4>4
    <3>. QED BY <3>1, <3>2
  <2>. QED BY <1>1, <1>7, <2>1 DEF Effective
<1>15. InWork'
  <2>1. CASE call' = NoCall
    BY <2>1 DEF InWork, NoCall
  <2>2. CASE call'.op = call.op /\ call'.args = call.args
    <3>1. doubtful' = doubtful \/ call' = NoCall
      BY <1>12
    <3>2. CASE doubtful' = doubtful
      <4>1. Affects(call.op, call.args)' = A
        BY <1>6, <2>2 DEF Affects
      <4>2. ASSUME NEW k \in A
            PROVE  \/ call.op \in Adding /\ batching(stack)
                   \/ core'[Home(k)][k] = wanted[k]
                   \/ \E r \in ToSet(call'.todo) : Covers(r, k)
                   \/ call' = NoCall
        <5>1. CASE call'.todo = call.plan
          <6>1. PICK op \in Names, list \in Seq(Keys) : op = call.op /\ list = call.args
            BY <1>5
          <6>2. \E r \in ToSet(call.plan) :
                  /\ r.at = Home(k) /\ r.op = Main(op)
                  /\ r.op \in ByKey => k \in ToSet(r.keys)
            BY <1>5, <1>6, <6>1, PlanCoversAll
          <6>3. \E r \in ToSet(call.plan) : Covers(r, k)
            BY <6>1, <6>2 DEF Covers
          <6>. QED BY <5>1, <6>3
        <5>2. CASE call'.todo = Tail(call.todo) /\ o.error = "none"
          BY <1>10, <1>11, <1>12, <1>13, <5>2
        <5>. QED BY <1>12, <5>1, <5>2
      <4>3. \A r : \A k \in Keys : Covers(r, k) => Covers(r, k)'
        BY <1>7, <2>2 DEF Covers
      <4>4. CASE call' # NoCall
        BY <1>1, <1>6, <1>7, <1>13, <2>2, <3>2, <4>1, <4>2, <4>3, <4>4 DEF InWork
      <4>. QED BY <2>1, <4>4
    <3>. QED BY <2>1, <3>1, <3>2
  <2>. QED BY <1>12, <2>1, <2>2
<1>. QED BY <1>8, <1>14, <1>15 DEF HomeSteps

\* Calls that index nothing leave the batch as it is.
LEMMA SendBatch ==
    ASSUME TypeInv, BatchesCounted, BlockInv, BatchLatest, InOrder, NEW o \in Possible,
           SendIndex(o) \/ SendRemove(o) \/ SendRemoveById(o) \/ SendRemoveAll(o) \/ SendCommit(o)
    PROVE  BatchLatest' /\ InOrder'
<1>1. UNCHANGED <<stack, wanted>>
  BY DEF SendIndex, SendRemove, SendRemoveById, SendRemoveAll, SendCommit
<1>2. PICK ops, keys : Running(ops) /\ Continues(o, keys)
  BY DEF SendIndex, SendRemove, SendRemoveById, SendRemoveAll, SendCommit
<1>3. CASE ~frame'.open
  BY <1>3 DEF BatchLatest, InOrder
<1>4. CASE frame'.open
  <2>1. frame' = frame /\ frame.open
    BY <1>2, <1>4, RequestLeaves DEF Continues
  <2>2. batching(stack)
    BY <2>1, BatchOfBlock DEF batching, depth
  <2>3. call.op # "index"
    <3>1. ~Running({"index"})
      <4>1. ~SendIndex(o)
        BY <2>2 DEF SendIndex
      <4>. QED BY <4>1 DEF SendRemove, SendRemoveById, SendRemoveAll, SendCommit, Running, Committing
    <3>2. Head(call.todo).op # "index" /\ Head(call.todo).op \in OpsOf(call.op)
      BY <1>2, <3>1, MainOps DEF Running
    <3>. QED BY <3>2 DEF OpsOf
  <2>4. /\ call'.op \in {call.op, "none"}
        /\ call'.op # "none" => call'.args = call.args
    BY <1>2, CallAfter DEF NoCall
  <2>5. ToAdd = {} /\ ToAdd' = {}
    BY <2>3, <2>4 DEF ToAdd
  <2>6. Kept' = Kept /\ current(stack)' = current(stack) /\ IdsOf(current(stack))' = IdsOf(current(stack))
    BY <1>1, <2>3, <2>4 DEF Kept, current, IdsOf
  <2>7. PICK docs : docs = current(stack) /\ docs = current(stack)'
    BY <2>6
  <2>8. BatchLatest'
    BY <1>1, <2>1, <2>5, <2>7 DEF BatchLatest
  <2>9. InOrder'
    <3>1. \/ call'.op = "none"
          \/ call'.op = call.op /\ call'.args = call.args
      BY <2>4
    <3>. QED BY <2>1, <2>3, <2>6, <3>1 DEF InOrder
  <2>. QED BY <2>8, <2>9
<1>. QED BY <1>3, <1>4

\* The batch: the documents that come last are the wanted ones.
LEMMA BatchIndexEffect ==
    ASSUME TypeInv, BatchesCounted, BlockInv, HomeSteps, BatchLatest, InOrder, BatchIndex
    PROVE  HomeSteps' /\ BatchLatest' /\ InOrder'
<1>0. AtHome /\ Effective /\ InWork
  BY DEF HomeSteps
<1>1. /\ Running({"index"}) /\ batching(stack) /\ Proceeds
      /\ stack' = concat(stack, Docs(Head(call.todo).keys))
      /\ UNCHANGED <<sharded, core, clock, wanted, doubtful>>
  BY DEF BatchIndex, solr
<1>2. /\ call.op # "none" /\ call.op \in Names /\ call.args \in Seq(Keys)
      /\ call.todo \in Seq(Req) /\ call.todo # << >> /\ call \in CallRec
  BY <1>1, NextRequest DEF Running, TypeInv, CallT, CallRec
<1>3. PICK list \in Seq(Keys) : list = Head(call.todo).keys
  BY <1>1, NextRequest
<1>4. /\ Head(call.todo).op = "index" /\ call.op \in Adding
      /\ \A k \in ToSet(list) : k \in ToSet(call.args)
  <2>1. Head(call.todo).op = "index" /\ Head(call.todo).op \in OpsOf(call.op)
    BY <1>1, MainOps
  <2>2. call.op \in Adding
    BY <1>2, <2>1 DEF OpsOf, Adding, Names, ByObject, ByShard
  <2>. QED BY <1>1, <1>3, <2>1, <2>2, MainOps DEF ByKey
<1>5. /\ ToSet(call.todo) = {Head(call.todo)} \cup ToSet(Tail(call.todo))
      /\ Len(call.todo) > 1 <=> Len(call.todo) # 1
      /\ Len(call.todo) = 1 => ToSet(Tail(call.todo)) = {}
  <2> HIDE DEF Req
  <2>. QED BY <1>2, HeadTail
<1>6. \/ Len(call.todo) = 1 /\ call' = NoCall
      \/ call'.op = call.op /\ call'.args = call.args /\ call'.todo = Tail(call.todo)
  BY <1>1, <1>2, <1>5 DEF Proceeds, CallRec
<1>7. \A k \in Keys : Home(k)' = Home(k)
  BY <1>1, PlanSame
<1>8. batching(stack)'
  <2>1. depth(stack') = depth(stack)
    BY <1>1, ConcatKeeps DEF BatchesCounted
  <2>. QED BY <1>1, <2>1 DEF batching, depth
<1>9. Affects(call.op, call.args) \subseteq Keys
  BY <1>1, NextRequest DEF Affects
<1>10. HomeSteps'
  <2>1. AtHome' /\ Effective'
    BY <1>0, <1>1, <1>7 DEF AtHome, Effective
  <2>2. InWork'
    <3>1. CASE call' = NoCall
      BY <3>1 DEF InWork, NoCall
    <3>2. CASE call'.op = call.op /\ call'.args = call.args
      <4>1. Affects(call.op, call.args)' = Affects(call.op, call.args)
        BY <3>2 DEF Affects
      <4>. QED BY <1>0, <1>1, <1>2, <1>4, <1>8, <3>2, <4>1 DEF InWork
    <3>. QED BY <1>6, <3>1, <3>2
  <2>. QED BY <2>1, <2>2 DEF HomeSteps
<1>11. CASE ~frame'.open
  BY <1>10, <1>11 DEF BatchLatest, InOrder
<1>12. CASE frame'.open
  <2>1. frame' = frame /\ frame.open
    BY <1>1, <1>12, RequestLeaves
  <2>2. call.op = "index"
    BY <1>4, <2>1 DEF BlockInv, Plain, Adding
  <2>3. PICK old \in Seq(DocsTo(clock)) : old = current(stack)
    BY <2>1, BatchOfBlock
  <2>4. PICK new \in Seq(DocsTo(clock)) :
           /\ new = Docs(list) /\ DOMAIN new = DOMAIN list
           /\ \A i \in DOMAIN list : new[i].id = list[i] /\ new[i].at = clock
    BY DocsType DEF TypeInv
  <2>5. current(stack') = old \o new
    <3>1. stack \in Seq(Seq(DocsTo(clock))) /\ Len(stack) > 0
      BY <2>1, BatchOfBlock
    <3>2. current(concat(stack, new)) = current(stack) \o new
      <4> HIDE DEF DocsTo
      <4>. QED BY <3>1, StackTypes
    <3>. QED BY <1>1, <1>3, <2>3, <2>4, <3>2
  <2>6. PICK docs : docs = old \o new /\ docs = current(stack)'
    BY <2>5 DEF current
  <2>7. /\ Len(old) \in Nat /\ Len(new) \in Nat /\ DOMAIN new = 1 .. Len(new)
        /\ DOMAIN old = 1 .. Len(old) /\ DOMAIN docs = 1 .. Len(old) + Len(new)
        /\ \A i \in 1 .. Len(old) : docs[i] = old[i]
        /\ \A i \in 1 .. Len(new) : docs[Len(old) + i] = new[i]
        /\ \A i \in DOMAIN docs : i \in DOMAIN old \/ (i - Len(old) \in DOMAIN new /\ docs[i] = new[i - Len(old)])
    <3> HIDE DEF DocsTo
    <3>1. /\ Len(old) \in Nat /\ Len(new) \in Nat /\ DOMAIN old = 1 .. Len(old) /\ DOMAIN new = 1 .. Len(new)
          /\ DOMAIN docs = 1 .. Len(old) + Len(new)
          /\ \A i \in 1 .. Len(old) + Len(new) :
               docs[i] = IF i <= Len(old) THEN old[i] ELSE new[i - Len(old)]
      <4>1. /\ Len(old) \in Nat /\ Len(new) \in Nat
            /\ DOMAIN old = 1 .. Len(old) /\ DOMAIN new = 1 .. Len(new)
        BY <2>3, <2>4, LenProperties
      <4>2. docs \in Seq(DocsTo(clock)) /\ Len(docs) = Len(old) + Len(new)
        BY <2>3, <2>4, <2>6, ConcatProperties
      <4>3. DOMAIN docs = 1 .. Len(old) + Len(new)
        BY <4>2, LenProperties
      <4>4. \A i \in 1 .. Len(old) + Len(new) :
              docs[i] = IF i <= Len(old) THEN old[i] ELSE new[i - Len(old)]
        <5>1. \A i \in 1 .. Len(old) + Len(new) :
                (old \o new)[i] = IF i <= Len(old) THEN old[i] ELSE new[i - Len(old)]
          BY <2>3, <2>4, ConcatProperties
        <5>2. docs = old \o new
          BY <2>6
        <5>. QED BY <5>1, <5>2, Zenon
      <4>. QED BY <4>1, <4>3, <4>4
    <3>2. \A i \in 1 .. Len(new) : Len(old) + i \in 1 .. Len(old) + Len(new) /\ ~(Len(old) + i <= Len(old))
                                   /\ (Len(old) + i) - Len(old) = i
      BY <3>1
    <3>3. \A i \in 1 .. Len(old) : i \in 1 .. Len(old) + Len(new) /\ i <= Len(old)
      BY <3>1
    <3>4. \A i \in 1 .. Len(old) + Len(new) :
             i \in 1 .. Len(old) \/ (i - Len(old) \in 1 .. Len(new) /\ ~(i <= Len(old)))
      BY <3>1
    <3>. QED BY <3>1, <3>2, <3>3, <3>4
  <2>8. ToAdd = ToSet(list) \cup ToAdd'
    <3>1. ToAdd = UNION {ToSet(r.keys) : r \in ToSet(call.todo)}
      BY <2>2 DEF ToAdd
    <3>2. ToAdd' = UNION {ToSet(r.keys) : r \in ToSet(Tail(call.todo))}
      <4>1. CASE Len(call.todo) = 1 /\ call' = NoCall
        <5>1. ToSet(Tail(call.todo)) = {} /\ call'.op = "none"
          BY <1>5, <4>1 DEF NoCall
        <5>. QED BY <5>1 DEF ToAdd
      <4>2. CASE call'.op = call.op /\ call'.todo = Tail(call.todo)
        BY <2>2, <4>2 DEF ToAdd
      <4>. QED BY <1>6, <4>1, <4>2
    <3>3. PICK r : r = Head(call.todo) /\ r.keys = list
      BY <1>3
    <3>4. PICK T : T = ToSet(Tail(call.todo)) /\ ToSet(call.todo) = {r} \cup T
      BY <1>5, <3>3
    <3>. QED BY <3>1, <3>2, <3>3, <3>4
  <2>9. BatchLatest'
    <3>1. SUFFICES ASSUME NEW i \in DOMAIN docs, Latest(docs, i), docs[i].id \notin ToAdd'
                   PROVE  docs[i].at = wanted[docs[i].id]
      BY <1>1, <2>6 DEF BatchLatest
    <3>2. CASE i - Len(old) \in DOMAIN new /\ docs[i] = new[i - Len(old)]
      <4>1. PICK j \in DOMAIN list : j = i - Len(old) /\ docs[i].id = list[j] /\ docs[i].at = clock
        BY <2>4, <3>2
      <4>2. list[j] \in ToSet(call.args)
        BY <1>4 DEF ToSet
      <4>3. wanted[list[j]] = clock
        BY <1>0, <1>2, <2>2, <4>2 DEF InWork, Affects, Adding, ByObject
      <4>. QED BY <4>1, <4>3
    <3>3. CASE i \in DOMAIN old
      <4>1. docs[i] = old[i]
        BY <2>7, <3>3
      <4>2. old[i].id \notin ToSet(list)
        <5>1. ASSUME NEW j \in DOMAIN list, list[j] = old[i].id PROVE FALSE
          <6>1. docs[Len(old) + j] = new[j] /\ new[j].id = old[i].id /\ Len(old) + j \in DOMAIN docs
            BY <2>4, <2>7, <5>1
          <6>2. Len(old) + j <= i
            BY <3>1, <4>1, <6>1 DEF Latest
          <6>3. j \in 1 .. Len(new) /\ i \in 1 .. Len(old) /\ Len(old) \in Nat
            BY <2>4, <2>7, <3>3
          <6>. QED BY <6>2, <6>3
        <5>. QED BY <5>1 DEF ToSet
      <4>3. Latest(old, i)
        <5>1. ASSUME NEW j \in DOMAIN old, old[j].id = old[i].id PROVE j <= i
          <6>1. docs[j] = old[j] /\ j \in DOMAIN docs
            BY <2>7
          <6>. QED BY <3>1, <4>1, <5>1, <6>1 DEF Latest
        <5>. QED BY <5>1 DEF Latest
      <4>4. old[i].id \notin ToAdd
        BY <2>8, <3>1, <4>1, <4>2
      <4>. QED BY <2>1, <2>3, <3>3, <4>1, <4>3, <4>4 DEF BatchLatest
    <3>. QED BY <2>7, <3>2, <3>3
  <2>10. InOrder'
    <3>1. \A k \in IdsOf(docs) : k \in Kept
      <4>1. SUFFICES ASSUME NEW i \in DOMAIN docs PROVE docs[i].id \in Kept
        BY DEF IdsOf
      <4>2. CASE i \in DOMAIN old
        <5>1. docs[i] = old[i]
          BY <2>7, <4>2
        <5>. QED BY <2>3, <4>2, <5>1 DEF Kept, IdsOf
      <4>3. CASE i - Len(old) \in DOMAIN new /\ docs[i] = new[i - Len(old)]
        <5>1. PICK j \in DOMAIN list : docs[i].id = list[j]
          BY <2>4, <4>3
        <5>2. list[j] \in ToSet(call.args)
          BY <1>4 DEF ToSet
        <5>. QED BY <2>2, <5>1, <5>2 DEF Kept
      <4>. QED BY <2>7, <4>2, <4>3
    <3>2. call'.op \in {"index", "none"} /\ (call'.op = "index" => call'.args = call.args)
      BY <1>6, <2>2 DEF NoCall
    <3>3. \A k \in Kept' : k \in Kept
      <4>1. Kept' = IdsOf(docs) \cup (IF call'.op = "index" THEN ToSet(call'.args) ELSE {})
        BY <2>6 DEF Kept, IdsOf
      <4>. QED BY <2>2, <3>1, <3>2, <4>1 DEF Kept
    <3>. QED BY <2>1, <3>2, <3>3 DEF InOrder
  <2>. QED BY <1>10, <2>9, <2>10
<1>. QED BY <1>11, <1>12

\* Only a commit is skipped, and a commit writes nothing.
LEMMA SkipEffect ==
    ASSUME TypeInv, BlockInv, HomeSteps, BatchLatest, InOrder, SkipCommit
    PROVE  HomeSteps' /\ BatchLatest' /\ InOrder'
<1>1. /\ Running(Committing) /\ Proceeds
      /\ UNCHANGED <<sharded, core, stack, clock, wanted, doubtful>>
  BY DEF SkipCommit, solr
<1>2. Head(call.todo).op \in Committing /\ Head(call.todo).op \in OpsOf(call.op)
  BY <1>1, MainOps
<1>3. call \in CallRec /\ call.op # "none" /\ call.todo \in Seq(Req) /\ call.todo # << >>
  BY <1>1, NextRequest DEF Running, TypeInv, CallT, CallRec
<1>4. ToSet(call.todo) = {Head(call.todo)} \cup ToSet(Tail(call.todo))
  <2> HIDE DEF Req
  <2>. QED BY <1>3, HeadTail
<1>5. \/ call' = NoCall
      \/ call'.op = call.op /\ call'.args = call.args /\ call'.todo = Tail(call.todo)
  BY <1>1, <1>3 DEF Proceeds, CallRec
<1>6. \A k \in Keys : Home(k)' = Home(k)
  BY <1>1, PlanSame
<1>7. PICK A : A = Affects(call.op, call.args) /\ A \subseteq Keys
  BY <1>1, NextRequest DEF Affects
<1>8. ASSUME NEW k \in A PROVE ~Covers(Head(call.todo), k)
  <2>1. call.op \in ByObject \/ call.op \in {"remove_all", "remove_all!"}
    BY <1>7, <1>8 DEF Affects
  <2>2. Main(call.op) \notin Committing
    BY <2>1 DEF Main, Committing, ByObject
  <2>. QED BY <1>2, <2>2 DEF Covers
<1>9. HomeSteps'
  <2>1. AtHome' /\ Effective'
    BY <1>1, <1>6 DEF HomeSteps, AtHome, Effective
  <2>2. InWork'
    <3>1. CASE call' = NoCall
      BY <3>1 DEF InWork, NoCall
    <3>2. CASE call'.op = call.op /\ call'.args = call.args /\ call'.todo = Tail(call.todo)
      <4>1. Affects(call.op, call.args)' = A
        BY <1>7, <3>2 DEF Affects
      <4>2. \A r : \A k \in Keys : Covers(r, k) => Covers(r, k)'
        BY <1>6, <3>2 DEF Covers
      <4>3. \A k \in A : /\ k \in doubtful /\ wanted[k] = (IF call.op \in Adding THEN clock ELSE 0)
                         /\ \/ call.op \in Adding /\ batching(stack)
                            \/ core[Home(k)][k] = wanted[k]
                            \/ \E r \in ToSet(Tail(call.todo)) : Covers(r, k)
        BY <1>3, <1>4, <1>7, <1>8 DEF HomeSteps, InWork
      <4>. QED BY <1>1, <1>6, <1>7, <3>2, <4>1, <4>2, <4>3 DEF InWork
    <3>. QED BY <1>5, <3>1, <3>2
  <2>. QED BY <2>1, <2>2 DEF HomeSteps
<1>10. ~frame'.open
  BY <1>1, RequestLeaves, NoCommitInBlock
<1>. QED BY <1>9, <1>10 DEF BatchLatest, InOrder

\* A call begins: what it affects is doubtful until it has ended well.
LEMMA StartsHome ==
    ASSUME TypeInv, HomeSteps, NEW op \in Names, NEW list \in Seq(Keys), Starts(op, list)
    PROVE  HomeSteps'
<1>0. AtHome /\ Effective /\ InWork /\ sharded \in BOOLEAN
  BY DEF HomeSteps, TypeInv, SettingT
<1>1. /\ clock' = clock + 1 /\ UNCHANGED <<sharded, core, stack>>
      /\ call' = [op |-> op, args |-> list, plan |-> Plan(op, list), todo |-> Plan(op, list), tries |-> 0]
      /\ wanted' = Asked(op, list) /\ doubtful' = doubtful \cup Affects(op, list)
  BY DEF Starts, solr
<1>2. call'.op = op /\ call'.args = list /\ call'.todo = Plan(op, list)
  BY <1>1
<1>3. \A k \in Keys : Home(k)' = Home(k)
  BY <1>1, PlanSame
<1>4. Affects(op, list) \subseteq Keys
  BY DEF Affects, ToSet
<1>5. \A k \in Keys : wanted'[k] = IF k \notin Affects(op, list) THEN wanted[k]
                                   ELSE IF op \in Adding THEN clock' ELSE 0
  BY <1>1 DEF Asked, Adding
<1>6. AtHome'
  BY <1>0, <1>1, <1>3 DEF AtHome
<1>7. Effective'
  BY <1>0, <1>1, <1>3, <1>5 DEF Effective
<1>8. InWork'
  <2>1. Affects(call.op, call.args)' = Affects(op, list)
    BY <1>2 DEF Affects
  <2>2. ASSUME NEW k \in Affects(op, list) PROVE \E r \in ToSet(Plan(op, list)) : Covers(r, k)'
    <3>1. PICK r \in ToSet(Plan(op, list)) :
             /\ r.at = Home(k) /\ r.op = Main(op)
             /\ r.op \in ByKey => k \in ToSet(r.keys)
      BY <1>0, PlanCoversAll
    <3>2. Covers(r, k)'
      BY <1>2, <1>3, <1>4, <3>1 DEF Covers
    <3>. QED BY <3>2
  <2>3. \A k \in Affects(op, list) :
          /\ k \in doubtful' /\ wanted'[k] = (IF op \in Adding THEN clock' ELSE 0)
          /\ \E r \in ToSet(Plan(op, list)) : Covers(r, k)'
    BY <1>1, <1>4, <1>5, <2>2
  <2>. QED BY <1>2, <2>1, <2>3 DEF InWork
<1>. QED BY <1>6, <1>7, <1>8 DEF HomeSteps

\* The rest of an orderly block.
LEMMA OrderlyTail ==
    ASSUME NEW b \in BlockCalls, b # << >>, Orderly(b)
    PROVE  /\ Orderly(Tail(b))
           /\ Head(b)[1] = "index" => \A c \in ToSet(Tail(b)) : c[1] # "index" => c[2] # Head(b)[2]
<1> DEFINE C == ByObject \X Keys
<1>1. /\ Len(b) \in Nat /\ DOMAIN b = 1 .. Len(b) /\ Len(b) >= 1 /\ Head(b) = b[1]
      /\ DOMAIN Tail(b) = 1 .. Len(b) - 1
      /\ \A i \in 1 .. Len(b) - 1 : Tail(b)[i] = b[i + 1]
  <2>1. b \in Seq(C)
    BY DEF BlockCalls
  <2> HIDE DEF C
  <2>. QED BY <2>1
<1>2. \A i \in 1 .. Len(b) - 1 : i + 1 \in DOMAIN b /\ 1 < i + 1 /\ 1 \in DOMAIN b
  BY <1>1
<1>3. \A i, j \in 1 .. Len(b) - 1 : i < j => i + 1 < j + 1
  BY <1>1
<1>4. Orderly(Tail(b))
  <2>1. ASSUME NEW i \in DOMAIN Tail(b), NEW j \in DOMAIN Tail(b), i < j,
               Tail(b)[i][1] = "index", Tail(b)[j][1] # "index"
        PROVE  Tail(b)[i][2] # Tail(b)[j][2]
    <3>1. PICK m \in DOMAIN b, n \in DOMAIN b : m < n /\ Tail(b)[i] = b[m] /\ Tail(b)[j] = b[n]
      BY <1>1, <1>2, <1>3, <2>1
    <3>. QED BY <2>1, <3>1 DEF Orderly
  <2>. QED BY <2>1 DEF Orderly
<1>5. ASSUME Head(b)[1] = "index", NEW c \in ToSet(Tail(b)), c[1] # "index"
      PROVE  c[2] # Head(b)[2]
  <2>1. PICK i \in 1 .. Len(b) - 1 : c = Tail(b)[i]
    BY <1>1 DEF ToSet
  <2>2. PICK n \in DOMAIN b : 1 < n /\ c = b[n] /\ 1 \in DOMAIN b
    BY <1>1, <1>2, <2>1
  <2>. QED BY <1>1, <1>5, <2>2 DEF Orderly
<1>. QED BY <1>4, <1>5

\* A block makes its next call: a removal is of nothing in the batch.
LEMMA CallInBlockEffect ==
    ASSUME TypeInv, BatchesCounted, BlockInv, HomeSteps, BatchLatest, InOrder, CallInBlock
    PROVE  HomeSteps' /\ BatchLatest' /\ InOrder'
<1>1. /\ frame.open /\ call.op = "none" /\ frame.left # << >>
      /\ frame' = [frame EXCEPT !.left = Tail(frame.left)]
      /\ Starts(Head(frame.left)[1], <<Head(frame.left)[2]>>)
      /\ frame \in FrameRec /\ sharded \in BOOLEAN
  BY DEF CallInBlock, TypeInv, FrameT, SettingT
<1>2. PICK op \in Names, k \in Keys : op = Head(frame.left)[1] /\ k = Head(frame.left)[2] /\ op \in ByObject
  BY <1>1, NextOfBlock DEF Names
<1>3. PICK list \in Seq(Keys) : list = <<k>> /\ ToSet(list) = {k}
  <2>1. <<k>> \in Seq(Keys) /\ ToSet(<<k>>) = {k}
    BY DEF ToSet
  <2>. QED BY <2>1
<1>4. Starts(op, list)
  BY <1>1, <1>2, <1>3
<1>5. HomeSteps'
  BY <1>4, StartsHome
<1>6. /\ stack' = stack /\ wanted' = Asked(op, list)
      /\ call' = [op |-> op, args |-> list, plan |-> Plan(op, list), todo |-> Plan(op, list), tries |-> 0]
  BY <1>4 DEF Starts
<1>7. call'.op = op /\ call'.args = list /\ call'.todo = Plan(op, list)
  BY <1>6
<1>8. /\ frame'.open /\ frame'.left = Tail(frame.left) /\ frame'.block = frame.block
  BY <1>1 DEF FrameRec
<1>9. PICK docs : docs = current(stack) /\ docs = current(stack)'
  BY <1>6 DEF current
<1>10. /\ Orderly(frame.left) /\ Orderly(frame.block)
       /\ \A c \in ToSet(frame.left) : c[1] # "index" => c[2] \notin Kept
       /\ Kept = IdsOf(docs) /\ ToAdd = {}
  BY <1>1, <1>9 DEF InOrder, Kept, ToAdd
<1>11. \A j \in Keys : j # k => wanted'[j] = wanted[j]
  BY <1>2, <1>3, <1>6 DEF Asked, Affects
<1>12. /\ frame.left \in BlockCalls /\ ToSet(Tail(frame.left)) \subseteq ToSet(frame.left)
       /\ Head(frame.left) \in ToSet(frame.left)
  BY <1>1, NextOfBlock DEF FrameRec
<1>13. op # "index" => k \notin IdsOf(docs)
  BY <1>2, <1>10, <1>12
<1>14. op = "index" => k \in ToAdd'
  <2> SUFFICES ASSUME op = "index" PROVE k \in ToAdd'
    OBVIOUS
  <2>1. PICK r \in ToSet(Plan(op, list)) : r.op = Main(op) /\ k \in ToSet(r.keys)
    BY <1>1, <1>2, <1>3, PlanCovers
  <2>. QED BY <1>7, <2>1 DEF ToAdd
<1>15. BatchLatest'
  <2>1. docs \in Seq(DocsTo(clock))
    BY <1>1, <1>9, BatchOfBlock
  <2>2. \A i \in DOMAIN docs : docs[i].id \in Keys
    <3>1. \A i \in DOMAIN docs : docs[i] \in DocsTo(clock)
      <4> HIDE DEF DocsTo
      <4>. QED BY <2>1
    <3>. QED BY <3>1 DEF DocsTo
  <2>3. ASSUME NEW i \in DOMAIN docs, Latest(docs, i), docs[i].id \notin ToAdd'
        PROVE  docs[i].at = wanted'[docs[i].id]
    <3>1. docs[i].at = wanted[docs[i].id]
      BY <1>1, <1>9, <1>10, <2>3 DEF BatchLatest
    <3>2. docs[i].id # k
      BY <1>13, <1>14, <2>3 DEF IdsOf
    <3>. QED BY <1>11, <2>2, <3>1, <3>2
  <2>. QED BY <1>9, <2>3 DEF BatchLatest
<1>16. InOrder'
  <2>1. /\ Orderly(Tail(frame.left))
        /\ op = "index" => \A c \in ToSet(Tail(frame.left)) : c[1] # "index" => c[2] # k
    BY <1>1, <1>2, <1>10, <1>12, OrderlyTail
  <2>2. Kept' = IdsOf(docs) \cup (IF op = "index" THEN {k} ELSE {})
    BY <1>3, <1>7, <1>9 DEF Kept, IdsOf
  <2>3. \A c \in ToSet(Tail(frame.left)) : c[1] # "index" => c[2] \notin Kept'
    BY <1>10, <1>12, <2>1, <2>2
  <2>4. IdsOf(current(stack))' = IdsOf(docs)
    BY <1>9 DEF IdsOf
  <2>5. op # "index" => \A j \in ToSet(list) : j \notin IdsOf(docs)
    BY <1>3, <1>13
  <2>. QED BY <1>7, <1>8, <1>10, <2>1, <2>3, <2>4, <2>5 DEF InOrder
<1>. QED BY <1>5, <1>15, <1>16

\* A block begins.
LEMMA CallBatchEffect ==
    ASSUME OrderlyBlocks, TypeInv, BatchesCounted, HomeSteps, NEW block \in Blocks, CallBatch(block)
    PROVE  HomeSteps' /\ BatchLatest' /\ InOrder'
<1>1. /\ call.op = "none" /\ stack' = start_new(stack)
      /\ frame' = [open |-> TRUE, block |-> block, left |-> block, tries |-> 0]
      /\ UNCHANGED <<sharded, core, call, wanted, doubtful>>
  BY DEF CallBatch, solr
<1>2. frame'.left = block /\ frame'.block = block
  BY <1>1
<1>3. \A k \in Keys : Home(k)' = Home(k)
  BY <1>1, PlanSame
<1>4. HomeSteps'
  BY <1>1, <1>3 DEF HomeSteps, AtHome, Effective, InWork
<1>5. current(stack)' = << >>
  BY <1>1, EmptyBatch DEF BatchesCounted, current
<1>6. BatchLatest'
  BY <1>5 DEF BatchLatest
<1>7. InOrder'
  <2>1. Kept' = {}
    BY <1>1, <1>5 DEF Kept, IdsOf
  <2>. QED BY <1>1, <1>2, <2>1 DEF InOrder, OrderlyBlocks
<1>. QED BY <1>4, <1>6, <1>7

\* The batch is sent: what it writes is wanted.
LEMMA FlushEffect ==
    ASSUME TypeInv, BatchesCounted, BlockInv, HomeSteps, BatchLatest, InOrder, NEW o \in Possible, SendFlush(o)
    PROVE  HomeSteps' /\ BatchLatest' /\ InOrder'
<1>1. /\ frame.open /\ call.op = "none"
      /\ Adds(Shards[1], current(stack), o)
      /\ UNCHANGED <<sharded, call, wanted>>
      /\ \/ /\ stack' = start_new(end_current(stack))
            /\ frame' = [frame EXCEPT !.left = frame.block, !.tries = 1]
         \/ frame' = NoFrame
      /\ doubtful' = IF o.error = "none" THEN doubtful \ IdsOf(current(stack)) ELSE doubtful
      /\ frame \in FrameRec
  BY DEF SendFlush, IdsOf, TypeInv, FrameT
<1>2. \A k \in Keys : Home(k)' = Home(k) /\ Home(k) = Shards[1]
  BY <1>1, PlanSame, WhereSessions DEF BlockInv, TypeInv, SettingT
<1>3. PICK docs \in Seq(DocsTo(clock)) : docs = current(stack)
  BY <1>1, BatchOfBlock
<1>4. PICK at \in Sessions : at = Shards[1]
  BY ShardsAssumption DEF Sessions
<1>5. PICK new \in [Keys -> 0 .. clock] :
        /\ new = Applied(at, docs)
        /\ \A k \in Keys :
             \/ (\A i \in DOMAIN docs : docs[i].id # k) /\ new[k] = core[at][k]
             \/ \E i \in DOMAIN docs :
                  /\ docs[i].id = k /\ new[k] = docs[i].at
                  /\ \A j \in DOMAIN docs : docs[j].id = k => j <= i
  BY AppliedType DEF TypeInv
<1>6. \A k \in Keys : IF k \in IdsOf(docs) THEN new[k] = wanted[k] ELSE new[k] = core[at][k]
  <2>1. \A i \in DOMAIN docs : Latest(docs, i) => docs[i].at = wanted[docs[i].id]
    BY <1>1, <1>3 DEF BatchLatest, ToAdd
  <2>. QED BY <1>5, <2>1 DEF IdsOf, Latest
<1>7. core' = IF o.applied THEN [core EXCEPT ![at] = new] ELSE core
  BY <1>1, <1>3, <1>4, <1>5 DEF Adds
<1>8. core \in [Sessions -> [Keys -> 0 .. clock]]
  BY DEF TypeInv, SolrT
<1>9. AtHome'
  BY <1>2, <1>4, <1>7, <1>8 DEF AtHome, HomeSteps
<1>10. Effective'
  <2>1. ASSUME NEW k \in Keys, k \notin doubtful' PROVE core'[at][k] = wanted[k]
    <3>1. core[at][k] = wanted[k] \/ (k \in IdsOf(docs) /\ o.applied)
      <4>1. k \notin doubtful \/ (o.error = "none" /\ k \in IdsOf(docs))
        BY <1>1, <1>3, <2>1
      <4>. QED BY <1>2, <1>4, <4>1, PossibleOutcomes DEF HomeSteps, Effective
    <3>. QED BY <1>6, <1>7, <1>8, <3>1
  <2>. QED BY <1>1, <1>2, <1>4, <2>1 DEF Effective
<1>11. InWork'
  BY <1>1 DEF InWork
<1>12. CASE frame' = NoFrame
  <2>1. ~frame'.open
    BY <1>12 DEF NoFrame
  <2>. QED BY <1>9, <1>10, <1>11, <2>1 DEF HomeSteps, BatchLatest, InOrder
<1>13. CASE /\ stack' = start_new(end_current(stack))
            /\ frame' = [frame EXCEPT !.left = frame.block, !.tries = 1]
  <2>1. frame'.left = frame.block /\ frame'.block = frame.block
    BY <1>1, <1>13 DEF FrameRec
  <2>2. current(stack)' = << >>
    <3>1. depth(stack) > 0
      BY <1>1, BatchOfBlock DEF depth
    <3>2. IsSequence(end_current(stack))
      BY <3>1, EndRemoves DEF BatchesCounted
    <3>. QED BY <1>13, <3>2, EmptyBatch DEF current
  <2>3. BatchLatest'
    BY <2>2 DEF BatchLatest
  <2>4. InOrder'
    <3>1. Kept' = {}
      BY <1>1, <2>2 DEF Kept, IdsOf
    <3>. QED BY <1>1, <2>1, <3>1 DEF InOrder
  <2>. QED BY <1>9, <1>10, <1>11, <2>3, <2>4 DEF HomeSteps
<1>. QED BY <1>1, <1>12, <1>13

\* A run of the block is left by an exception: nothing is written, and another run
\* begins with an empty batch.
LEMMA BlockRaisesEffect ==
    ASSUME TypeInv, BatchesCounted, HomeSteps, BatchLatest, InOrder, NEW error, BlockRaises(error)
    PROVE  HomeSteps' /\ BatchLatest' /\ InOrder'
<1>1. /\ frame.open /\ call.op = "none" /\ frame \in FrameRec
      /\ UNCHANGED <<sharded, core, call, wanted, doubtful>>
      /\ \/ /\ stack' = start_new(stack)
            /\ frame' = [frame EXCEPT !.left = frame.block, !.tries = 1]
         \/ frame' = NoFrame
  BY DEF BlockRaises, solr, TypeInv, FrameT
<1>2. \A k \in Keys : Home(k)' = Home(k)
  BY <1>1, PlanSame
<1>3. HomeSteps'
  BY <1>1, <1>2 DEF HomeSteps, AtHome, Effective, InWork
<1>4. CASE frame' = NoFrame
  <2>1. ~frame'.open
    BY <1>4 DEF NoFrame
  <2>. QED BY <1>3, <2>1 DEF BatchLatest, InOrder
<1>5. CASE /\ stack' = start_new(stack)
           /\ frame' = [frame EXCEPT !.left = frame.block, !.tries = 1]
  <2>1. frame'.left = frame.block /\ frame'.block = frame.block
    BY <1>1, <1>5 DEF FrameRec
  <2>2. current(stack)' = << >>
    BY <1>5, EmptyBatch DEF BatchesCounted, current
  <2>3. BatchLatest'
    BY <2>2 DEF BatchLatest
  <2>4. InOrder'
    <3>1. Kept' = {}
      BY <1>1, <2>2 DEF Kept, IdsOf
    <3>. QED BY <1>1, <2>1, <3>1 DEF InOrder
  <2>. QED BY <1>3, <2>3, <2>4
<1>. QED BY <1>1, <1>4, <1>5

\* What is not doubtful is in the indexes as wanted, in every state.
LEMMA EffectInductive ==
    ASSUME PlainBlocks, OrderlyBlocks
    PROVE  Spec => [](HomeSteps /\ BatchLatest /\ InOrder)
<1> DEFINE Inv == HomeSteps /\ BatchLatest /\ InOrder
<1>1. Init => Inv
  <2> SUFFICES ASSUME Init PROVE Inv
    OBVIOUS
  <2>1. /\ core = [s \in Sessions |-> [k \in Keys |-> 0]] /\ wanted = [k \in Keys |-> 0]
        /\ call.op = "none" /\ ~frame.open /\ sharded \in BOOLEAN
    BY DEF Init, NoCall, NoFrame
  <2>2. \A k \in Keys : Home(k) \in Sessions
    BY <2>1, WhereSessions
  <2>. QED BY <2>1, <2>2 DEF HomeSteps, AtHome, Effective, InWork, BatchLatest, InOrder
<1>2. TypeInv /\ BatchesCounted /\ DirtyInv /\ Inv /\ [Next]_vars => Inv'
  <2> SUFFICES ASSUME TypeInv, BatchesCounted, BlockInv, HomeSteps, BatchLatest, InOrder, [Next]_vars
               PROVE  HomeSteps' /\ BatchLatest' /\ InOrder'
    BY DEF DirtyInv
  <2>1. ASSUME UNCHANGED <<sharded, core, stack, clock, call, wanted, doubtful, frame>>
        PROVE  HomeSteps' /\ BatchLatest' /\ InOrder'
    <3>1. \A k \in Keys : Home(k)' = Home(k)
      BY <2>1, PlanSame
    <3>2. \A r : \A k \in Keys : Covers(r, k)' = Covers(r, k)
      BY <2>1, <3>1 DEF Covers
    <3>3. Affects(call.op, call.args) \subseteq Keys
      <4>1. call.args \in Seq(Keys)
        BY DEF TypeInv, CallT, CallRec
      <4>. QED BY <4>1 DEF Affects, ToSet
    <3>4. HomeSteps'
      <4>1. AtHome' /\ Effective'
        BY <2>1, <3>1 DEF HomeSteps, AtHome, Effective
      <4>2. Affects(call.op, call.args)' = Affects(call.op, call.args)
        BY <2>1 DEF Affects
      <4>3. InWork'
        BY <2>1, <3>1, <3>2, <3>3, <4>2 DEF HomeSteps, InWork
      <4>. QED BY <4>1, <4>3 DEF HomeSteps
    <3>5. BatchLatest' /\ InOrder'
      <4>1. PICK docs : docs = current(stack) /\ docs = current(stack)'
        BY <2>1 DEF current
      <4>2. ToAdd' = ToAdd
        BY <2>1 DEF ToAdd
      <4>3. Kept' = Kept /\ IdsOf(current(stack))' = IdsOf(current(stack))
        BY <2>1, <4>1 DEF Kept, IdsOf
      <4>4. BatchLatest'
        BY <2>1, <4>1, <4>2 DEF BatchLatest
      <4>5. InOrder'
        BY <2>1, <4>3 DEF InOrder
      <4>. QED BY <4>4, <4>5
    <3>. QED BY <3>4, <3>5
  <2>2. CASE UNCHANGED vars
    BY <2>1, <2>2 DEF vars, solr
  <2>3. ASSUME NEW op \in Ops, NEW list \in Lists \cup {<< >>}, Call(op, list)
        PROVE  HomeSteps' /\ BatchLatest' /\ InOrder'
    <3>1. op \in Names /\ list \in Seq(Keys) /\ Starts(op, list) /\ ~frame'.open
      BY <2>3, ListsAreSeqs DEF Call, Names
    <3>. QED BY <3>1, StartsHome DEF BatchLatest, InOrder
  <2>4. ASSUME NEW block \in Blocks, CallBatch(block)
        PROVE  HomeSteps' /\ BatchLatest' /\ InOrder'
    BY <2>4, CallBatchEffect
  <2>5. CASE CallInBlock
    BY <2>5, CallInBlockEffect
  <2>6. CASE BatchIndex
    BY <2>6, BatchIndexEffect
  <2>7. CASE SkipCommit
    BY <2>7, SkipEffect
  <2>8. ASSUME NEW o \in Possible,
               \/ SendIndex(o) \/ SendRemove(o) \/ SendRemoveById(o) \/ SendRemoveAll(o)
               \/ SendCommit(o)
        PROVE  HomeSteps' /\ BatchLatest' /\ InOrder'
    BY <2>8, SendHome, SendBatch
  <2>9. ASSUME NEW o \in Possible, SendFlush(o)
        PROVE  HomeSteps' /\ BatchLatest' /\ InOrder'
    BY <2>9, FlushEffect
  <2>10. ASSUME NEW error \in Errors, BlockRaises(error)
         PROVE  HomeSteps' /\ BatchLatest' /\ InOrder'
    BY <2>10, BlockRaisesEffect
  <2>. QED BY <2>2, <2>3, <2>4, <2>5, <2>6, <2>7, <2>8, <2>9, <2>10 DEF Next, Step
<1>. QED BY <1>1, <1>2, DirtyInductive, PTL DEF Spec

\* sharding_session_proxy.rb and retry_5xx_session_proxy.rb: a key whose last call
\* ended well, at whatever try and on however many shards, is in the index of its
\* shard as that call wanted it and in no other, when no block of a batch commits
\* at once or removes an object it has indexed.
THEOREM CallsTakeEffect ==
    ASSUME PlainBlocks, OrderlyBlocks
    PROVE  Spec => []CallTookEffect
<1>1. HomeSteps => CallTookEffect
  BY DEF HomeSteps, AtHome, Effective, CallTookEffect
<1>. QED BY <1>1, EffectInductive, PTL
=============================================================================
