------------------------------ MODULE Batcher ------------------------------
(***************************************************************************)
(* The stack of open batches an Indexer keeps (sunspot/batcher.rb).  A     *)
(* batch is the sequence of documents collected so far; the innermost      *)
(* batch is the last element of the stack.                                 *)
(***************************************************************************)
EXTENDS Naturals, Sequences

-----------------------------------------------------------------------------
(* Seeded faults: plausible mistakes in the operators below, put in their  *)
(* place to see that the properties of Session notice them.                *)

\* A nested block shares the batch of the block around it.
NestedSharesBatch(stack) == IF stack = << >> THEN << << >> >> ELSE stack

\* The batch that was opened first instead of last.
FirstBatch(stack) == stack[1]

\* last for pop.
PeekOnly(stack) == stack

\* << for concat: the documents become one element of the batch.
PushedAsOne(stack, docs) == [stack EXCEPT ![Len(stack)] = Append(@, docs)]

\* Assignment for concat.
Replaced(stack, docs) == [stack EXCEPT ![Len(stack)] = docs]

\* The new documents go in front of the batch.
Prepended(stack, docs) == [stack EXCEPT ![Len(stack)] = docs \o @]

-----------------------------------------------------------------------------
depth(stack) == Len(stack)

batching(stack) == depth(stack) > 0

start_new(stack) == Append(stack, << >>)

\* Defined only for a non-empty stack: the code raises NoCurrentBatchError.
current(stack) == stack[Len(stack)]

end_current(stack) == SubSeq(stack, 1, Len(stack) - 1)

\* concat goes through `current`, which starts a batch when there is none.
concat(stack, docs) ==
    LET open == IF batching(stack) THEN stack ELSE start_new(stack)
    IN  [open EXCEPT ![Len(open)] = @ \o docs]
=============================================================================
