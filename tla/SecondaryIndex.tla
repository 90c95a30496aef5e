---------------------------- MODULE SecondaryIndex ----------------------------
(***************************************************************************)
(* secondary-index-partitioning/secondary_index_partitioning.py:           *)
(* DocumentPartitionedDB and TermPartitionedDB given the same calls, as    *)
(* compare_strategies does.                                                *)
(*                                                                         *)
(* One indexed field, which a document may lack (NoTerm).  The two         *)
(* partitionings are any functions: of the primary key, and of the term by *)
(* hash or by range.  Statistics are left out.                             *)
(***************************************************************************)
EXTENDS Integers, Sequences, FiniteSets, SequencesExt

CONSTANTS
    Pk,             \* primary keys
    Term,           \* values of the indexed field, integers
    NoTerm,         \* the field is missing
    NoDoc,          \* there is no document
    Part,           \* partitions
    MaxPending      \* bound: index operations not yet applied

VARIABLES
    asyncIndex,     \* async_index
    docPart,        \* _partition_for
    termPart,       \* _term_partition
    docs,           \* documents of both databases: the term of each
    localIndex,     \* local_index of each partition
    globalIndex,    \* global_index of each partition
    pendingOps      \* _pending

secondaryVars == <<asyncIndex, docPart, termPart, docs, localIndex, globalIndex, pendingOps>>

\* _apply_index_op
ApplyIndexOp(idx, op) ==
    [idx EXCEPT ![termPart[op.term]][op.term] =
        IF op.action = "add" THEN @ \cup {op.pk} ELSE @ \ {op.pk}]
AfterOps(idx, todo) == FoldLeft(ApplyIndexOp, idx, todo)

\* What a put or delete of pk does to an index: the old entry goes, the new comes.
IndexOps_NoRemove(pk, term) ==
    IF term \in Term THEN <<[action |-> "add", term |-> term, pk |-> pk]>> ELSE <<>>
IndexOps(pk, term) ==
    (IF docs[pk] \in Term THEN <<[action |-> "remove", term |-> docs[pk], pk |-> pk]>> ELSE <<>>)
    \o (IF term \in Term THEN <<[action |-> "add", term |-> term, pk |-> pk]>> ELSE <<>>)

\* The local index is in the partition of the document.
LocalAfter(pk, term) ==
    [localIndex EXCEPT ![docPart[pk]] =
        [t \in Term |-> IF t = term THEN @[t] \cup {pk} ELSE @[t] \ {pk}]]

\* The global one is changed now, or at the next flush_index.
Reindex(pk, term) ==
    IF asyncIndex
    THEN /\ Len(pendingOps) + Len(IndexOps(pk, term)) <= MaxPending
         /\ pendingOps' = pendingOps \o IndexOps(pk, term)
         /\ UNCHANGED globalIndex
    ELSE globalIndex' = AfterOps(globalIndex, IndexOps(pk, term)) /\ UNCHANGED pendingOps

Put(pk, term) ==
    /\ Reindex(pk, term)
    /\ docs' = [docs EXCEPT ![pk] = term]
    /\ localIndex' = LocalAfter(pk, term)
    /\ UNCHANGED <<asyncIndex, docPart, termPart>>

Delete(pk) ==
    /\ docs[pk] # NoDoc
    /\ Reindex(pk, NoTerm)
    /\ docs' = [docs EXCEPT ![pk] = NoDoc]
    /\ localIndex' = LocalAfter(pk, NoTerm)
    /\ UNCHANGED <<asyncIndex, docPart, termPart>>

FlushIndex ==
    /\ pendingOps # <<>>
    /\ globalIndex' = AfterOps(globalIndex, pendingOps)
    /\ pendingOps' = <<>>
    /\ UNCHANGED <<asyncIndex, docPart, termPart, docs, localIndex>>

SecondaryInit ==
    /\ asyncIndex \in BOOLEAN
    /\ docPart \in [Pk -> Part] /\ termPart \in [Term -> Part]
    /\ docs = [pk \in Pk |-> NoDoc]
    /\ localIndex = [p \in Part |-> [t \in Term |-> {}]]
    /\ globalIndex = [p \in Part |-> [t \in Term |-> {}]]
    /\ pendingOps = <<>>

SecondaryNext ==
    \/ \E pk \in Pk : Delete(pk) \/ \E term \in Term \cup {NoTerm} : Put(pk, term)
    \/ FlushIndex

SecondarySpec == SecondaryInit /\ [][SecondaryNext]_secondaryVars

(***************************************************************************)
(* Queries                                                                 *)
(***************************************************************************)

Stored(pks) == {pk \in pks : docs[pk] # NoDoc}
QueryLocal(term) == UNION {localIndex[p][term] : p \in Part}
QueryGlobal(term) == Stored(globalIndex[termPart[term]][term])
QueryRange(low, high) ==
    Stored(UNION {globalIndex[p][t] : p \in Part, t \in {u \in Term : low <= u /\ u <= high}})

(***************************************************************************)
(* Properties                                                              *)
(***************************************************************************)

Matching(low, high) == {pk \in Pk : docs[pk] \in Term /\ low <= docs[pk] /\ docs[pk] <= high}

\* A query by the index finds what a scan of the documents would: always with local
\* indexes and with a global index kept at once; with an asynchronous one it errs
\* only about documents that have an operation pending, and the pending ones,
\* applied in their order, put it right.
IndexesAgree ==
    /\ \A t \in Term : QueryLocal(t) = Matching(t, t)
    /\ \A pk \in Pk : \A low, high \in Term :
          (~\E i \in DOMAIN pendingOps : pendingOps[i].pk = pk) =>
             (pk \in QueryRange(low, high) <=> pk \in Matching(low, high))
    /\ \A t \in Term : /\ AfterOps(globalIndex, pendingOps)[termPart[t]][t] = Matching(t, t)
                       /\ pendingOps = <<>> => QueryGlobal(t) = Matching(t, t)
=============================================================================
