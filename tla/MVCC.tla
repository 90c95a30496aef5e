-------------------------------- MODULE MVCC --------------------------------
(***************************************************************************)
(* snapshot-isolation/mvcc_database.py: MVCCDatabase.  Every operation     *)
(* holds the lock of the database from its start to its end, so it is one  *)
(* step.  A version carries the transaction that created it and the one    *)
(* that deleted it; visibility is decided from the ids of transactions and *)
(* the set of those active when the reader began.  The timestamps that the *)
(* code hands out are never read and are left out.                         *)
(***************************************************************************)
EXTENDS Integers, Sequences, FiniteSets, FiniteSetsExt, SequencesExt

CONSTANTS Key, Value,
          None,       \* no value
          MaxTx,      \* bound: transactions begun
          MaxLen,     \* bound: a longer list of versions is not extended
          Deleter     \* workload: transactions that may call delete

Tx == 1..MaxTx
Nobody == 0           \* deleted_by is None

VARIABLES
  versions,           \* _versions: per key, oldest first; <<>> if there is none
  status,             \* Transaction._status; "none" before it begins
  readOnly,           \* Transaction.read_only
  activeAtStart,      \* Transaction.active_at_start
  writeSet,           \* Transaction.write_set
  collecting,         \* whether the application calls garbage_collect
  committedValue      \* history: what the commits so far made of each key

txVars == <<status, readOnly, activeAtStart, writeSet>>
vars == <<versions, txVars, collecting, committedValue>>

Version == [value : Value, createdBy : Tx, deletedBy : Tx \cup {Nobody}]

Active == {t \in Tx : status[t] = "active"}
Committed == {t \in Tx : status[t] = "committed"}
Aborted == {t \in Tx : status[t] = "aborted"}

Init ==
  /\ versions = [k \in Key |-> <<>>]
  /\ status = [t \in Tx |-> "none"]
  /\ readOnly = [t \in Tx |-> FALSE]
  /\ activeAtStart = [t \in Tx |-> {}]
  /\ writeSet = [t \in Tx |-> {}]
  /\ collecting \in BOOLEAN
  /\ committedValue = [k \in Key |-> None]

-----------------------------------------------------------------------------
(* Whether the writes and deletions of u are part of what t reads.         *)
Sees_Committed(t, u) == u = t \/ u \in Committed
Sees(t, u) == \/ u = t
              \/ u \in Committed /\ u \notin activeAtStart[t] /\ u < t

IsVisible(t, v) ==
  /\ Sees(t, v.createdBy)
  /\ ~(v.deletedBy # Nobody /\ Sees(t, v.deletedBy))

(* The value of the last version in the list that satisfies a condition.   *)
LastValue(s, I) == IF I = {} THEN None ELSE s[Max(I)].value

ReadValue(t, k) ==
  LastValue(versions[k], {i \in DOMAIN versions[k] : IsVisible(t, versions[k][i])})

(* Transactions that are active when t begins.                             *)
ActiveAtBegin(t) == Active

Begin(t, ro) ==
  /\ status[t] = "none"
  /\ \A u \in Tx : u < t => status[u] # "none"
  /\ status' = [status EXCEPT ![t] = "active"]
  /\ readOnly' = [readOnly EXCEPT ![t] = ro]
  /\ activeAtStart' = [activeAtStart EXCEPT ![t] = ActiveAtBegin(t)]
  /\ UNCHANGED <<versions, writeSet, collecting, committedValue>>

CheckWritable(t) == t \in Active /\ ~readOnly[t]

(* Positions of a version of t itself that t has not deleted again.        *)
Own(t, k) == {i \in DOMAIN versions[k] : /\ versions[k][i].createdBy = t
                                         /\ versions[k][i].deletedBy = Nobody}

Write(t, k, val) ==
  /\ CheckWritable(t)
  /\ IF Own(t, k) # {}
     THEN /\ versions' = [versions EXCEPT ![k][Min(Own(t, k))].value = val]
          /\ UNCHANGED writeSet
     ELSE /\ Len(versions[k]) < MaxLen
          /\ versions' = [versions EXCEPT ![k] =
               Append(@, [value |-> val, createdBy |-> t, deletedBy |-> Nobody])]
          /\ writeSet' = [writeSet EXCEPT ![t] = @ \cup {k}]
  /\ UNCHANGED <<status, readOnly, activeAtStart, collecting, committedValue>>

Marked_Newest(t, k) ==
  LET m == Max({i \in DOMAIN versions[k] : IsVisible(t, versions[k][i])})
  IN [versions[k] EXCEPT ![m].deletedBy = t]

(* Every visible version is marked, whoever had marked it before.          *)
Marked(t, k) ==
  [i \in DOMAIN versions[k] |->
     IF IsVisible(t, versions[k][i]) THEN [versions[k][i] EXCEPT !.deletedBy = t]
                                     ELSE versions[k][i]]

Delete(t, k) ==
  /\ t \in Deleter
  /\ CheckWritable(t)
  /\ ReadValue(t, k) # None
  /\ versions' = [versions EXCEPT ![k] = Marked(t, k)]
  /\ writeSet' = [writeSet EXCEPT ![t] = @ \cup {k}]
  /\ UNCHANGED <<status, readOnly, activeAtStart, collecting, committedValue>>

-----------------------------------------------------------------------------
(* Another transaction, committed but not visible to t, created a version  *)
(* of a key that t wrote.                                                  *)
Conflict(t) ==
  \E k \in writeSet[t] : \E i \in DOMAIN versions[k] :
    LET u == versions[k][i].createdBy
    IN u # t /\ u \in Committed /\ (u \in activeAtStart[t] \/ u >= t)

CommitSucceeds(t) ==
  /\ t \in Active
  /\ readOnly[t] \/ ~Conflict(t)
  /\ status' = [status EXCEPT ![t] = "committed"]
  /\ committedValue' = [k \in Key |-> IF k \in writeSet[t] THEN ReadValue(t, k)
                                                         ELSE committedValue[k]]
  /\ UNCHANGED <<versions, readOnly, activeAtStart, writeSet, collecting>>

(* _abort takes back the deletions of t; its versions stay in the list.    *)
Aborts(t) ==
  /\ status' = [status EXCEPT ![t] = "aborted"]
  /\ versions' = [k \in Key |-> [i \in DOMAIN versions[k] |->
       IF k \in writeSet[t] /\ versions[k][i].deletedBy = t
       THEN [versions[k][i] EXCEPT !.deletedBy = Nobody]
       ELSE versions[k][i]]]
  /\ UNCHANGED <<readOnly, activeAtStart, writeSet, collecting, committedValue>>

CommitFails(t) == t \in Active /\ ~readOnly[t] /\ Conflict(t) /\ Aborts(t)

Abort(t) == t \in Active /\ Aborts(t)

-----------------------------------------------------------------------------
(* garbage_collect, for the versions s of one key.                         *)

(* The list of the versions at the positions I, in the order of s.         *)
AtPositions(s, I) ==
  [n \in 1..Cardinality(I) |->
     s[CHOOSE i \in I : Cardinality({j \in I : j < i}) = n - 1]]

NotAborted(s) == AtPositions(s, {i \in DOMAIN s : s[i].createdBy \notin Aborted})

Live(v) == v.createdBy \in Committed /\ v.deletedBy \notin Committed

LatestOnly(s) ==
  LET I == {i \in DOMAIN s : Live(s[i])}
  IN IF I = {} THEN <<>> ELSE <<s[Max(I)]>>

Old_Committed(u) == u \in Committed
Old(u) == u \in Committed /\ u < Min(Active)

Superseded(s, v) ==
  \/ v.deletedBy # Nobody /\ Old(v.deletedBy)
  \/ /\ v.deletedBy = Nobody
     /\ Old(v.createdBy)
     /\ \E i \in DOMAIN s : Old(s[i].createdBy) /\ s[i].createdBy > v.createdBy

Collected(s) ==
  IF Active = {} THEN LatestOnly(s)
                 ELSE AtPositions(s, {i \in DOMAIN s : ~Superseded(s, s[i])})

GarbageCollect ==
  /\ collecting
  /\ versions' = [k \in Key |-> Collected(NotAborted(versions[k]))]
  /\ UNCHANGED <<txVars, collecting, committedValue>>

Next ==
  \/ \E t \in Tx, ro \in BOOLEAN : Begin(t, ro)
  \/ \E t \in Tx, k \in Key :
       \/ \E val \in Value : Write(t, k, val)
       \/ Delete(t, k)
  \/ \E t \in Tx : CommitSucceeds(t) \/ CommitFails(t) \/ Abort(t)
  \/ GarbageCollect

Spec == Init /\ [][Next]_vars

-----------------------------------------------------------------------------
(* Every variable has its type; transactions begin in the order of their   *)
(* ids, and only transactions with a smaller id were active at a begin.    *)
TypeOK ==
  /\ versions \in [Key -> Seq(Version)]
  /\ status \in [Tx -> {"none", "active", "committed", "aborted"}]
  /\ readOnly \in [Tx -> BOOLEAN]
  /\ activeAtStart \in [Tx -> SUBSET Tx]
  /\ \A t \in Tx : activeAtStart[t] \subseteq 1..(t - 1)
  /\ writeSet \in [Tx -> SUBSET Key]
  /\ collecting \in BOOLEAN
  /\ committedValue \in [Key -> Value \cup {None}]

(* What a transaction that begins now will read of a key.                  *)
FreshValue(k) ==
  LastValue(versions[k], {i \in DOMAIN versions[k] : Live(versions[k][i])})

(* A new transaction reads, of every key, exactly what the commits so far  *)
(* left there, although versions are listed in the order in which they     *)
(* were written and not in which they were committed, deletions mark       *)
(* versions before they are committed, and the collector thins the list.   *)
CommittedState == \A k \in Key : FreshValue(k) = committedValue[k]

(* What a transaction reads of a key it has not written never changes      *)
(* while it is active, whatever other transactions commit or abort, as     *)
(* long as the application does not collect garbage.                       *)
KeepsReads ==
  ~collecting =>
    \A t \in Tx, k \in Key :
      (t \in Active /\ t \in Active' /\ k \notin writeSet'[t])
        => ReadValue(t, k)' = ReadValue(t, k)

(* First committer wins: of two transactions that overlapped and wrote a   *)
(* key, at most one commits.  Versions that a conflict check needs are     *)
(* never collected before.                                                 *)
FirstCommitterWins ==
  \A u \in Committed \ Deleter : \A t \in (Committed \cap activeAtStart[u]) \ Deleter :
    writeSet[t] \cap writeSet[u] = {}

(* garbage_collect never changes what an active transaction reads          *)
(* (test_mvcc.py:175, "GC does not remove versions needed by active        *)
(* transactions.").                                                        *)
CollectionInvisible ==
  [][GarbageCollect =>
       \A t \in Active, k \in Key : ReadValue(t, k)' = ReadValue(t, k)]_vars
=============================================================================
