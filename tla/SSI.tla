--------------------------------- MODULE SSI ---------------------------------
(***************************************************************************)
(* write-skew-detection/ssi_database.py: SSIDatabase, serializable         *)
(* snapshot isolation by validation at commit, with the optional           *)
(* pessimistic check at each read.                                         *)
(*                                                                         *)
(* Calls on different transactions interleave; each call is atomic (the    *)
(* database is used from one thread).  A predicate is the set of key-value *)
(* pairs it accepts, a constraint the set of snapshots it accepts.         *)
(***************************************************************************)
EXTENDS Naturals, FiniteSets

CONSTANTS Key, Value,
          Absent,     \* what a read of a missing or deleted key returns: None
          Predicate,  \* predicates that callers read with
          Constraint, \* constraints that callers register
          MaxTx,      \* bound: number of transactions
          MaxSize     \* bound: keys and predicates a transaction touches

ASSUME AbsentAssumption == Absent \notin Value
ASSUME PredicateAssumption == \A P \in Predicate : P \subseteq Key \X Value
ASSUME MaxTxAssumption == MaxTx \in Nat /\ MaxSize \in Nat

Tx == 1..MaxTx
Version == [ts : Nat, value : Value \cup {Absent}, tx : Tx]
EmptyBuffer == [k \in {} |-> Absent]

VARIABLES
  pessimistic,        \* _pessimistic, fixed when the database is created
  clock,              \* _next_timestamp
  store,              \* _store: the versions of each key
  constraints,        \* _constraints
  committed,          \* _committed_txns
  status,             \* SSITransaction._status; "new" before begin_transaction
  start,              \* start_timestamp
  commitTs,           \* commit_timestamp
  readSet,            \* _read_set
  buffer,             \* _writes and _deletes (Absent); its domain is _write_set
  predLocks,          \* _predicate_locks: predicates with their results
  deps                \* _dependency_graph

dbVars == <<pessimistic, store, constraints, committed>>
txVars == <<start, commitTs, readSet, buffer, predLocks, deps>>
vars == <<clock, dbVars, status, txVars>>

Init ==
  /\ pessimistic \in BOOLEAN
  /\ clock = 1
  /\ store = [k \in Key |-> {}]
  /\ constraints = {}
  /\ committed = {}
  /\ status = [t \in Tx |-> "new"]
  /\ start = [t \in Tx |-> 0]
  /\ commitTs = [t \in Tx |-> 0]
  /\ readSet = [t \in Tx |-> {}]
  /\ buffer = [t \in Tx |-> EmptyBuffer]
  /\ predLocks = [t \in Tx |-> {}]
  /\ deps = [t \in Tx |-> {}]

-----------------------------------------------------------------------------
(* _visible_value and _snapshot.                                           *)

UpTo(V, ts) == {v \in V : v.ts =< ts}
Newest(V) == CHOOSE v \in V : \A w \in V : w.ts =< v.ts

ValueAt(V, ts) == IF UpTo(V, ts) = {} THEN Absent ELSE Newest(UpTo(V, ts)).value
Visible(k, ts) == ValueAt(store[k], ts)

\* The transaction whose version is visible, if any
Writer(k, ts) ==
  IF UpTo(store[k], ts) = {} THEN {} ELSE {Newest(UpTo(store[k], ts)).tx}

Snapshot(ts) == [k \in Key |-> Visible(k, ts)]

\* A snapshot with a transaction's buffered writes and deletes applied
Overlay(s, b) == [k \in Key |-> IF k \in DOMAIN b THEN b[k] ELSE s[k]]

Matching(s, P) == {<<k, s[k]>> : k \in Key} \cap P

-----------------------------------------------------------------------------
Begin(t) ==
  /\ status[t] = "new"
  /\ \A u \in Tx : u < t => status[u] # "new"         \* _next_tx_id
  /\ status' = [status EXCEPT ![t] = "active"]
  /\ start' = [start EXCEPT ![t] = clock]
  /\ clock' = clock + 1
  /\ UNCHANGED <<dbVars, commitTs, readSet, buffer, predLocks, deps>>

\* Transactions that committed after t started
Concurrent(t) == {c \in committed : commitTs[c] > start[t]}

\* _check_read_conflict on the keys K: the read aborts the transaction
ReadAborts(t, K) ==
  pessimistic /\ \E c \in Concurrent(t) : DOMAIN buffer[c] \cap K # {}

StatusAfterRead(t, K) ==
  [status EXCEPT ![t] = IF ReadAborts(t, K) THEN "aborted" ELSE @]

\* The transaction may go on: it is active, and small enough for the bound
MayContinue(t) ==
  /\ status[t] = "active"
  /\ Cardinality(readSet[t]) + Cardinality(DOMAIN buffer[t])
       + Cardinality(predLocks[t]) < MaxSize

Read(t, k) ==
  /\ MayContinue(t)
  /\ readSet' = [readSet EXCEPT ![t] = @ \cup {k}]
  /\ deps' = [deps EXCEPT
       ![t] = IF k \in DOMAIN buffer[t] THEN @ ELSE @ \cup Writer(k, start[t])]
  /\ status' = StatusAfterRead(t, {k})
  /\ UNCHANGED <<clock, dbVars, start, commitTs, buffer, predLocks>>

ReadPredicate(t, P) ==
  LET snap == Snapshot(start[t])
      result == Matching(Overlay(snap, buffer[t]), P)
      keys == {m[1] : m \in result}
  IN
  /\ MayContinue(t)
  /\ readSet' = [readSet EXCEPT ![t] = @ \cup keys]
  /\ deps' = [deps EXCEPT ![t] = @ \cup
       UNION {Writer(k, start[t]) : k \in {j \in keys : snap[j] # Absent}}]
  /\ predLocks' = [predLocks EXCEPT ![t] = @ \cup {<<P, result>>}]
  /\ status' = StatusAfterRead(t, keys)
  /\ UNCHANGED <<clock, dbVars, start, commitTs, buffer>>

\* write, and delete when v is Absent
Write(t, k, v) ==
  /\ MayContinue(t)
  /\ buffer' = [buffer EXCEPT
       ![t] = [j \in DOMAIN @ \cup {k} |-> IF j = k THEN v ELSE @[j]]]
  /\ UNCHANGED <<clock, dbVars, status, start, commitTs, readSet, predLocks, deps>>

-----------------------------------------------------------------------------
(* commit.                                                                 *)

WriteConflict(t) ==
  \E c \in Concurrent(t) : DOMAIN buffer[t] \cap DOMAIN buffer[c] # {}

ReadConflict(t) ==
  \E c \in Concurrent(t) : readSet[t] \cap DOMAIN buffer[c] # {}

\* Predicates are evaluated again, on what is committed now
Phantom_Ignored(t) == FALSE
Phantom(t) ==
  \E lock \in predLocks[t] : Matching(Snapshot(clock), lock[1]) # lock[2]

\* hypo_snap: the committed state with the transaction's writes applied
Hypothetical_Unapplied(t) == Snapshot(clock)
Hypothetical(t) == Overlay(Snapshot(clock), buffer[t])

Valid(t) ==
  /\ ~WriteConflict(t) /\ ~ReadConflict(t) /\ ~Phantom(t)
  /\ \A C \in constraints : Hypothetical(t) \in C

IsReadOnly(t) == DOMAIN buffer[t] = {}

\* The timestamp of the versions that t installs
InstallTs_Start(t) == start[t]
InstallTs(t) == clock

\* A read-only transaction commits without validation
CommitSucceeds(t) ==
  /\ status[t] = "active"
  /\ IsReadOnly(t) \/ Valid(t)
  /\ status' = [status EXCEPT ![t] = "committed"]
  /\ commitTs' = [commitTs EXCEPT ![t] = clock]
  /\ clock' = clock + 1
  /\ committed' = committed \cup {t}
  /\ store' = [k \in Key |-> store[k] \cup
       IF k \in DOMAIN buffer[t]
       THEN {[ts |-> InstallTs(t), value |-> buffer[t][k], tx |-> t]} ELSE {}]
  /\ UNCHANGED <<pessimistic, constraints, start, readSet, buffer, predLocks, deps>>

CommitFails(t) ==
  /\ status[t] = "active"
  /\ ~IsReadOnly(t) /\ ~Valid(t)
  /\ status' = [status EXCEPT ![t] = "aborted"]
  /\ UNCHANGED <<clock, dbVars, txVars>>

\* abort does not look at the status
Abort(t) ==
  /\ status[t] # "new"
  /\ status' = [status EXCEPT ![t] = "aborted"]
  /\ UNCHANGED <<clock, dbVars, txVars>>

AddConstraint(C) ==
  /\ constraints' = constraints \cup {C}
  /\ UNCHANGED <<pessimistic, clock, store, committed, status, txVars>>

Next ==
  \/ \E t \in Tx : Begin(t)
  \/ \E t \in Tx, k \in Key : Read(t, k)
  \/ \E t \in Tx, P \in Predicate : ReadPredicate(t, P)
  \/ \E t \in Tx, k \in Key, v \in Value \cup {Absent} : Write(t, k, v)
  \/ \E t \in Tx : CommitSucceeds(t)
  \/ \E t \in Tx : CommitFails(t)
  \/ \E t \in Tx : Abort(t)
  \/ \E C \in Constraint : AddConstraint(C)

Spec == Init /\ [][Next]_vars

-----------------------------------------------------------------------------
(* Properties.                                                             *)

Buffer == UNION {[K -> Value \cup {Absent}] : K \in SUBSET Key}

\* Every variable of the database and of each transaction has its type.
TypeOK ==
  /\ pessimistic \in BOOLEAN
  /\ clock \in Nat
  /\ store \in [Key -> SUBSET Version]
  /\ constraints \in SUBSET Constraint
  /\ committed \in SUBSET Tx
  /\ status \in [Tx -> {"new", "active", "committed", "aborted"}]
  /\ start \in [Tx -> Nat]
  /\ commitTs \in [Tx -> Nat]
  /\ readSet \in [Tx -> SUBSET Key]
  /\ buffer \in [Tx -> Buffer]
  /\ predLocks \in [Tx -> SUBSET (Predicate \X SUBSET (Key \X Value))]
  /\ deps \in [Tx -> SUBSET Tx]

\* Committed transactions are serializable: a read-only one sees exactly the
\* state at its start, and a writer read, key by key and predicate by
\* predicate, what the database holds just before its own commit, so running
\* writers at their commit and readers at their start gives the same reads.
Serializable ==
  \A t \in committed : ~IsReadOnly(t) =>
    /\ \A k \in readSet[t] \cup DOMAIN buffer[t] :
         Visible(k, start[t]) = Visible(k, commitTs[t] - 1)
    /\ \A lock \in predLocks[t] :
         Matching(Snapshot(start[t]), lock[1]) = Matching(Snapshot(commitTs[t] - 1), lock[1])

\* The inductive invariant behind Serializable.  Versions carry the commit
\* timestamp of a committed writer of their key; no version of a key that a
\* committed writer read or wrote lies between its start and its commit; and
\* a recorded predicate result differs from the snapshot only on own writes.
VersionsAreCommitted ==
  \A k \in Key : \A v \in store[k] :
    v.tx \in committed /\ v.ts = commitTs[v.tx] /\ k \in DOMAIN buffer[v.tx]
StampsPassed ==
  /\ \A t \in committed : status[t] \in {"committed", "aborted"} /\ commitTs[t] < clock
  /\ \A t \in Tx : IF status[t] = "new" THEN predLocks[t] = {} ELSE start[t] < clock
  /\ \A t \in committed : start[t] < commitTs[t]
NoVersionBetween ==
  \A t \in committed : ~IsReadOnly(t) =>
    \A k \in readSet[t] \cup DOMAIN buffer[t] : \A v \in store[k] :
      ~(start[t] < v.ts /\ v.ts < commitTs[t])
ResultsFromSnapshot ==
  \A t \in Tx : status[t] = "active" => \A lock \in predLocks[t] :
    \A k \in Key \ DOMAIN buffer[t], v \in Value :
      <<k, v>> \in lock[2] <=> <<k, v>> \in lock[1] /\ Visible(k, start[t]) = v
PredicatesHold ==
  \A t \in committed : ~IsReadOnly(t) => \A lock \in predLocks[t] :
    \A k \in Key, v \in Value : <<k, v>> \in lock[1] =>
      (Visible(k, start[t]) = v <=> Visible(k, commitTs[t] - 1) = v)
SerialInv == /\ VersionsAreCommitted /\ StampsPassed /\ NoVersionBetween
             /\ ResultsFromSnapshot /\ PredicatesHold

\* An active transaction's snapshot never changes under it.
SnapshotStable ==
  [][\A t \in Tx : status[t] = "active" =>
       \A k \in Key : Visible(k, start[t])' = Visible(k, start[t])]_vars

\* A constraint that the committed state satisfies once registered is never
\* broken, also by transactions that read nothing and write different keys.
ConstraintsKept ==
  [][\A C \in constraints :
       Snapshot(clock) \in C => (Snapshot(clock) \in C)']_vars
=============================================================================
