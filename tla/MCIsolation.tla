----------------------------- MODULE MCIsolation -----------------------------
(***************************************************************************)
(* The two transactional databases: serializable snapshot isolation, on two *)
(* keys of one value with the predicate that accepts every pair and the     *)
(* constraint that some key is present, and the multi-version database.     *)
(* They share nothing: a behaviour uses one of them.                        *)
(***************************************************************************)
EXTENDS SSI, TLC

CONSTANTS x, y, on,
          MKey, MValue, None, MaxMTx, MaxLen, Deleter

ASSUME MaxMTxAssumption == MaxMTx \in Nat

VARIABLES
    database,                                               \* the one in use
    versions, mstatus, readOnly, activeAtStart, writeSet, collecting, committedValue

MV == INSTANCE MVCC WITH Key <- MKey, Value <- MValue, MaxTx <- MaxMTx, status <- mstatus

mvccVars == <<versions, mstatus, readOnly, activeAtStart, writeSet, collecting, committedValue>>
isolationVars == <<database, vars, mvccVars>>

MCKey == {x, y}
MCValue == {on}
MCPredicate == {{x, y} \X {on}}
MCConstraint == {{s \in [MCKey -> MCValue \cup {Absent}] : \E k \in MCKey : s[k] = on}}

\* Keys and values are only compared.
IsolationSymmetry == Permutations(MCKey) \cup Permutations(MValue)

\* abort() of a committed transaction only changes the status it reports: no later
\* operation reads it, because membership of committed decides visibility and a
\* transaction that is not active refuses all operations.  Of an aborted one, and of
\* one that committed without a write, nothing is looked at again, and the dependency
\* graph is only reported.  States that differ in nothing else behave alike.  The
\* same holds of the multi-version database.
Reported == [t \in Tx |-> IF t \in committed THEN "committed" ELSE status[t]]
Footprint == [t \in Tx |-> IF \/ Reported[t] = "aborted"
                              \/ Reported[t] = "committed" /\ IsReadOnly(t)
                           THEN <<>>
                           ELSE <<start[t], commitTs[t], readSet[t], buffer[t], predLocks[t]>>]
MFootprint == [t \in MV!Tx |->
    IF mstatus[t] = "active" THEN <<readOnly[t], activeAtStart[t], writeSet[t]>>
    ELSE IF mstatus[t] = "committed" /\ writeSet[t] # {} THEN <<activeAtStart[t], writeSet[t]>>
    ELSE <<>>]
StatusView == <<database, clock, dbVars, Reported, Footprint,
                versions, mstatus, MFootprint, collecting, committedValue>>

IsolationInit ==
    /\ database \in {"ssi", "mvcc"}
    /\ Init /\ MV!Init
    /\ database = "ssi" => ~collecting
    /\ database = "mvcc" => ~pessimistic

IsolationNext ==
    /\ UNCHANGED database
    /\ \/ database = "ssi" /\ Next /\ UNCHANGED mvccVars
       \/ database = "mvcc" /\ MV!Next /\ UNCHANGED vars

IsolationSpec == IsolationInit /\ [][IsolationNext]_isolationVars

(***************************************************************************)
(* Properties                                                              *)
(***************************************************************************)

\* snapshot-isolation: of two transactions that overlapped and wrote a key at most
\* one commits: the versions that a conflict check needs are never collected before.
\* Every variable has its type.
WritersExclude == MV!TypeOK /\ MV!FirstCommitterWins

\* snapshot-isolation: a new transaction reads, of every key, exactly what the commits
\* so far left there, whatever the order of writes, marks of deletion, commits and
\* collections of versions.
CommitsInOrder == MV!CommittedState

\* snapshot-isolation: what an active transaction reads of a key it did not write
\* stays the same, whatever others commit or abort, as long as the application
\* collects no garbage.
ReadsStable == [][MV!KeepsReads]_mvccVars
=============================================================================
