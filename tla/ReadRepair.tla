------------------------------ MODULE ReadRepair ------------------------------
(***************************************************************************)
(* read-repair/read_repair.py: Replica and ReadRepairStore, for one key.   *)
(*                                                                         *)
(* put writes to the first W available replicas, get asks the first R and  *)
(* brings those up to date, anti_entropy_repair brings every available one *)
(* up to date.  The value a put writes is its number.                      *)
(***************************************************************************)
EXTENDS Integers, Sequences, FiniteSets, FiniteSetsExt

CONSTANTS
    Repl,           \* replicas 1..n, in order
    RRQuorums,      \* pairs <<R, W>> to construct a store with
    Absent,         \* the key is not in the replica's store
    MaxRRPuts       \* bound: puts

VARIABLES
    quorums,        \* read_quorum, write_quorum
    copies,         \* Replica._store[key]: a value and a version
    avail,          \* the replicas that are available
    puts            \* how many puts succeeded

repairVars == <<quorums, copies, avail, puts>>

ReadQuorum == quorums[1]
WriteQuorum == quorums[2]

\* available[:n]
FirstAvailable(n) == {r \in avail : Cardinality({s \in avail : s < r}) < n}

Version(c) == IF c = Absent THEN 0 ELSE c.ver

\* The newest copy of some replicas; (None, 0) when there is none.
NewestCopy(rs) ==
    LET best == Max({Version(copies[r]) : r \in rs} \cup {0})
    IN  IF best = 0 THEN [val |-> 0, ver |-> 0]
        ELSE copies[Min({r \in rs : Version(copies[r]) = best})]

\* put: the version follows the greatest at any replica, available or not.
NextVersion_Available == NewestCopy(avail).ver + 1
NextVersion == NewestCopy(Repl).ver + 1

RRPut ==
    /\ puts < MaxRRPuts
    /\ Cardinality(avail) >= WriteQuorum
    /\ copies' = [r \in Repl |-> IF r \in FirstAvailable(WriteQuorum)
                     /\ NextVersion >= Version(copies[r])
                  THEN [val |-> puts + 1, ver |-> NextVersion] ELSE copies[r]]
    /\ puts' = puts + 1
    /\ UNCHANGED <<quorums, avail>>

\* Replicas without the key, and those behind, take the newest copy.
Repaired(rs) ==
    [r \in Repl |-> IF r \in rs /\ (copies[r] = Absent \/ copies[r].ver < NewestCopy(rs).ver)
                    THEN NewestCopy(rs) ELSE copies[r]]

\* get returns before the repair when none of the R has the key.
RRGet ==
    /\ Cardinality(avail) >= ReadQuorum
    /\ copies' = IF NewestCopy(FirstAvailable(ReadQuorum)).ver = 0 THEN copies
                 ELSE Repaired(FirstAvailable(ReadQuorum))
    /\ UNCHANGED <<quorums, avail, puts>>

\* anti_entropy_repair has no such test: replicas without the key get (None, 0).
AntiEntropyRepair ==
    /\ copies' = Repaired(avail)
    /\ UNCHANGED <<quorums, avail, puts>>

SetReplicaAvailable(r) ==
    /\ avail' = IF r \in avail THEN avail \ {r} ELSE avail \cup {r}
    /\ UNCHANGED <<quorums, copies, puts>>

RepairInit ==
    /\ quorums \in RRQuorums
    /\ copies = [r \in Repl |-> Absent] /\ avail = Repl /\ puts = 0

RepairNext ==
    \/ RRPut \/ RRGet \/ AntiEntropyRepair
    \/ \E r \in Repl : SetReplicaAvailable(r)

RepairSpec == RepairInit /\ [][RepairNext]_repairVars

(***************************************************************************)
(* Properties                                                              *)
(***************************************************************************)

\* With R + W > N a get that finds R replicas, whichever are up by then, returns
\* the value of the last put, though puts, repairs and gets reached different
\* replicas as these came and went.
ReadsLastPut ==
    ReadQuorum + WriteQuorum > Cardinality(Repl) /\ Cardinality(avail) >= ReadQuorum =>
        NewestCopy(FirstAvailable(ReadQuorum)).val = puts

\* Why: versions count the puts, a copy of a version holds the put of that number,
\* and the last put is at W replicas, which no repair sets back.
RepairInv ==
    /\ quorums \in RRQuorums /\ avail \subseteq Repl /\ puts \in Nat
    /\ copies \in [Repl -> {Absent} \cup [val : Nat, ver : Nat]]
    /\ \A r \in Repl : copies[r] # Absent => copies[r].ver <= puts /\ copies[r].val = copies[r].ver
    /\ puts > 0 => Cardinality({r \in Repl : Version(copies[r]) = puts}) >= WriteQuorum
=============================================================================
