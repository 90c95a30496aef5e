------------------------------- MODULE Dynamo -------------------------------
(***************************************************************************)
(* leaderless-replication/dynamo.py: ReplicaNode and DynamoCluster.        *)
(*                                                                         *)
(* Every operation treats the keys independently of each other, so the     *)
(* model follows one key.  The operations of the cluster are calls of one  *)
(* client library and do not overlap.  A replica that does not have the    *)
(* key holds version 0; the versions of the code start at 1.               *)
(*                                                                         *)
(* The code keeps hints in a list on the first available replica; neither  *)
(* the holder nor the order matters to deliver_hints, because the versions *)
(* of the hints for one replica differ and write keeps the highest, so     *)
(* hints is a set.                                                         *)
(***************************************************************************)
EXTENDS Integers, FiniteSets

CONSTANTS N,          \* num_replicas
          W, R,       \* write_quorum, read_quorum
          Value,      \* values that are put
          None,       \* no value
          Sloppy,     \* sloppy_quorum
          MaxVersion  \* bound: successful puts

ASSUME QuorumAssumption == N \in Nat /\ W \in 1..N /\ R \in 1..N
ASSUME DataAssumption == Sloppy \in BOOLEAN /\ MaxVersion \in Nat

Node == 1..N          \* in the order of the dictionary nodes

VARIABLES
  store,              \* ReplicaNode._store[key]
  up,                 \* replicas with _available
  hints,              \* ReplicaNode._hints of all replicas
  counter,            \* _version_counters[key]
  acked,              \* history: the last put that returned a version
  lastRead            \* history: the version the last get returned

vars == <<store, up, hints, counter, acked, lastRead>>

Versioned == [version : Nat, value : Value \cup {None}]
Hint == [version : Nat, value : Value, target : Node]
Missing == [version |-> 0, value |-> None]

Init ==
  /\ store = [n \in Node |-> Missing]
  /\ up = Node
  /\ hints = {}
  /\ counter = 0
  /\ acked = Missing
  /\ lastRead = 0

-----------------------------------------------------------------------------
(* ReplicaNode.write accepts a version that is not older than its own.     *)
Accepts_Any(n, version) == TRUE
Accepts(n, version) == version >= store[n].version

NewVersion == counter + 1

Accepting == {n \in up : Accepts(n, NewVersion)}

Written(v) ==
  [n \in Node |-> IF n \in Accepting THEN [version |-> NewVersion, value |-> v]
                                     ELSE store[n]]

(* Sloppy quorum: a hint for every replica that is down.                   *)
NewHints(v) ==
  IF Sloppy THEN {[version |-> NewVersion, value |-> v, target |-> t] : t \in Node \ up}
            ELSE {}

PutSucceeds(v) ==
  /\ counter < MaxVersion
  /\ Cardinality(Accepting) >= W
  /\ store' = Written(v)
  /\ counter' = NewVersion
  /\ hints' = hints \cup NewHints(v)
  /\ acked' = [version |-> NewVersion, value |-> v]
  /\ UNCHANGED <<up, lastRead>>

(* The version counter is rolled back; the replicas that accepted the      *)
(* value keep it.                                                          *)
RolledBack(version) == version - 1

PutFails(v) ==
  /\ counter < MaxVersion
  /\ Cardinality(Accepting) < W
  /\ store' = Written(v)
  /\ counter' = RolledBack(NewVersion)
  /\ UNCHANGED <<up, hints, acked, lastRead>>

-----------------------------------------------------------------------------
(* The first available replica with the highest version.                   *)
IsBest(b) ==
  /\ b \in up
  /\ \A n \in up : store[n].version <= store[b].version
  /\ \A n \in up : store[n].version = store[b].version => b <= n

Repaired_None(b) == store
Repaired(b) ==
  [n \in Node |-> IF n \in up /\ store[n].version < store[b].version
                  THEN store[b] ELSE store[n]]

(* A quorum read, with read repair.  It asks every available replica; if   *)
(* fewer than R are available it raises and changes nothing.               *)
Get ==
  /\ Cardinality(up) >= R
  /\ \E b \in Node :
       /\ IsBest(b)
       /\ store' = Repaired(b)
       /\ lastRead' = store[b].version
  /\ UNCHANGED <<up, hints, counter, acked>>

AntiEntropyRepair ==
  /\ \E b \in Node : IsBest(b) /\ store' = Repaired(b)
  /\ UNCHANGED <<up, hints, counter, acked, lastRead>>

(* The newest hint for a replica, if the replica accepts it.               *)
Delivered(n, h) ==
  /\ h \in hints
  /\ h.target = n
  /\ \A g \in hints : g.target = n => g.version <= h.version
  /\ Accepts(n, h.version)

AfterHints(n) ==
  IF n \in up /\ \E h \in hints : Delivered(n, h)
  THEN LET h == CHOOSE h \in hints : Delivered(n, h)
       IN [version |-> h.version, value |-> h.value]
  ELSE store[n]

DeliverHints ==
  /\ hints # {}
  /\ store' = [n \in Node |-> AfterHints(n)]
  /\ hints' = {h \in hints : h.target \notin up}
  /\ UNCHANGED <<up, counter, acked, lastRead>>

SetNodeAvailable(n) ==
  /\ up' \in {up \cup {n}, up \ {n}}
  /\ UNCHANGED <<store, hints, counter, acked, lastRead>>

Next ==
  \/ \E v \in Value : PutSucceeds(v) \/ PutFails(v)
  \/ Get
  \/ AntiEntropyRepair
  \/ DeliverHints
  \/ \E n \in Node : SetNodeAvailable(n)

Spec == Init /\ [][Next]_vars

-----------------------------------------------------------------------------
(* Every variable has its type; in particular the version counter, which a *)
(* failed put sets back, never leaves the naturals.                        *)
TypeOK ==
  /\ store \in [Node -> Versioned]
  /\ up \subseteq Node
  /\ hints \subseteq Hint
  /\ counter \in Nat
  /\ acked \in Versioned
  /\ lastRead \in Nat

Holders == {n \in Node : \/ store[n].version > acked.version
                         \/ store[n] = acked}

(* If R + W > N, every read quorum has a replica with the last             *)
(* acknowledged put or with a newer version: repairs, failed puts and      *)
(* hints delivered late never overwrite it with something older.           *)
AckedSurvives ==
  R + W > N =>
    \A Q \in SUBSET Node :
      Cardinality(Q) >= R => \E n \in Q : n \in Holders

(* The reason: at least W replicas hold the acknowledged put or something  *)
(* newer, the counter is its version, and a hint of that version carries   *)
(* its value.                                                              *)
AckedInv ==
  /\ counter = acked.version
  /\ \A h \in hints :
       /\ h.version <= acked.version
       /\ h.version = acked.version => h.value = acked.value
  /\ Cardinality(Holders) >= W

Readers == {n \in Node : store[n].version >= lastRead}

(* If two read quorums always meet, a get never returns an older version   *)
(* than an earlier get did, also when the version it had seen belongs to a *)
(* put that failed: read repair spreads it before get returns.             *)
MonotonicReads == [][2 * R > N => lastRead' >= lastRead]_vars
=============================================================================
