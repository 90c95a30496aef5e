-------------------------- MODULE ReplicationProofs --------------------------
(***************************************************************************)
(* leaderless-replication: acknowledged puts survive and reads do not go   *)
(* back, with strict and sloppy quorums.  The two stores of MCReplication  *)
(* that number their puts, read repair and hinted handoff: what a get      *)
(* returns, and where a missed version is.  Followers of a leader's log    *)
(* show its past; versions with vector clocks are ordered by causality.    *)
(* For any replicas, quorums, values, availability, times and log sizes.   *)
(***************************************************************************)
EXTENDS MCReplication, Sequences, NumberLemmas, FiniteSetTheorems, TLAPS

-----------------------------------------------------------------------------
(* leaderless-replication.                                                 *)

LEMMA NodeFinite ==
  /\ IsFiniteSet(Node) /\ Cardinality(Node) = N
  /\ \A S \in SUBSET Node : IsFiniteSet(S) /\ Cardinality(S) \in Nat
<1>1. IsFiniteSet(Node) /\ Cardinality(Node) = N
  BY QuorumAssumption, FS_Interval DEF Node
<1>2. ASSUME NEW S \in SUBSET Node PROVE IsFiniteSet(S) /\ Cardinality(S) \in Nat
  BY <1>1, FS_Subset, FS_CardinalityType
<1> QED
  BY <1>1, <1>2

(* Two sets of replicas that are together larger than the cluster meet. *)
LEMMA QuorumsMeet ==
  ASSUME NEW S \in SUBSET Node, NEW T \in SUBSET Node,
         Cardinality(S) + Cardinality(T) > N
  PROVE  \E n \in S : n \in T
<1>1. S \cap T # {}
  BY NodeFinite, FS_MajoritiesIntersect
<1> QED
  BY <1>1

(* A larger set of replicas is still a quorum. *)
LEMMA QuorumGrows ==
  ASSUME NEW S \in SUBSET Node, NEW T \in SUBSET Node, S \subseteq T,
         NEW q \in Nat, Cardinality(S) >= q
  PROVE  Cardinality(T) >= q
<1>1. IsFiniteSet(T) /\ Cardinality(S) \in Nat /\ Cardinality(T) \in Nat
  BY NodeFinite
<1>2. Cardinality(S) <= Cardinality(T)
  BY <1>1, FS_Subset
<1> QED
  BY <1>1, <1>2

(* What a delivered hint leaves behind at its replica. *)
LEMMA HintResult ==
  ASSUME TypeOK, NEW n \in Node
  PROVE  \/ AfterHints(n) = store[n]
         \/ \E h \in hints : /\ h.version >= store[n].version
                             /\ AfterHints(n) = [version |-> h.version, value |-> h.value]
<1>1. CASE n \in up /\ \E h \in hints : Delivered(n, h)
  <2> DEFINE h == CHOOSE h \in hints : Delivered(n, h)
  <2>1. h \in hints /\ Delivered(n, h)
    BY <1>1
  <2>2. AfterHints(n) = [version |-> h.version, value |-> h.value]
    BY <1>1 DEF AfterHints
  <2>3. h.version >= store[n].version
    BY <2>1 DEF Delivered, Accepts
  <2> QED
    BY <2>1, <2>2, <2>3
<1>2. CASE ~(n \in up /\ \E h \in hints : Delivered(n, h))
  BY <1>2 DEF AfterHints
<1> QED
  BY <1>1, <1>2

LEMMA TypeInit == Init => TypeOK
BY DEF Init, TypeOK, Missing, Versioned

LEMMA TypeStep == TypeOK /\ [Next]_vars => TypeOK'
<1> SUFFICES ASSUME TypeOK, [Next]_vars PROVE TypeOK'
  OBVIOUS
<1>1. ASSUME NEW v \in Value PROVE Written(v) \in [Node -> Versioned] /\ NewHints(v) \subseteq Hint
  <2>1. NewVersion \in Nat
    BY DEF TypeOK, NewVersion
  <2>2. [version |-> NewVersion, value |-> v] \in Versioned
    BY <2>1 DEF Versioned
  <2>3. Written(v) \in [Node -> Versioned]
    BY <2>2 DEF TypeOK, Written
  <2>4. NewHints(v) \subseteq Hint
    BY <2>1 DEF NewHints, Hint
  <2> QED
    BY <2>3, <2>4
<1>2. ASSUME NEW b \in Node PROVE Repaired(b) \in [Node -> Versioned]
  BY DEF TypeOK, Repaired
<1>3. ASSUME NEW v \in Value, PutSucceeds(v) PROVE TypeOK'
  <2>1. acked' \in Versioned /\ counter' \in Nat
    BY <1>3 DEF PutSucceeds, TypeOK, NewVersion, Versioned
  <2> QED
    BY <1>1, <1>3, <2>1 DEF PutSucceeds, TypeOK
<1>4. ASSUME NEW v \in Value, PutFails(v) PROVE TypeOK'
  <2>1. counter' \in Nat
    BY <1>4 DEF PutFails, TypeOK, NewVersion, RolledBack
  <2> QED
    BY <1>1, <1>4, <2>1 DEF PutFails, TypeOK
<1>5. CASE Get
  <2>1. PICK b \in Node : store' = Repaired(b) /\ lastRead' = store[b].version
    BY <1>5 DEF Get
  <2>2. lastRead' \in Nat
    BY <2>1 DEF TypeOK, Versioned
  <2> QED
    BY <1>2, <1>5, <2>1, <2>2 DEF Get, TypeOK
<1>6. CASE AntiEntropyRepair
  BY <1>2, <1>6 DEF AntiEntropyRepair, TypeOK
<1>7. CASE DeliverHints
  <2>1. ASSUME NEW n \in Node PROVE AfterHints(n) \in Versioned
    BY HintResult DEF TypeOK, Hint, Versioned
  <2>2. store' \in [Node -> Versioned]
    BY <1>7, <2>1 DEF DeliverHints
  <2> QED
    BY <1>7, <2>2 DEF DeliverHints, TypeOK
<1>8. ASSUME NEW n \in Node, SetNodeAvailable(n) PROVE TypeOK'
  BY <1>8 DEF SetNodeAvailable, TypeOK
<1>9. CASE UNCHANGED vars
  BY <1>9 DEF vars, TypeOK
<1> QED
  BY <1>3, <1>4, <1>5, <1>6, <1>7, <1>8, <1>9 DEF Next

(* Every reachable state of the cluster is well typed. *)
THEOREM TypeCorrect == Spec => []TypeOK
<1> QED
  BY TypeInit, TypeStep, PTL DEF Spec

-----------------------------------------------------------------------------
(* A replica that holds the acknowledged put, or a newer version, keeps    *)
(* doing so in every step that does not acknowledge another put.           *)
LEMMA HoldersGrow ==
  ASSUME TypeOK, TypeOK', AckedInv, acked' = acked,
         \A n \in Holders : \/ store'[n] = store[n]
                            \/ store'[n].version > store[n].version
                            \/ store'[n] = acked
                            \/ store'[n].version > acked.version
  PROVE  Cardinality(Holders') >= W
<1>1. Holders \subseteq Holders'
  <2> SUFFICES ASSUME NEW n \in Holders PROVE n \in Holders'
    OBVIOUS
  <2>1. n \in Node /\ (store[n].version > acked.version \/ store[n] = acked)
    BY DEF Holders
  <2>2. store'[n].version > acked.version \/ store'[n] = acked
    BY <2>1 DEF TypeOK, Versioned
  <2> QED
    BY <2>1, <2>2 DEF Holders
<1>2. Holders \in SUBSET Node /\ Holders' \in SUBSET Node
  BY DEF Holders
<1>3. W \in Nat /\ Cardinality(Holders) >= W
  BY QuorumAssumption DEF AckedInv
<1> HIDE DEF Holders
<1> QED
  BY <1>1, <1>2, <1>3, QuorumGrows

LEMMA AckedInit == Init => AckedInv
<1> SUFFICES ASSUME Init PROVE AckedInv
  OBVIOUS
<1>1. Holders = Node
  BY DEF Init, Holders
<1> QED
  BY <1>1, NodeFinite, QuorumAssumption DEF Init, AckedInv, Missing

LEMMA AckedStep == TypeOK /\ TypeOK' /\ AckedInv /\ [Next]_vars => AckedInv'
<1> SUFFICES ASSUME TypeOK, TypeOK', AckedInv, [Next]_vars PROVE AckedInv'
  OBVIOUS
<1>1. ASSUME NEW v \in Value, PutSucceeds(v) PROVE AckedInv'
  <2>1. Accepting \in SUBSET Node /\ Holders' \in SUBSET Node
    BY DEF Accepting, TypeOK, Holders
  <2>2. Accepting \subseteq Holders'
    BY <1>1, <2>1 DEF PutSucceeds, Holders, Written
  <2>3. Cardinality(Accepting) >= W /\ W \in Nat
    BY <1>1, QuorumAssumption DEF PutSucceeds
  <2>4. Cardinality(Holders') >= W
    <3> HIDE DEF Holders, Accepting
    <3> QED
      BY <2>1, <2>2, <2>3, QuorumGrows
  <2>5. counter' = acked'.version /\ acked'.version > acked.version /\ acked'.value = v
    BY <1>1 DEF PutSucceeds, TypeOK, Versioned, NewVersion, AckedInv
  <2>6. ASSUME NEW h \in hints'
        PROVE  /\ h.version <= acked'.version
               /\ h.version = acked'.version => h.value = acked'.value
    <3>1. CASE h \in hints
      BY <2>5, <3>1 DEF AckedInv, TypeOK, Hint, Versioned
    <3>2. CASE h \in NewHints(v)
      BY <1>1, <2>5, <3>2 DEF NewHints, PutSucceeds, TypeOK, Versioned
    <3> QED
      BY <1>1, <3>1, <3>2 DEF PutSucceeds
  <2> QED
    BY <2>4, <2>5, <2>6 DEF AckedInv
<1>2. ASSUME NEW v \in Value, PutFails(v) PROVE AckedInv'
  <2>1. counter' = counter /\ acked' = acked /\ hints' = hints
    BY <1>2 DEF PutFails, RolledBack, NewVersion, TypeOK
  <2>2. ASSUME NEW n \in Node
        PROVE  store'[n] = store[n] \/ store'[n].version > acked.version
    BY <1>2 DEF PutFails, Written, NewVersion, AckedInv, TypeOK, Versioned
  <2>3. Cardinality(Holders') >= W
    BY <2>1, <2>2, HoldersGrow DEF Holders
  <2> QED
    BY <2>1, <2>3 DEF AckedInv
<1>3. ASSUME NEW b \in Node, store' = Repaired(b), UNCHANGED <<hints, counter, acked>>
      PROVE  AckedInv'
  <2>1. ASSUME NEW n \in Node
        PROVE  store'[n] = store[n] \/ store'[n].version > store[n].version
    BY <1>3 DEF Repaired, TypeOK, Versioned
  <2>2. Cardinality(Holders') >= W
    BY <1>3, <2>1, HoldersGrow DEF Holders
  <2> QED
    BY <1>3, <2>2 DEF AckedInv
<1>4. CASE DeliverHints
  <2>1. ASSUME NEW n \in Holders
        PROVE  \/ store'[n] = store[n]
               \/ store'[n].version > store[n].version
               \/ store'[n] = acked
    <3>1. n \in Node /\ store'[n] = AfterHints(n) /\ store[n].version >= acked.version
      BY <1>4 DEF DeliverHints, Holders, TypeOK, Versioned
    <3>2. CASE AfterHints(n) = store[n]
      BY <3>1, <3>2
    <3>3. ASSUME NEW h \in hints, h.version >= store[n].version,
                 AfterHints(n) = [version |-> h.version, value |-> h.value]
          PROVE  store'[n] = acked
      <4>0. h.version \in Nat /\ store[n].version \in Nat /\ acked.version \in Nat
        BY <3>1 DEF TypeOK, Hint, Versioned
      <4>1. h.version = acked.version /\ h.value = acked.value
        BY <3>1, <3>3, <4>0 DEF AckedInv
      <4> QED
        BY <3>1, <3>3, <4>1 DEF TypeOK, Versioned
    <3> QED
      BY <3>1, <3>2, <3>3, HintResult
  <2>2. acked' = acked /\ counter' = counter /\ hints' \subseteq hints
    BY <1>4 DEF DeliverHints
  <2>3. Cardinality(Holders') >= W
    BY <2>1, <2>2, HoldersGrow
  <2> QED
    BY <2>2, <2>3 DEF AckedInv
<1>5. ASSUME UNCHANGED <<store, hints, counter, acked>> PROVE AckedInv'
  <2>1. Holders' = Holders
    BY <1>5 DEF Holders
  <2> QED
    BY <1>5, <2>1 DEF AckedInv
<1>6. CASE Get
  BY <1>3, <1>6 DEF Get
<1>7. CASE AntiEntropyRepair
  BY <1>3, <1>7 DEF AntiEntropyRepair
<1>8. ASSUME NEW n \in Node, SetNodeAvailable(n) PROVE AckedInv'
  BY <1>5, <1>8 DEF SetNodeAvailable
<1>9. CASE UNCHANGED vars
  BY <1>5, <1>9 DEF vars
<1> QED
  BY <1>1, <1>2, <1>4, <1>6, <1>7, <1>8, <1>9 DEF Next

LEMMA AckedImplies == TypeOK /\ AckedInv => AckedSurvives
<1> SUFFICES ASSUME TypeOK, AckedInv, R + W > N,
                    NEW Q \in SUBSET Node, Cardinality(Q) >= R
             PROVE  \E n \in Q : n \in Holders
  BY DEF AckedSurvives
<1>1. Holders \in SUBSET Node /\ Cardinality(Holders) >= W
  BY DEF Holders, AckedInv
<1>2. Cardinality(Q) + Cardinality(Holders) > N
  BY <1>1, NodeFinite, QuorumAssumption
<1> HIDE DEF Holders
<1> QED
  BY <1>1, <1>2, QuorumsMeet

(* With R + W > N no read quorum ever misses the last acknowledged put.    *)
THEOREM AckedPutsSurvive == Spec => []AckedSurvives
<1> QED
  BY TypeInit, TypeStep, AckedInit, AckedStep, AckedImplies, PTL DEF Spec

-----------------------------------------------------------------------------
(* What a get returned stays at R replicas: it was at R of them when get   *)
(* returned, and no step lowers a version.                                 *)
ReadInv == Cardinality(Readers) >= R

LEMMA VersionsGrow ==
  ASSUME TypeOK, [Next]_vars, NEW n \in Node
  PROVE  store'[n].version >= store[n].version
<1> USE DEF TypeOK, Versioned
<1>1. ASSUME NEW v \in Value, store' = Written(v) PROVE store'[n].version >= store[n].version
  BY <1>1 DEF Written, Accepting, Accepts, NewVersion
<1>2. ASSUME NEW b \in Node, store' = Repaired(b) PROVE store'[n].version >= store[n].version
  BY <1>2 DEF Repaired
<1>3. CASE DeliverHints
  BY <1>3, HintResult DEF DeliverHints, Hint
<1>4. CASE UNCHANGED store
  BY <1>4
<1> QED
  BY <1>1, <1>2, <1>3, <1>4 DEF Next, vars, PutSucceeds, PutFails, Get,
     AntiEntropyRepair, SetNodeAvailable

LEMMA ReadInit == Init => ReadInv
<1> SUFFICES ASSUME Init PROVE ReadInv
  OBVIOUS
<1>1. Readers = Node
  BY DEF Init, Readers, Missing
<1> QED
  BY <1>1, NodeFinite, QuorumAssumption DEF ReadInv

LEMMA ReadStep == TypeOK /\ TypeOK' /\ ReadInv /\ [Next]_vars => ReadInv'
<1> SUFFICES ASSUME TypeOK, TypeOK', ReadInv, [Next]_vars PROVE ReadInv'
  OBVIOUS
<1>1. R \in Nat /\ Readers \in SUBSET Node /\ Readers' \in SUBSET Node
  BY QuorumAssumption DEF Readers
<1>2. CASE Get
  <2>1. PICK b \in Node : /\ IsBest(b) /\ store' = Repaired(b)
                          /\ lastRead' = store[b].version
    BY <1>2 DEF Get
  <2>2. up \subseteq Readers'
    BY <2>1 DEF Readers, Repaired, IsBest, TypeOK, Versioned
  <2>3. up \in SUBSET Node /\ Cardinality(up) >= R
    BY <1>2 DEF TypeOK, Get
  <2> QED
    BY <1>1, <2>2, <2>3, QuorumGrows DEF ReadInv
<1>3. CASE lastRead' = lastRead
  <2>1. Readers \subseteq Readers'
    BY <1>3, VersionsGrow DEF Readers, TypeOK, Versioned
  <2> QED
    BY <1>1, <2>1, QuorumGrows DEF ReadInv
<1> QED
  BY <1>2, <1>3 DEF Next, vars, PutSucceeds, PutFails, AntiEntropyRepair,
     DeliverHints, SetNodeAvailable

LEMMA ReadForward ==
  ASSUME TypeOK, ReadInv, [Next]_vars, 2 * R > N
  PROVE  lastRead' >= lastRead
<1>1. CASE Get
  <2>1. PICK b \in Node : IsBest(b) /\ lastRead' = store[b].version
    BY <1>1 DEF Get
  <2>2. /\ up \in SUBSET Node /\ Cardinality(up) >= R
        /\ Readers \in SUBSET Node /\ Cardinality(Readers) >= R
    BY <1>1 DEF TypeOK, Get, ReadInv, Readers
  <2>3. Cardinality(up) + Cardinality(Readers) > N
    BY <2>2, NodeFinite, QuorumAssumption
  <2>4. PICK n \in up : n \in Readers
    BY <2>2, <2>3, QuorumsMeet
  <2> QED
    BY <2>1, <2>4 DEF Readers, IsBest, TypeOK, Versioned
<1>2. CASE lastRead' = lastRead
  BY <1>2 DEF TypeOK
<1> QED
  BY <1>1, <1>2 DEF Next, vars, PutSucceeds, PutFails, AntiEntropyRepair,
     DeliverHints, SetNodeAvailable

(* With 2R > N the version that get returns never goes back.               *)
THEOREM ReadsAreMonotonic == Spec => MonotonicReads
<1>1. TypeOK /\ ReadInv /\ [Next]_vars => [2 * R > N => lastRead' >= lastRead]_vars
  BY ReadForward
<1> QED
  BY TypeInit, TypeStep, ReadInit, ReadStep, <1>1, PTL DEF Spec, MonotonicReads

-----------------------------------------------------------------------------
(* Numbers of the two other stores.                                        *)

(* The greatest and the least of some numbers. *)
LEMMA MaxIs ==
  ASSUME NEW S \in SUBSET Int, NEW x \in S, \A y \in S : y <= x
  PROVE  RR!Max(S) = x
<1>1. \A z \in S : (\A y \in S : z >= y) => z = x
  OBVIOUS
<1> QED
  BY <1>1 DEF RR!Max

LEMMA MaxOfHH ==
  ASSUME NEW S \in SUBSET Int, NEW x \in S, \A y \in S : y <= x
  PROVE  HH!Max(S) = x
<1>1. \A z \in S : (\A y \in S : z >= y) => z = x
  OBVIOUS
<1> QED
  BY <1>1 DEF HH!Max

(* The instances count as this module does. *)
LEMMA CardinalityOfRR == \A S : RR!Cardinality(S) = Cardinality(S)
BY DEF RR!Cardinality, Cardinality

-----------------------------------------------------------------------------
(* read-repair.                                                            *)

Copy == [val : Nat, ver : Nat]

LEMMA VersionType ==
  ASSUME RR!RepairInv, NEW r \in Repl
  PROVE  /\ RR!Version(copies[r]) \in Nat /\ RR!Version(copies[r]) <= puts
         /\ copies[r] # Absent => copies[r] \in Copy /\ RR!Version(copies[r]) = copies[r].ver
                                /\ copies[r].val = copies[r].ver
         /\ copies[r] = Absent => RR!Version(copies[r]) = 0
BY DEF RR!RepairInv, RR!Version, Copy

(* What NewestCopy finds among some replicas: the greatest version, and the *)
(* put of that number.                                                      *)
LEMMA NewestCopyIs ==
  ASSUME RR!RepairInv, NEW rs \in SUBSET Repl
  PROVE  /\ RR!NewestCopy(rs) \in Copy
         /\ RR!NewestCopy(rs).val = RR!NewestCopy(rs).ver
         /\ RR!NewestCopy(rs).ver <= puts
         /\ \A r \in rs : RR!Version(copies[r]) <= RR!NewestCopy(rs).ver
<1> DEFINE V == {RR!Version(copies[r]) : r \in rs} \cup {0}
           best == RR!Max(V)
           B == {r \in rs : RR!Version(copies[r]) = best}
<1>1. V \in SUBSET Nat /\ V \in SUBSET Int /\ puts \in Nat /\ \A v \in V : v <= puts
  <2>1. puts \in Nat
    BY DEF RR!RepairInv
  <2> QED
    BY <2>1, VersionType
<1>2. PICK x \in V : \A y \in V : y <= x
  <2>1. 0 \in V
    OBVIOUS
  <2> HIDE DEF V
  <2> QED
    BY <1>1, <2>1, GreatestNatural
<1>3. best = x
  <2> HIDE DEF V
  <2> QED
    BY <1>1, <1>2, MaxIs
<1>4. best \in Nat /\ best <= puts /\ \A r \in rs : RR!Version(copies[r]) <= best
  BY <1>1, <1>2, <1>3
<1>5. RR!NewestCopy(rs) = IF best = 0 THEN [val |-> 0, ver |-> 0] ELSE copies[RR!Min(B)]
  BY DEF RR!NewestCopy
<1>6. CASE best = 0
  <2>1. RR!NewestCopy(rs) = [val |-> 0, ver |-> 0]
    BY <1>5, <1>6
  <2> HIDE DEF best
  <2> QED
    BY <1>4, <1>6, <2>1 DEF Copy
<1>7. CASE best # 0
  <2>1. B # {}
    BY <1>2, <1>3, <1>7
  <2>2. B \in SUBSET Int /\ B \in SUBSET Repl /\ IsFiniteSet(B)
    BY RepairAssumption, FS_Subset
  <2>3. \E i \in B : \A j \in B : i =< j
    <3> HIDE DEF B
    <3> QED
      BY <2>1, <2>2, LeastElement
  <2>4. RR!Min(B) \in B
    <3> HIDE DEF B
    <3> QED
      BY <2>3 DEF RR!Min
  <2> DEFINE m == RR!Min(B)
  <2>5. m \in Repl /\ RR!Version(copies[m]) = best
    BY <2>4
  <2> HIDE DEF m, best, B
  <2>6. copies[m] # Absent /\ copies[m] \in Copy /\ copies[m].ver = best
        /\ copies[m].val = copies[m].ver
    BY <1>7, <2>5, VersionType
  <2>7. RR!NewestCopy(rs) = copies[m]
    BY <1>5, <1>7 DEF m
  <2> QED
    BY <1>4, <2>6, <2>7
<1> QED
  BY <1>6, <1>7

(* The first n available replicas are n, when there are as many. *)
LEMMA FirstAvailableMany ==
  ASSUME RR!RepairInv, NEW n \in Nat, Cardinality(avail) >= n
  PROVE  RR!FirstAvailable(n) \in SUBSET Repl /\ Cardinality(RR!FirstAvailable(n)) >= n
<1>1. avail \in SUBSET Repl /\ avail \in SUBSET Int /\ IsFiniteSet(avail)
  BY RepairAssumption, FS_Subset DEF RR!RepairInv
<1> DEFINE First == {i \in avail : Cardinality({j \in avail : j < i}) < n}
<1>2. RR!FirstAvailable(n) = First
  BY CardinalityOfRR DEF RR!FirstAvailable
<1>3. Cardinality(First) >= n
  BY <1>1, FirstElements
<1> QED
  BY <1>1, <1>2, <1>3

LEMMA ReplFinite ==
  /\ IsFiniteSet(Repl) /\ Cardinality(Repl) \in Nat
  /\ \A S \in SUBSET Repl : IsFiniteSet(S) /\ Cardinality(S) \in Nat
BY RepairAssumption, FS_Subset, FS_CardinalityType

LEMMA RepairQuorums ==
  ASSUME RR!RepairInv
  PROVE  RR!ReadQuorum \in Nat /\ RR!WriteQuorum \in Nat \ {0}
BY RepairAssumption DEF RR!RepairInv, RR!ReadQuorum, RR!WriteQuorum

(* The replicas that hold the last put. *)
Latest == {r \in Repl : RR!Version(copies[r]) = puts}

(* A step that writes to a replica only what is not older, and that leaves   *)
(* the last put in W places.                                                 *)
LEMMA RepairKeeps ==
  ASSUME RR!RepairInv, NEW rs \in SUBSET Repl, copies' = RR!Repaired(rs),
         UNCHANGED <<quorums, avail, puts>>
  PROVE  RR!RepairInv'
<1> DEFINE new == RR!NewestCopy(rs)
<1>1. new \in Copy /\ new.val = new.ver /\ new.ver <= puts /\ puts \in Nat
  BY NewestCopyIs DEF RR!RepairInv
<1>2. \A r \in Repl :
        copies'[r] = IF r \in rs /\ (copies[r] = Absent \/ copies[r].ver < new.ver)
                     THEN new ELSE copies[r]
  BY DEF RR!Repaired
<1> HIDE DEF new
<1>3. copies' \in [Repl -> {Absent} \cup Copy]
  <2>1. copies \in [Repl -> {Absent} \cup Copy]
    BY DEF RR!RepairInv, Copy
  <2>2. copies' = [r \in Repl |-> copies'[r]]
    BY DEF RR!Repaired
  <2> QED
    BY <1>1, <1>2, <2>1, <2>2
<1>4. \A r \in Repl : copies'[r] # Absent =>
        copies'[r].ver <= puts /\ copies'[r].val = copies'[r].ver
  BY <1>1, <1>2 DEF RR!RepairInv
<1>5. Latest \subseteq Latest'
  <2> SUFFICES ASSUME NEW r \in Repl, RR!Version(copies[r]) = puts
               PROVE  RR!Version(copies'[r]) = puts
    BY DEF Latest
  <2>1. CASE copies'[r] = copies[r]
    BY <2>1
  <2>2. CASE copies'[r] # copies[r]
    <3>1. copies'[r] = new /\ (copies[r] = Absent \/ copies[r].ver < new.ver)
      BY <1>2, <2>2
    <3>2. copies[r] = Absent /\ puts = 0
      BY <1>1, <3>1, VersionType DEF Copy
    <3> QED
      BY <1>1, <3>1, <3>2 DEF RR!Version, Copy
  <2> QED
    BY <2>1, <2>2
<1>6. puts > 0 => Cardinality(Latest') >= RR!WriteQuorum
  <2>1. Latest \in SUBSET Latest' /\ Latest \in SUBSET Repl /\ Latest' \in SUBSET Repl
    BY <1>5 DEF Latest
  <2>2. Cardinality(Latest) <= Cardinality(Latest')
    BY <2>1, ReplFinite, FS_Subset
  <2>3. puts > 0 => Cardinality(Latest) >= RR!WriteQuorum
    BY CardinalityOfRR DEF RR!RepairInv, Latest
  <2>4. Cardinality(Latest) \in Nat /\ Cardinality(Latest') \in Nat
    BY <2>1, ReplFinite
  <2> QED
    BY <2>2, <2>3, <2>4, RepairQuorums
<1>7. puts > 0 => RR!Cardinality({r \in Repl : RR!Version(copies'[r]) = puts}) >= quorums[2]
  BY <1>6, CardinalityOfRR DEF Latest, RR!WriteQuorum
<1> QED
  BY <1>3, <1>4, <1>7 DEF RR!RepairInv, Copy, RR!WriteQuorum

(* The versions that replicas hold count the puts, available or not. *)
LEMMA NextVersionIs ==
  ASSUME RR!RepairInv
  PROVE  RR!NextVersion = puts + 1
<1>1. RR!NewestCopy(Repl).ver \in Nat /\ RR!NewestCopy(Repl).ver <= puts /\ puts \in Nat
  BY NewestCopyIs DEF Copy, RR!RepairInv
<1>2. RR!NewestCopy(Repl).ver >= puts
  <2>1. CASE puts = 0
    BY <1>1, <2>1
  <2>2. CASE puts > 0
    <3>1. Cardinality(Latest) >= RR!WriteQuorum
      BY <2>2, CardinalityOfRR DEF RR!RepairInv, Latest
    <3>2. Latest # {}
      BY <3>1, RepairQuorums, FS_EmptySet
    <3>3. PICK r \in Repl : RR!Version(copies[r]) = puts
      BY <3>2 DEF Latest
    <3> QED
      BY <1>1, <3>3, NewestCopyIs
  <2> QED
    BY <1>1, <2>1, <2>2
<1> QED
  BY <1>1, <1>2 DEF RR!NextVersion

LEMMA PutKeeps ==
  ASSUME RR!RepairInv, RR!RRPut
  PROVE  RR!RepairInv'
<1> DEFINE F == RR!FirstAvailable(RR!WriteQuorum)
           last == [val |-> puts + 1, ver |-> puts + 1]
<1>1. puts \in Nat /\ puts' = puts + 1 /\ last \in Copy /\ UNCHANGED <<quorums, avail>>
  BY DEF RR!RepairInv, RR!RRPut, Copy
<1>2. F \in SUBSET Repl /\ Cardinality(F) >= RR!WriteQuorum
  BY CardinalityOfRR, RepairQuorums, FirstAvailableMany DEF RR!RRPut
<1>3. copies' = [r \in Repl |-> IF r \in F THEN last ELSE copies[r]]
  <2>1. \A r \in Repl : RR!NextVersion >= RR!Version(copies[r])
    BY <1>1, NextVersionIs, VersionType
  <2> HIDE DEF F
  <2> QED
    BY <2>1, NextVersionIs DEF RR!RRPut, F
<1> HIDE DEF F
<1>4. copies' \in [Repl -> {Absent} \cup Copy]
  <2>1. copies \in [Repl -> {Absent} \cup Copy]
    BY DEF RR!RepairInv, Copy
  <2> QED
    BY <1>1, <1>3, <2>1
<1>5. \A r \in Repl : copies'[r] # Absent =>
        copies'[r].ver <= puts + 1 /\ copies'[r].val = copies'[r].ver
  BY <1>1, <1>3, VersionType DEF Copy
<1>6. F \in SUBSET Latest' /\ Latest' \in SUBSET Repl
  <2>1. last # Absent
    BY <1>1, RepairAssumption DEF Copy
  <2>2. \A r \in F : r \in Repl /\ copies'[r] = last
    BY <1>2, <1>3
  <2>3. \A r \in F : RR!Version(copies'[r]) = puts'
    BY <1>1, <2>1, <2>2 DEF RR!Version
  <2> QED
    BY <2>2, <2>3 DEF Latest
<1>7. Cardinality(Latest') >= RR!WriteQuorum
  <2>1. Cardinality(F) <= Cardinality(Latest')
    BY <1>6, ReplFinite, FS_Subset
  <2>2. Cardinality(F) \in Nat /\ Cardinality(Latest') \in Nat
    BY <1>2, <1>6, ReplFinite
  <2> QED
    BY <1>2, <2>1, <2>2, RepairQuorums
<1>8. RR!Cardinality({r \in Repl : RR!Version(copies'[r]) = puts'}) >= quorums[2]
  BY <1>7, CardinalityOfRR DEF Latest, RR!WriteQuorum
<1> QED
  BY <1>1, <1>4, <1>5, <1>8 DEF RR!RepairInv, Copy, RR!WriteQuorum

LEMMA RepairStep ==
  ASSUME RR!RepairInv, RR!RepairNext
  PROVE  RR!RepairInv'
<1>1. CASE RR!RRPut
  BY <1>1, PutKeeps
<1>2. CASE RR!RRGet
  <2>1. RR!FirstAvailable(RR!ReadQuorum) \in SUBSET Repl
    BY DEF RR!FirstAvailable, RR!RepairInv
  <2>2. CASE copies' = RR!Repaired(RR!FirstAvailable(RR!ReadQuorum))
    BY <1>2, <2>1, <2>2, RepairKeeps DEF RR!RRGet
  <2>3. CASE copies' = copies
    BY <1>2, <2>3 DEF RR!RRGet, RR!RepairInv, RR!WriteQuorum
  <2> QED
    BY <1>2, <2>2, <2>3 DEF RR!RRGet
<1>3. CASE RR!AntiEntropyRepair
  <2>1. avail \in SUBSET Repl
    BY DEF RR!RepairInv
  <2> QED
    BY <1>3, <2>1, RepairKeeps DEF RR!AntiEntropyRepair
<1>4. CASE \E r \in Repl : RR!SetReplicaAvailable(r)
  BY <1>4 DEF RR!SetReplicaAvailable, RR!RepairInv, RR!WriteQuorum
<1> QED
  BY <1>1, <1>2, <1>3, <1>4 DEF RR!RepairNext

LEMMA RepairStarts ==
  ASSUME RR!RepairInit
  PROVE  RR!RepairInv
<1>1. quorums \in RRQuorums /\ avail = Repl /\ puts = 0 /\ copies = [r \in Repl |-> Absent]
  BY DEF RR!RepairInit
<1> QED
  BY <1>1 DEF RR!RepairInv

(* The R replicas of a get and the W of the last put have one in common. *)
LEMMA RepairReads ==
  ASSUME RR!RepairInv
  PROVE  RR!ReadsLastPut
<1> DEFINE F == RR!FirstAvailable(RR!ReadQuorum)
<1> SUFFICES ASSUME RR!ReadQuorum + RR!WriteQuorum > RR!Cardinality(Repl),
                    RR!Cardinality(avail) >= RR!ReadQuorum
             PROVE  RR!NewestCopy(F).val = puts
  BY DEF RR!ReadsLastPut
<1>1. F \in SUBSET Repl /\ Cardinality(F) >= RR!ReadQuorum
  BY CardinalityOfRR, RepairQuorums, FirstAvailableMany
<1> HIDE DEF F
<1>2. /\ RR!NewestCopy(F).ver \in Nat /\ RR!NewestCopy(F).ver <= puts /\ puts \in Nat
      /\ RR!NewestCopy(F).val = RR!NewestCopy(F).ver
  BY <1>1, NewestCopyIs DEF Copy, RR!RepairInv
<1>3. CASE puts = 0
  BY <1>2, <1>3
<1>4. CASE puts > 0
  <2>1. Cardinality(Latest) >= RR!WriteQuorum /\ Latest \in SUBSET Repl
    BY <1>4, CardinalityOfRR DEF RR!RepairInv, Latest
  <2>2. Cardinality(F) + Cardinality(Latest) > Cardinality(Repl)
    BY <1>1, <2>1, ReplFinite, RepairQuorums, CardinalityOfRR
  <2>3. F \cap Latest # {}
    BY <1>1, <2>1, <2>2, ReplFinite, FS_MajoritiesIntersect
  <2>4. PICK r \in F : RR!Version(copies[r]) = puts
    BY <2>3 DEF Latest
  <2> QED
    BY <1>1, <1>2, <2>4, NewestCopyIs
<1> QED
  BY <1>2, <1>3, <1>4

-----------------------------------------------------------------------------
(* hinted-handoff.                                                         *)

Missed == [target : Preferred, ver : Nat, created : Nat]

LEMMA StoredIs ==
  ASSUME HH!HintInv, NEW n \in HNode, NEW v \in Nat
  PROVE  HH!Stored(n, v) = IF v >= stored[n] THEN v ELSE stored[n]
<1>1. stored[n] \in Nat
  BY DEF HH!HintInv
<1> DEFINE S == {v, stored[n]}
<1>2. S \in SUBSET Int
  BY <1>1
<1>3. CASE v >= stored[n]
  <2>1. v \in S /\ \A y \in S : y <= v
    BY <1>1, <1>3
  <2>2. HH!Max(S) = v
    BY <1>2, <2>1, MaxOfHH
  <2> QED
    BY <1>3, <2>2 DEF HH!Stored
<1>4. CASE v < stored[n]
  <2>1. stored[n] \in S /\ \A y \in S : y <= stored[n]
    BY <1>1, <1>4
  <2>2. HH!Max(S) = stored[n]
    <3> HIDE DEF S
    <3> QED
      BY <1>2, <2>1, MaxOfHH
  <2> QED
    BY <1>1, <1>4, <2>2 DEF HH!Stored
<1> QED
  BY <1>1, <1>3, <1>4

(* The facts of the invariant, with the hints' fields typed. *)
LEMMA HintFacts ==
  ASSUME HH!HintInv
  PROVE  /\ version \in Nat /\ now \in Nat /\ HintTtl \in Nat
         /\ \A n \in Preferred : /\ n \in HNode /\ hhHints[n] = {}
                                 /\ stored[n] \in Nat /\ owed[n] \in Nat
                                 /\ stored[n] <= owed[n] /\ owed[n] <= version
         /\ \A m \in HNode : \A h \in hhHints[m] :
               /\ h \in Missed /\ h.target \in Preferred /\ h.ver \in Nat /\ h.created \in Nat
               /\ h.ver <= owed[h.target] /\ h.ver <= version /\ h.created <= now
<1>1. /\ version \in Nat /\ now \in Nat /\ HintTtl \in Nat
      /\ \A n \in Preferred : /\ n \in HNode /\ hhHints[n] = {}
                              /\ stored[n] \in Nat /\ owed[n] \in Nat
                              /\ stored[n] <= owed[n] /\ owed[n] <= version
  BY HintAssumption DEF HH!HintInv, HH!HintsCover
<1>2. \A m \in HNode : \A h \in hhHints[m] :
         /\ h \in Missed /\ h.target \in Preferred /\ h.ver \in Nat /\ h.created \in Nat
         /\ h.ver <= owed[h.target] /\ h.created <= now
  BY DEF HH!HintInv, Missed
<1>3. \A m \in HNode : \A h \in hhHints[m] : h.ver <= version
  <2> SUFFICES ASSUME NEW m \in HNode, NEW h \in hhHints[m] PROVE h.ver <= version
    OBVIOUS
  <2>1. h.target \in Preferred /\ h.ver \in Nat /\ h.ver <= owed[h.target]
    BY <1>2
  <2>2. owed[h.target] \in Nat /\ owed[h.target] <= version
    BY <1>1, <2>1
  <2> QED
    BY <1>1, <2>1, <2>2
<1> QED
  BY <1>1, <1>2, <1>3

LEMMA HintedPutKeeps ==
  ASSUME HH!HintInv, HH!HintedPut
  PROVE  HH!HintInv'
<1> DEFINE v == version + 1
           written == Preferred \cap hhUp
           failure == ~sloppy /\ HH!Cardinality(written) < HWriteQuorum
           hinted == IF failure \/ HH!Holders = {} THEN {} ELSE Preferred \ hhUp
           holder == HH!Min(HH!Holders)
           New == [target : hinted, ver : {v}, created : {now}]
<1>1. /\ version' = v /\ UNCHANGED <<sloppy, hhUp, now>>
      /\ stored' = [n \in HNode |-> IF n \in written THEN HH!Stored(n, v) ELSE stored[n]]
      /\ hhHints' = [n \in HNode |-> IF hinted # {} /\ n = holder
                                     THEN hhHints[n] \cup New ELSE hhHints[n]]
      /\ owed' = [n \in Preferred |-> IF n \in written \cup hinted THEN v ELSE owed[n]]
  BY DEF HH!HintedPut
<1>2. hinted \subseteq Preferred \ hhUp
  OBVIOUS
<1>3. hinted # {} => holder \in HNode \ Preferred
  <2> SUFFICES ASSUME HH!Holders # {} PROVE holder \in HNode \ Preferred
    OBVIOUS
  <2>1. HH!Holders \in SUBSET HNode /\ HH!Holders \cap Preferred = {}
    BY DEF HH!Holders
  <2>2. HH!Holders \in SUBSET Int /\ IsFiniteSet(HH!Holders)
    BY <2>1, HintAssumption, FS_Subset
  <2>3. \E i \in HH!Holders : \A j \in HH!Holders : i =< j
    BY <2>2, LeastElement
  <2>4. holder \in HH!Holders
    BY <2>3 DEF HH!Min
  <2> QED
    BY <2>1, <2>4
<1>4. v \in Nat /\ version \in Nat /\ v > version /\ now \in Nat
  BY HintFacts
<1>5. \A h \in New : h \in Missed /\ h.target \in hinted /\ h.ver = v /\ h.created = now
  BY <1>2, <1>4 DEF Missed
<1> HIDE DEF v, hinted, holder, New
<1>6. \A n \in written : HH!Stored(n, v) = v
  BY <1>4, HintFacts, StoredIs
<1>7. stored' \in [HNode -> Nat] /\ owed' \in [Preferred -> Nat]
  <2>1. stored \in [HNode -> Nat] /\ owed \in [Preferred -> Nat]
    BY DEF HH!HintInv
  <2> QED
    BY <1>1, <1>4, <1>6, <2>1
<1>8. \A m \in HNode : \A h \in hhHints'[m] : h \in hhHints[m] \/ (h \in New /\ hinted # {})
  BY <1>1
<1>9. hhHints' \in [HNode -> SUBSET Missed]
  <2>1. \A m \in HNode : hhHints'[m] \subseteq Missed
    BY <1>5, <1>8, HintFacts
  <2> QED
    BY <1>1, <2>1
<1>10. \A n \in Preferred : /\ owed'[n] \in Nat /\ owed[n] <= owed'[n] /\ owed'[n] <= v
                            /\ n \in written \cup hinted => owed'[n] = v
                            /\ n \notin written \cup hinted => owed'[n] = owed[n]
  BY <1>1, <1>4, HintFacts
<1>11. \A n \in Preferred : hhHints'[n] = {}
  BY <1>1, <1>3, HintFacts
<1>12. \A m \in HNode : \A h \in hhHints'[m] : h.ver <= owed'[h.target] /\ h.created <= now
  <2> SUFFICES ASSUME NEW m \in HNode, NEW h \in hhHints'[m]
               PROVE  h.ver <= owed'[h.target] /\ h.created <= now
    OBVIOUS
  <2>1. CASE h \in hhHints[m]
    <3>1. h.target \in Preferred /\ h.ver \in Nat /\ h.ver <= owed[h.target] /\ h.created <= now
      BY <2>1, HintFacts
    <3>2. PICK t \in Preferred : t = h.target
      BY <3>1
    <3>3. owed[t] \in Nat /\ owed'[t] \in Nat /\ owed[t] <= owed'[t]
      BY <1>10, HintFacts
    <3> QED
      BY <3>1, <3>2, <3>3
  <2>2. CASE h \in New
    <3>1. h.target \in hinted /\ h.ver = v /\ h.created = now
      BY <2>2, <1>5
    <3>2. PICK t \in hinted : t = h.target
      BY <3>1
    <3>3. owed'[t] = v
      BY <1>2, <1>10
    <3> QED
      BY <1>4, <3>1, <3>2, <3>3
  <2> QED
    BY <1>8, <2>1, <2>2
<1>13. \A m, n \in HNode : \A h \in hhHints'[m], g \in hhHints'[n] :
          h.ver <= g.ver => h.created <= g.created
  <2> SUFFICES ASSUME NEW m \in HNode, NEW n \in HNode,
                      NEW h \in hhHints'[m], NEW g \in hhHints'[n], h.ver <= g.ver
               PROVE  h.created <= g.created
    OBVIOUS
  <2>1. CASE h \in hhHints[m] /\ g \in hhHints[n]
    BY <2>1 DEF HH!HintInv
  <2>2. CASE g \in New
    BY <1>4, <1>5, <1>12, <2>2
  <2>3. CASE h \in New /\ g \in hhHints[n]
    <3>1. h.ver = v /\ g.ver \in Nat /\ g.ver <= version
      BY <1>5, <2>3, HintFacts
    <3> QED
      BY <1>4, <3>1
  <2> QED
    BY <1>8, <2>1, <2>2, <2>3
<1>14. \A n \in Preferred :
          /\ stored'[n] <= owed'[n]
          /\ \/ stored'[n] = owed'[n]
             \/ \E m \in HNode : \E h \in hhHints'[m] : h.target = n /\ h.ver = owed'[n]
  <2> SUFFICES ASSUME NEW n \in Preferred
               PROVE  /\ stored'[n] <= owed'[n]
                      /\ \/ stored'[n] = owed'[n]
                         \/ \E m \in HNode : \E h \in hhHints'[m] : h.target = n /\ h.ver = owed'[n]
    OBVIOUS
  <2>0. n \in HNode
    BY HintFacts
  <2>1. CASE n \in written
    <3>1. stored'[n] = v /\ owed'[n] = v
      BY <1>1, <1>6, <1>10, <2>0, <2>1
    <3> QED
      BY <1>4, <3>1
  <2>2. CASE n \in hinted
    <3>1. stored'[n] = stored[n] /\ owed'[n] = v
      BY <1>1, <1>2, <1>10, <2>0, <2>2
    <3>2. stored[n] <= v
      <4>1. stored[n] \in Nat /\ owed[n] \in Nat /\ stored[n] <= owed[n] /\ owed[n] <= version
        BY HintFacts
      <4> QED
        BY <1>4, <4>1
    <3> DEFINE h == [target |-> n, ver |-> v, created |-> now]
    <3>3. h \in New /\ h.target = n /\ h.ver = v
      BY <2>2 DEF New
    <3>4. holder \in HNode /\ h \in hhHints'[holder]
      BY <1>1, <1>3, <2>2, <3>3
    <3> HIDE DEF h
    <3>5. \E m \in HNode : \E g \in hhHints'[m] : g.target = n /\ g.ver = v
      BY <3>3, <3>4
    <3> QED
      BY <3>1, <3>2, <3>5
  <2>3. CASE n \notin written \cup hinted
    <3>1. stored'[n] = stored[n] /\ owed'[n] = owed[n]
      BY <1>1, <1>10, <2>0, <2>3
    <3>2. \A m \in HNode : hhHints[m] \subseteq hhHints'[m]
      BY <1>1
    <3> QED
      BY <3>1, <3>2 DEF HH!HintInv, HH!HintsCover
  <2> QED
    BY <2>1, <2>2, <2>3
<1>15. HH!HintsCover'
  BY <1>14 DEF HH!HintsCover
<1> QED
  BY <1>1, <1>4, <1>7, <1>9, <1>10, <1>11, <1>12, <1>13, <1>15 DEF HH!HintInv, Missed

LEMMA HandoffKeeps ==
  ASSUME HH!HintInv, NEW n \in Preferred, HH!TriggerHandoff(n)
  PROVE  HH!HintInv'
<1> DEFINE for == {h \in UNION {hhHints[m] : m \in HNode \ {n}} : h.target = n}
           delivered == HH!Kept(for)
           S == {stored[n]} \cup {HH!Stored(n, h.ver) : h \in delivered}
           newest == HH!Max(S)
<1>0. n \in HNode /\ stored[n] \in Nat /\ owed[n] \in Nat /\ stored[n] <= owed[n]
      /\ owed[n] <= version /\ version \in Nat /\ now \in Nat
  BY HintFacts
<1>1. /\ UNCHANGED <<sloppy, version, hhUp, now>>
      /\ stored' = [stored EXCEPT ![n] = newest]
      /\ hhHints' = [m \in HNode |-> IF m # n THEN HH!Remaining(hhHints[m], n) ELSE hhHints[m]]
      /\ owed' = [owed EXCEPT ![n] = HH!OwedAfter(n, for \ delivered, newest)]
  BY DEF HH!TriggerHandoff
<1>2. delivered \subseteq for
  BY DEF HH!Kept
<1>3. \A h \in for : h.target = n /\ h.ver \in Nat /\ h.ver <= owed[n]
  BY HintFacts
<1>4. \A h \in delivered : /\ HH!Stored(n, h.ver) \in Nat /\ HH!Stored(n, h.ver) <= owed[n]
                           /\ h.ver <= HH!Stored(n, h.ver)
  <2> HIDE DEF delivered, for
  <2> SUFFICES ASSUME NEW h \in delivered
               PROVE  /\ HH!Stored(n, h.ver) \in Nat /\ HH!Stored(n, h.ver) <= owed[n]
                      /\ h.ver <= HH!Stored(n, h.ver)
    OBVIOUS
  <2>1. h.ver \in Nat /\ h.ver <= owed[n]
    BY <1>2, <1>3
  <2> QED
    BY <1>0, <2>1, StoredIs
<1> HIDE DEF delivered
<1>5. S \in SUBSET Nat /\ S \in SUBSET Int /\ S # {} /\ \A x \in S : x <= owed[n]
  BY <1>0, <1>4
<1>6. newest \in S /\ \A x \in S : x <= newest
  <2> HIDE DEF S
  <2>1. PICK x \in S : \A y \in S : y <= x
    BY <1>0, <1>5, GreatestNatural
  <2>2. newest = x
    BY <1>5, <2>1, MaxOfHH
  <2> QED
    BY <2>1, <2>2
<1>7. /\ newest \in Nat /\ newest <= owed[n] /\ stored[n] <= newest
      /\ \A h \in delivered : h.ver <= newest
  <2>1. newest \in Nat /\ newest <= owed[n]
    <3> HIDE DEF S, newest
    <3> QED
      BY <1>5, <1>6
  <2>2. stored[n] <= newest
    <3> HIDE DEF newest
    <3> QED
      BY <1>6
  <2>3. ASSUME NEW h \in delivered PROVE h.ver <= newest
    <3>1. HH!Stored(n, h.ver) \in S
      OBVIOUS
    <3>2. HH!Stored(n, h.ver) <= newest
      <4> HIDE DEF newest, S
      <4> QED
        BY <1>6, <3>1
    <3>3. HH!Stored(n, h.ver) \in Nat /\ h.ver <= HH!Stored(n, h.ver) /\ h.ver \in Nat
      <4> HIDE DEF for
      <4> QED
        BY <1>2, <1>3, <1>4
    <3> HIDE DEF newest, S
    <3> QED
      BY <2>1, <3>2, <3>3
  <2> QED
    BY <2>1, <2>2, <2>3
<1> HIDE DEF newest, S
<1>8. stored'[n] = newest /\ owed'[n] = newest
  <2>1. n \in DOMAIN stored /\ n \in DOMAIN owed
    BY <1>0 DEF HH!HintInv
  <2>2. stored'[n] = newest /\ owed'[n] = HH!OwedAfter(n, for \ delivered, newest)
    BY <1>1, <2>1
  <2>3. CASE \E h \in for \ delivered : h.target = n /\ h.ver = owed[n]
    BY <2>2, <2>3 DEF HH!OwedAfter
  <2>4. CASE ~ \E h \in for \ delivered : h.target = n /\ h.ver = owed[n]
    <3>1. owed'[n] = owed[n]
      BY <2>2, <2>4 DEF HH!OwedAfter
    <3>2. CASE stored[n] = owed[n]
      BY <1>0, <1>7, <2>2, <3>1, <3>2
    <3>3. CASE stored[n] # owed[n]
      <4>0. PICK m \in HNode : \E h \in hhHints[m] : h.target = n /\ h.ver = owed[n]
        BY <3>3 DEF HH!HintInv, HH!HintsCover
      <4>1. PICK h \in hhHints[m] : h.target = n /\ h.ver = owed[n]
        BY <4>0
      <4>2. m # n
        BY <4>1, HintFacts
      <4>3. h \in for
        BY <4>1, <4>2
      <4>4. h \in delivered
        BY <2>4, <4>1, <4>3
      <4>5. owed[n] <= newest
        BY <1>7, <4>1, <4>4
      <4> QED
        BY <1>0, <1>7, <2>2, <3>1, <4>5
    <3> QED
      BY <3>2, <3>3
  <2> QED
    BY <2>3, <2>4
<1> HIDE DEF for
<1>9. \A m \in HNode : hhHints'[m] = {h \in hhHints[m] : h.target # n}
  <2> SUFFICES ASSUME NEW m \in HNode PROVE hhHints'[m] = {h \in hhHints[m] : h.target # n}
    OBVIOUS
  <2>1. CASE m # n
    BY <1>1, <2>1 DEF HH!Remaining
  <2>2. CASE m = n
    BY <1>1, <2>2, HintFacts
  <2> QED
    BY <2>1, <2>2
<1>10. /\ stored' \in [HNode -> Nat] /\ owed' \in [Preferred -> Nat]
       /\ \A p \in Preferred : p # n => stored'[p] = stored[p] /\ owed'[p] = owed[p]
  <2>1. stored \in [HNode -> Nat] /\ owed \in [Preferred -> Nat]
    BY DEF HH!HintInv
  <2>2. stored' \in [HNode -> Nat]
    BY <1>1, <1>7, <2>1
  <2>3. \A p \in Preferred : p # n => stored'[p] = stored[p] /\ owed'[p] = owed[p]
    BY <1>1, <2>1, HintAssumption
  <2>4. owed' = [p \in Preferred |-> owed'[p]]
    BY <1>1, <2>1
  <2>5. \A p \in Preferred : owed'[p] \in Nat
    BY <1>7, <1>8, <2>1, <2>3
  <2> QED
    BY <2>2, <2>3, <2>4, <2>5
<1>11. hhHints' \in [HNode -> SUBSET Missed]
  <2>1. \A m \in HNode : hhHints'[m] \subseteq Missed
    BY <1>9, HintFacts
  <2> QED
    BY <1>1, <2>1
<1>12. \A p \in Preferred : hhHints'[p] = {} /\ owed'[p] <= version
  BY <1>0, <1>7, <1>8, <1>9, <1>10, HintFacts
<1>13. \A m \in HNode : \A h \in hhHints'[m] : h.ver <= owed'[h.target] /\ h.created <= now
  <2> SUFFICES ASSUME NEW m \in HNode, NEW h \in hhHints'[m]
               PROVE  h.ver <= owed'[h.target] /\ h.created <= now
    OBVIOUS
  <2>1. h \in hhHints[m] /\ h.target # n
    BY <1>9
  <2>2. PICK t \in Preferred : t = h.target
    BY <2>1, HintFacts
  <2>3. owed'[t] = owed[t]
    BY <1>10, <2>1, <2>2
  <2> QED
    BY <2>1, <2>2, <2>3, HintFacts
<1>14. \A m, k \in HNode : \A h \in hhHints'[m], g \in hhHints'[k] :
          h.ver <= g.ver => h.created <= g.created
  BY <1>9 DEF HH!HintInv
<1>15. \A p \in Preferred :
          /\ stored'[p] <= owed'[p]
          /\ \/ stored'[p] = owed'[p]
             \/ \E m \in HNode : \E h \in hhHints'[m] : h.target = p /\ h.ver = owed'[p]
  <2> SUFFICES ASSUME NEW p \in Preferred
               PROVE  /\ stored'[p] <= owed'[p]
                      /\ \/ stored'[p] = owed'[p]
                         \/ \E m \in HNode : \E h \in hhHints'[m] : h.target = p /\ h.ver = owed'[p]
    OBVIOUS
  <2>1. CASE p = n
    BY <1>7, <1>8, <2>1
  <2>2. CASE p # n
    <3>1. stored'[p] = stored[p] /\ owed'[p] = owed[p]
      BY <1>10, <2>2
    <3>2. \A m \in HNode : \A h \in hhHints[m] : h.target = p => h \in hhHints'[m]
      BY <1>9, <2>2
    <3> QED
      BY <3>1, <3>2 DEF HH!HintInv, HH!HintsCover
  <2> QED
    BY <2>1, <2>2
<1>16. HH!HintsCover'
  BY <1>15 DEF HH!HintsCover
<1> QED
  BY <1>0, <1>1, <1>10, <1>11, <1>12, <1>13, <1>14, <1>16 DEF HH!HintInv, Missed

(* Hints that remain are younger than those gone, so none is left for a node *)
(* whose newest hint expired.                                                *)
LEMMA ExpiryKeeps ==
  ASSUME HH!HintInv, HH!ExpireAllHints
  PROVE  HH!HintInv'
<1> DEFINE gone == {h \in UNION {hhHints[m] : m \in HNode} : HH!Expired(h)}
           Lapsed(n) == \E h \in gone : h.target = n /\ h.ver = owed[n]
<1>1. /\ UNCHANGED <<sloppy, version, stored, hhUp, now>>
      /\ hhHints' = [m \in HNode |-> HH!Kept(hhHints[m])]
      /\ owed' = [n \in Preferred |-> IF Lapsed(n) THEN stored[n] ELSE owed[n]]
  BY DEF HH!ExpireAllHints, HH!OwedAfter
<1>2. \A m \in HNode : hhHints'[m] = {h \in hhHints[m] : ~HH!Expired(h)}
  BY <1>1 DEF HH!Kept
<1>3. \A n \in Preferred : \A m \in HNode : \A h \in hhHints'[m] : h.target = n => ~Lapsed(n)
  <2> SUFFICES ASSUME NEW n \in Preferred, NEW m \in HNode, NEW h \in hhHints'[m],
                      h.target = n, Lapsed(n)
               PROVE  FALSE
    OBVIOUS
  <2>1. PICK g \in gone : g.target = n /\ g.ver = owed[n]
    OBVIOUS
  <2>2. PICK k \in HNode : g \in hhHints[k]
    OBVIOUS
  <2>3. HH!Expired(g)
    OBVIOUS
  <2>4. h \in hhHints[m] /\ ~HH!Expired(h)
    BY <1>2
  <2>5. h.ver <= g.ver
    BY <2>1, <2>4, HintFacts
  <2>6. h.created <= g.created
    BY <2>2, <2>4, <2>5 DEF HH!HintInv
  <2>7. h.created \in Nat /\ g.created \in Nat /\ now \in Nat /\ HintTtl \in Nat
    BY <2>2, <2>4, HintFacts
  <2> QED
    BY <2>3, <2>4, <2>6, <2>7 DEF HH!Expired
<1> HIDE DEF Lapsed
<1>4. /\ stored \in [HNode -> Nat] /\ owed' \in [Preferred -> Nat]
      /\ hhHints' \in [HNode -> SUBSET Missed]
  <2>1. \A m \in HNode : hhHints'[m] \subseteq Missed
    BY <1>2, HintFacts
  <2> QED
    BY <1>1, <2>1, HintFacts DEF HH!HintInv
<1>5. \A p \in Preferred : hhHints'[p] = {} /\ owed'[p] <= version
  <2> SUFFICES ASSUME NEW p \in Preferred PROVE hhHints'[p] = {} /\ owed'[p] <= version
    OBVIOUS
  <2>1. /\ p \in HNode /\ hhHints[p] = {} /\ stored[p] \in Nat /\ owed[p] \in Nat
        /\ stored[p] <= owed[p] /\ owed[p] <= version /\ version \in Nat
    BY HintFacts
  <2>2. owed'[p] \in {stored[p], owed[p]}
    BY <1>1
  <2> QED
    BY <1>2, <2>1, <2>2
<1>6. \A m \in HNode : \A h \in hhHints'[m] : h.ver <= owed'[h.target] /\ h.created <= now
  <2> SUFFICES ASSUME NEW m \in HNode, NEW h \in hhHints'[m]
               PROVE  h.ver <= owed'[h.target] /\ h.created <= now
    OBVIOUS
  <2>1. h \in hhHints[m]
    BY <1>2
  <2>2. PICK t \in Preferred : t = h.target
    BY <2>1, HintFacts
  <2>3. owed'[t] = owed[t]
    BY <1>1, <1>3, <2>2
  <2> QED
    BY <2>1, <2>2, <2>3, HintFacts
<1>7. \A m, k \in HNode : \A h \in hhHints'[m], g \in hhHints'[k] :
         h.ver <= g.ver => h.created <= g.created
  BY <1>2 DEF HH!HintInv
<1>8. \A p \in Preferred :
         /\ stored[p] <= owed'[p]
         /\ \/ stored[p] = owed'[p]
            \/ \E m \in HNode : \E h \in hhHints'[m] : h.target = p /\ h.ver = owed'[p]
  <2> SUFFICES ASSUME NEW p \in Preferred
               PROVE  /\ stored[p] <= owed'[p]
                      /\ \/ stored[p] = owed'[p]
                         \/ \E m \in HNode : \E h \in hhHints'[m] : h.target = p /\ h.ver = owed'[p]
    OBVIOUS
  <2>0. stored[p] \in Nat /\ owed[p] \in Nat /\ stored[p] <= owed[p]
    BY HintFacts
  <2>1. CASE Lapsed(p)
    BY <1>1, <2>0, <2>1
  <2>2. CASE ~Lapsed(p) /\ stored[p] = owed[p]
    BY <1>1, <2>0, <2>2
  <2>3. CASE ~Lapsed(p) /\ stored[p] # owed[p]
    <3>1. owed'[p] = owed[p]
      BY <1>1, <2>3
    <3>2. PICK m \in HNode : \E h \in hhHints[m] : h.target = p /\ h.ver = owed[p]
      BY <2>3 DEF HH!HintInv, HH!HintsCover
    <3>3. PICK h \in hhHints[m] : h.target = p /\ h.ver = owed[p]
      BY <3>2
    <3>4. ~HH!Expired(h)
      BY <2>3, <3>3 DEF Lapsed
    <3>5. h \in hhHints'[m]
      BY <1>2, <3>3, <3>4
    <3> QED
      BY <2>0, <3>1, <3>3, <3>5
  <2> QED
    BY <2>1, <2>2, <2>3
<1>9. HH!HintsCover'
  BY <1>1, <1>8 DEF HH!HintsCover
<1> QED
  BY <1>1, <1>4, <1>5, <1>6, <1>7, <1>9 DEF HH!HintInv, Missed

LEMMA HintStep ==
  ASSUME HH!HintInv, HH!HintNext
  PROVE  HH!HintInv'
<1>1. CASE HH!HintedPut
  BY <1>1, HintedPutKeeps
<1>2. CASE HH!ExpireAllHints
  BY <1>2, ExpiryKeeps
<1>3. CASE HH!HTick
  <2>1. now' = now + 1 /\ UNCHANGED <<sloppy, version, stored, hhHints, hhUp, owed>>
    BY <1>3 DEF HH!HTick
  <2>2. HH!HintsCover'
    BY <2>1 DEF HH!HintsCover, HH!HintInv
  <2>3. \A m \in HNode : \A h \in hhHints[m] : h.created <= now + 1
    BY HintFacts
  <2> QED
    BY <2>1, <2>2, <2>3 DEF HH!HintInv
<1>4. CASE \E n \in Preferred : HH!TriggerHandoff(n)
  BY <1>4, HandoffKeeps
<1>5. CASE \E n \in HNode : HH!SetNodeAvailable(n)
  BY <1>5 DEF HH!SetNodeAvailable, HH!HintInv, HH!HintsCover
<1> QED
  BY <1>1, <1>2, <1>3, <1>4, <1>5 DEF HH!HintNext

LEMMA HintStarts ==
  ASSUME HH!HintInit
  PROVE  HH!HintInv
BY HintAssumption DEF HH!HintInit, HH!HintInv, HH!HintsCover

-----------------------------------------------------------------------------
StoresInv ==
  /\ cluster = "read repair" => RR!RepairInv
  /\ cluster = "hints" => HH!HintInv

LEMMA StoresStep ==
  ASSUME StoresInv, [ReplicationNext]_replicationVars
  PROVE  StoresInv'
<1>1. CASE cluster = "read repair" /\ RR!RepairNext /\ UNCHANGED cluster
  BY <1>1, RepairStep DEF StoresInv
<1>2. CASE cluster = "hints" /\ HH!HintNext /\ UNCHANGED cluster
  BY <1>2, HintStep DEF StoresInv
<1>3. CASE cluster \notin {"read repair", "hints"} /\ UNCHANGED cluster
  BY <1>3 DEF StoresInv
<1>4. CASE UNCHANGED <<cluster, repairVars, hintVars>>
  <2>1. RR!RepairInv => RR!RepairInv'
    BY <1>4 DEF repairVars, RR!RepairInv, RR!WriteQuorum
  <2>2. HH!HintInv => HH!HintInv'
    BY <1>4 DEF hintVars, HH!HintInv, HH!HintsCover
  <2> QED
    BY <1>4, <2>1, <2>2 DEF StoresInv
<1> QED
  BY <1>1, <1>2, <1>3, <1>4 DEF ReplicationNext, replicationVars

(* read_repair.py: a get of R replicas returns the last put when R + W > N;  *)
(* hinted_handoff.py: the newest version of a preferred node is in its store *)
(* or in a hint for it until it expires.                                     *)
THEOREM NumberedStores == ReplicationSpec => []QuorumStores
<1>1. ReplicationInit => StoresInv
  BY RepairStarts, HintStarts DEF ReplicationInit, StoresInv
<1>2. StoresInv /\ [ReplicationNext]_replicationVars => StoresInv'
  BY StoresStep
<1>3. StoresInv => QuorumStores
  BY RepairReads DEF StoresInv, QuorumStores, HH!HintInv
<1> QED
  BY <1>1, <1>2, <1>3, PTL DEF ReplicationSpec

-----------------------------------------------------------------------------
(* leader-follower-replication.                                            *)

LEMMA MaxOfLF ==
  ASSUME NEW S \in SUBSET Int, IsFiniteSet(S), S # {}
  PROVE  LF!Max(S) \in S /\ \A y \in S : LF!Max(S) >= y
<1>1. PICK x \in S : \A y \in S : y =< x
  BY GreatestElement
<1>2. \A y \in S : x >= y
  BY <1>1
<1> QED
  BY <1>2 DEF LF!Max

LEMMA FollowerFacts ==
  ASSUME LF!FollowerTypes
  PROVE  /\ nextLsn \in Nat /\ LF!Lsn \in 0..MaxLsn /\ LF!Lsn = nextLsn - 1 /\ MaxLsn \in Nat
         /\ Len(rlog) \in Nat /\ DOMAIN rlog = 1..Len(rlog) /\ IsFiniteSet(DOMAIN rlog)
         /\ \A i \in DOMAIN rlog :
               /\ rlog[i] \in LF!LEntry /\ rlog[i].lsn \in Nat /\ rlog[i].key \in LKey
               /\ rlog[i].value \in LF!LValues
<1>1. MaxLsn \in Nat /\ nextLsn \in 1..(MaxLsn + 1)
  BY FollowerAssumption DEF LF!FollowerTypes
<1>2. nextLsn \in Nat /\ LF!Lsn \in 0..MaxLsn /\ LF!Lsn = nextLsn - 1
  BY <1>1 DEF LF!Lsn
<1>3. Len(rlog) \in Nat /\ DOMAIN rlog = 1..Len(rlog) /\ \A i \in DOMAIN rlog : rlog[i] \in LF!LEntry
  BY DEF LF!FollowerTypes
<1>4. IsFiniteSet(1..Len(rlog))
  BY <1>3, FS_Interval
<1> QED
  BY <1>1, <1>2, <1>3, <1>4 DEF LF!LEntry

(* _promote_async_to_semi_sync finds a follower and registers nobody else. *)
LEMMA ModesKeepRegistered ==
  ASSUME NEW lsns \in [Follower -> Nat], DOMAIN registered = Follower
  PROVE  /\ DOMAIN LF!ModesAfterWrite(lsns) = Follower
         /\ \A f \in Follower : LF!ModesAfterWrite(lsns)[f] # "none" => registered[f] # "none"
<1> DEFINE semi == {f \in Follower : registered[f] = "semi_sync"}
           async == {f \in Follower : registered[f] = "async" /\ online[f]}
           best == CHOOSE f \in async : \A g \in async :
                      lsns[f] > lsns[g] \/ (lsns[f] = lsns[g] /\ f <= g)
<1>1. LF!ModesAfterWrite(lsns) =
        IF semi # {} /\ (\A f \in semi : ~online[f]) /\ async # {}
        THEN [registered EXCEPT ![best] = "semi_sync"] ELSE registered
  BY DEF LF!ModesAfterWrite
<1>2. ASSUME async # {} PROVE best \in async
  <2>1. async \in SUBSET Int /\ async \in SUBSET Follower /\ IsFiniteSet(async)
    BY FollowerAssumption, FS_Subset
  <2> DEFINE fn == [f \in async |-> lsns[f]]
             tops == {fn[f] : f \in async}
  <2>2. IsFiniteSet(tops)
    <3>1. DOMAIN fn = async
      OBVIOUS
    <3> HIDE DEF fn, async
    <3> QED
      BY <2>1, <3>1, ImageFinite
  <2>3. tops \in SUBSET Int /\ tops # {}
    <3>1. \A f \in async : fn[f] \in Int
      BY <2>1
    <3> HIDE DEF fn, async
    <3> QED
      BY <1>2, <3>1
  <2>4. PICK t \in tops : \A u \in tops : u =< t
    <3> HIDE DEF tops
    <3> QED
      BY <2>2, <2>3, GreatestElement
  <2> DEFINE firsts == {f \in async : lsns[f] = t}
  <2>5. firsts \in SUBSET Int /\ firsts # {} /\ IsFiniteSet(firsts)
    BY <2>1, FS_Subset
  <2>6. PICK f \in firsts : \A g \in firsts : f =< g
    <3> HIDE DEF firsts
    <3> QED
      BY <2>5, LeastElement
  <2>7. \A g \in async : lsns[f] > lsns[g] \/ (lsns[f] = lsns[g] /\ f <= g)
    <3> SUFFICES ASSUME NEW g \in async PROVE lsns[f] > lsns[g] \/ (lsns[f] = lsns[g] /\ f <= g)
      OBVIOUS
    <3>1. lsns[g] =< t /\ lsns[g] \in Nat /\ t \in Nat /\ lsns[f] = t
      BY <2>1, <2>4
    <3>2. lsns[g] = t => f =< g
      BY <2>6
    <3> QED
      BY <3>1, <3>2
  <2>8. f \in async
    OBVIOUS
  <2> HIDE DEF async, firsts
  <2> QED
    BY <2>7, <2>8
<1> HIDE DEF best
<1>3. ASSUME async # {} PROVE best \in Follower /\ registered[best] = "async"
  BY <1>2, <1>3
<1> HIDE DEF async, semi
<1> QED
  BY <1>1, <1>3

(* What comes of the log when an entry is added and old ones are dropped. *)
LEMMA LogAfterWrite ==
  ASSUME LF!FollowerTypes, NEW k \in LKey, NEW v \in LF!LValues, LF!WriteEntry(k, v)
  PROVE  \E d \in Nat :
           /\ d <= Len(rlog) /\ rlog' \in Seq(LF!LEntry) /\ Len(rlog') = Len(rlog) + 1 - d
           /\ DOMAIN rlog' = 1..Len(rlog') /\ Len(rlog') \in Nat \ {0}
           /\ rlog'[Len(rlog')] = [lsn |-> nextLsn, key |-> k, value |-> v]
           /\ \A i \in 1..(Len(rlog') - 1) : i + d \in DOMAIN rlog /\ rlog'[i] = rlog[i + d]
<1> DEFINE e == [lsn |-> nextLsn, key |-> k, value |-> v]
           l == Append(rlog, e)
           s == LF!Max({1, Len(l) - Retention + 1})
<1>1. rlog' = SubSeq(l, s, Len(l))
  BY DEF LF!WriteEntry
<1>2. e \in LF!LEntry
  BY FollowerFacts DEF LF!LEntry
<1>3. rlog \in Seq(LF!LEntry) /\ Len(rlog) \in Nat
  BY FollowerFacts DEF LF!FollowerTypes
<1> HIDE DEF e
<1>4. l \in Seq(LF!LEntry) /\ Len(l) = Len(rlog) + 1 /\ l[Len(l)] = e
      /\ \A i \in 1..Len(rlog) : l[i] = rlog[i]
  BY <1>2, <1>3
<1> HIDE DEF l
<1>5. s \in 1..Len(l)
  <2> DEFINE S == {1, Len(l) - Retention + 1}
  <2>1. S \in SUBSET Int /\ S # {} /\ IsFiniteSet(S) /\ \A x \in S : x <= Len(l)
    <3>1. PICK x : x = Len(l) - Retention + 1
      OBVIOUS
    <3>2. IsFiniteSet({1}) /\ IsFiniteSet({x})
      BY FS_Singleton
    <3>3. IsFiniteSet(S)
      <4>1. IsFiniteSet({1} \cup {x})
        BY <3>2, FS_Union
      <4>2. S = {1} \cup {x}
        BY <3>1
      <4> QED
        BY <4>1, <4>2
    <3>4. Len(l) \in Nat /\ Len(l) >= 1 /\ Retention \in Nat /\ Retention >= 1
      BY <1>3, <1>4, FollowerAssumption
    <3> QED
      BY <3>3, <3>4
  <2>2. 1 \in S
    OBVIOUS
  <2> HIDE DEF S
  <2>3. LF!Max(S) \in S /\ LF!Max(S) >= 1
    BY <2>1, <2>2, MaxOfLF
  <2> QED
    BY <1>3, <1>4, <2>1, <2>3 DEF S
<1> HIDE DEF s
<1>6. /\ rlog' \in Seq(LF!LEntry) /\ Len(rlog') = Len(l) - s + 1
      /\ \A i \in 1..Len(rlog') : rlog'[i] = l[s + i - 1]
  BY <1>1, <1>3, <1>4, <1>5
<1>7. s - 1 \in Nat /\ s - 1 <= Len(rlog) /\ Len(rlog') = Len(rlog) + 1 - (s - 1)
  BY <1>3, <1>4, <1>5, <1>6
<1>8. rlog'[Len(rlog')] = e
  BY <1>3, <1>4, <1>5, <1>6
<1>9. ASSUME NEW i \in 1..(Len(rlog') - 1)
      PROVE  i + (s - 1) \in DOMAIN rlog /\ rlog'[i] = rlog[i + (s - 1)]
  <2>1. i \in 1..Len(rlog') /\ s + i - 1 = i + (s - 1) /\ i + (s - 1) \in 1..Len(rlog)
    BY <1>3, <1>5, <1>7
  <2> QED
    BY <1>3, <1>4, <1>6, <2>1
<1>10. DOMAIN rlog' = 1..Len(rlog') /\ Len(rlog') \in Nat \ {0}
  BY <1>3, <1>6, <1>7
<1> QED
  BY <1>6, <1>7, <1>8, <1>9, <1>10 DEF e

LEMMA WriteKeepsLog ==
  ASSUME LF!FollowerTypes, LF!LogLeadsHere, NEW k \in LKey, NEW v \in LF!LValues,
         LF!WriteEntry(k, v)
  PROVE  LF!LogLeadsHere'
<1> DEFINE L == Len(rlog)
           H == LF!Lsn
<1>1. /\ nextLsn \in Nat /\ H \in Nat /\ H + 1 = nextLsn /\ H \in 0..MaxLsn /\ MaxLsn \in Nat
      /\ L \in Nat /\ DOMAIN rlog = 1..L
      /\ \A i \in DOMAIN rlog : rlog[i].key \in LKey
  BY FollowerFacts
<1>2. PICK d \in Nat :
        /\ d <= L /\ rlog' \in Seq(LF!LEntry) /\ Len(rlog') = L + 1 - d
        /\ DOMAIN rlog' = 1..Len(rlog') /\ Len(rlog') \in Nat \ {0}
        /\ rlog'[Len(rlog')] = [lsn |-> nextLsn, key |-> k, value |-> v]
        /\ \A i \in 1..(Len(rlog') - 1) : i + d \in DOMAIN rlog /\ rlog'[i] = rlog[i + d]
  BY LogAfterWrite
<1> DEFINE M == Len(rlog')
<1>3. /\ L <= H /\ \A i \in DOMAIN rlog : rlog[i].lsn = H - L + i
      /\ \A i \in DOMAIN rlog : \/ rlog[i].value = ldata[rlog[i].key]
                                \/ \E j \in DOMAIN rlog : j > i /\ rlog[j].key = rlog[i].key
      /\ \A l \in (H - L)..H, q \in LKey :
            \/ past[l][q] = ldata[q]
            \/ \E i \in LF!LogEntries(l) : rlog[i].key = q
  BY DEF LF!LogLeadsHere
<1>4. /\ nextLsn <= MaxLsn /\ nextLsn' = nextLsn + 1 /\ ldata' = [ldata EXCEPT ![k] = v]
      /\ past' = [past EXCEPT ![nextLsn] = ldata']
  BY DEF LF!WriteEntry
<1>5. /\ ldata \in [LKey -> LF!LValues] /\ past \in [0..MaxLsn -> [LKey -> LF!LValues]]
  BY DEF LF!FollowerTypes
<1>6. LF!Lsn' = H + 1
  BY <1>1, <1>4 DEF LF!Lsn
<1> HIDE DEF L, H
<1>7. /\ ldata'[k] = v /\ \A q \in LKey : q # k => ldata'[q] = ldata[q]
      /\ past'[H + 1] = ldata' /\ \A l \in 0..H : past'[l] = past[l]
  BY <1>1, <1>4, <1>5
<1> HIDE DEF M
<1>8. /\ M \in Nat \ {0} /\ M = L + 1 - d /\ d <= L /\ DOMAIN rlog' = 1..M
      /\ rlog'[M] = [lsn |-> nextLsn, key |-> k, value |-> v]
      /\ \A i \in 1..(M - 1) : i + d \in 1..L /\ rlog'[i] = rlog[i + d]
  BY <1>1, <1>2 DEF M
<1>9. ASSUME NEW i \in 1..M PROVE rlog'[i].lsn = (H + 1) - M + i
  <2>1. CASE i = M
    BY <1>1, <1>8, <2>1
  <2>2. CASE i \in 1..(M - 1)
    BY <1>1, <1>3, <1>8, <2>2
  <2> QED
    BY <1>8, <2>1, <2>2
<1>10. ASSUME NEW i \in 1..M
       PROVE  \/ rlog'[i].value = ldata'[rlog'[i].key]
              \/ \E j \in 1..M : j > i /\ rlog'[j].key = rlog'[i].key
  <2>1. CASE i = M
    BY <1>7, <1>8, <2>1
  <2>2. CASE i \in 1..(M - 1) /\ rlog'[i].key = k
    <3>1. M \in 1..M /\ M > i /\ rlog'[M].key = k
      BY <1>8, <2>2
    <3> QED
      BY <2>2, <3>1
  <2>3. CASE i \in 1..(M - 1) /\ rlog'[i].key # k
    <3>1. i + d \in DOMAIN rlog /\ rlog'[i] = rlog[i + d] /\ rlog'[i].key \in LKey
      BY <1>1, <1>8, <2>3
    <3>2. CASE rlog[i + d].value = ldata[rlog[i + d].key]
      BY <1>7, <2>3, <3>1, <3>2
    <3>3. ASSUME NEW j \in DOMAIN rlog, j > i + d, rlog[j].key = rlog[i + d].key
          PROVE  \E x \in 1..M : x > i /\ rlog'[x].key = rlog'[i].key
      <4>1. j - d \in 1..(M - 1) /\ j - d > i /\ (j - d) + d = j
        BY <1>1, <1>8, <3>3
      <4>2. rlog'[j - d] = rlog[j] /\ j - d \in 1..M
        BY <1>8, <4>1
      <4> QED
        BY <3>1, <3>3, <4>1, <4>2
    <3> QED
      BY <1>3, <3>1, <3>2, <3>3
  <2> QED
    BY <1>8, <2>1, <2>2, <2>3
<1>11. ASSUME NEW l \in ((H + 1) - M)..(H + 1), NEW q \in LKey
       PROVE  \/ past'[l][q] = ldata'[q]
              \/ \E i \in 1..M : rlog'[i].lsn > l /\ rlog'[i].key = q
  <2>1. CASE l = H + 1
    BY <1>7, <2>1
  <2>2. CASE l # H + 1 /\ q = k
    <3>1. M \in 1..M /\ rlog'[M].lsn > l /\ rlog'[M].key = q
      BY <1>1, <1>8, <2>2
    <3> QED
      BY <3>1
  <2>3. CASE l # H + 1 /\ q # k
    <3>1. l \in (H - L)..H /\ l \in 0..H /\ past'[l] = past[l]
      BY <1>1, <1>3, <1>7, <1>8, <2>3
    <3>2. ldata'[q] = ldata[q]
      BY <1>7, <2>3
    <3>3. ASSUME NEW i \in LF!LogEntries(l), rlog[i].key = q
          PROVE  \E x \in 1..M : rlog'[x].lsn > l /\ rlog'[x].key = q
      <4>1. i \in 1..L /\ rlog[i].lsn > l /\ rlog[i].lsn = H - L + i
        BY <1>1, <1>3 DEF LF!LogEntries
      <4>2. i - d \in 1..(M - 1) /\ (i - d) + d = i
        <5>1. i \in Nat /\ i <= L /\ H - L + i > l /\ l \in Int /\ l >= (H + 1) - M
          BY <1>1, <1>8, <4>1
        <5>2. L \in Nat /\ H \in Nat /\ d \in Nat /\ M \in Nat /\ M = L + 1 - d
          BY <1>1, <1>8
        <5>3. i > d
          BY <5>1, <5>2
        <5> QED
          BY <5>1, <5>2, <5>3
      <4>3. rlog'[i - d] = rlog[i] /\ i - d \in 1..M
        BY <1>8, <4>2
      <4> QED
        BY <3>3, <4>1, <4>3
    <3> QED
      BY <1>3, <3>1, <3>2, <3>3
  <2> QED
    BY <2>1, <2>2, <2>3
<1>12. LF!LogLeadsHere' <=>
         /\ M <= LF!Lsn' /\ \A i \in 1..M : rlog'[i].lsn = LF!Lsn' - M + i
         /\ past'[LF!Lsn'] = ldata'
         /\ \A i \in 1..M : \/ rlog'[i].value = ldata'[rlog'[i].key]
                            \/ \E j \in 1..M : j > i /\ rlog'[j].key = rlog'[i].key
         /\ \A l \in (LF!Lsn' - M)..LF!Lsn', q \in LKey :
               \/ past'[l][q] = ldata'[q]
               \/ \E i \in 1..M : rlog'[i].lsn > l /\ rlog'[i].key = q
  <2>1. M = Len(rlog') /\ DOMAIN rlog' = 1..M
    BY <1>8 DEF M
  <2>2. \A l : LF!LogEntries(l)' = {i \in 1..M : rlog'[i].lsn > l}
    BY <2>1 DEF LF!LogEntries
  <2> QED
    BY <2>1, <2>2 DEF LF!LogLeadsHere
<1>13. M <= H + 1
  BY <1>1, <1>3, <1>8
<1> QED
  BY <1>6, <1>7, <1>9, <1>10, <1>11, <1>12, <1>13

LEMMA WriteKeepsFollowers ==
  ASSUME LF!FollowerInv, NEW k \in LKey, NEW v \in LF!LValues, LF!WriteEntry(k, v)
  PROVE  LF!FollowerInv'
<1> DEFINE applies(f) == LF!Takes(f) /\ nextLsn > applied[f]
           lsns == [f \in Follower |-> IF applies(f) THEN nextLsn ELSE applied[f]]
<1>0. LF!FollowerTypes /\ LF!LogLeadsHere /\ LF!FollowersShowPast
  BY DEF LF!FollowerInv
<1>1. /\ nextLsn \in Nat /\ LF!Lsn \in 0..MaxLsn /\ LF!Lsn = nextLsn - 1 /\ MaxLsn \in Nat
      /\ ldata \in [LKey -> LF!LValues] /\ past \in [0..MaxLsn -> [LKey -> LF!LValues]]
      /\ applied \in [Follower -> 0..MaxLsn] /\ fdata \in [Follower -> [LKey -> LF!LValues]]
      /\ DOMAIN registered = Follower /\ DOMAIN online = Follower
  BY <1>0, FollowerFacts DEF LF!FollowerTypes
<1>2. /\ nextLsn <= MaxLsn /\ nextLsn' = nextLsn + 1 /\ ldata' = [ldata EXCEPT ![k] = v]
      /\ past' = [past EXCEPT ![nextLsn] = ldata'] /\ applied' = lsns
      /\ fdata' = [f \in Follower |-> IF applies(f) THEN [fdata[f] EXCEPT ![k] = v] ELSE fdata[f]]
      /\ registered' = LF!ModesAfterWrite(lsns)
      /\ online' = online /\ detached' = detached
  BY DEF LF!WriteEntry
<1>3. lsns \in [Follower -> 0..MaxLsn] /\ lsns \in [Follower -> Nat]
  BY <1>1, <1>2
<1>4. /\ DOMAIN registered' = Follower
      /\ \A f \in Follower : registered'[f] # "none" => registered[f] # "none"
  <2>1. PICK x : x = lsns
    OBVIOUS
  <2> HIDE DEF lsns
  <2> QED
    BY <1>1, <1>2, <1>3, <2>1, ModesKeepRegistered
<1>5. ldata' \in [LKey -> LF!LValues] /\ past' \in [0..MaxLsn -> [LKey -> LF!LValues]]
  BY <1>1, <1>2
<1>6. fdata' \in [Follower -> [LKey -> LF!LValues]]
  BY <1>1, <1>2
<1>7. rlog' \in Seq(LF!LEntry)
  BY <1>0, LogAfterWrite
<1>8. LF!FollowerTypes'
  <2>1. nextLsn' \in 1..(MaxLsn + 1)
    BY <1>1, <1>2
  <2> QED
    BY <1>1, <1>2, <1>3, <1>4, <1>5, <1>6, <1>7, <2>1 DEF LF!FollowerTypes, LF!LEntry, LF!LValues
<1>9. LF!LogLeadsHere'
  BY <1>0, WriteKeepsLog
<1>10. LF!FollowersShowPast'
  <2>1. ASSUME NEW f \in Follower \ detached
        PROVE  /\ applied'[f] <= nextLsn /\ fdata'[f] = past'[applied'[f]]
               /\ registered'[f] # "none" /\ online[f] => applied'[f] = nextLsn
    <3>1. /\ applied[f] <= LF!Lsn /\ fdata[f] = past[applied[f]]
          /\ LF!Takes(f) => applied[f] = LF!Lsn
          /\ applied[f] \in 0..MaxLsn /\ applied[f] < nextLsn
      BY <1>0, <1>1 DEF LF!FollowersShowPast
    <3>2. CASE LF!Takes(f)
      <4>1. applied'[f] = nextLsn /\ fdata'[f] = [fdata[f] EXCEPT ![k] = v]
        BY <1>2, <3>1, <3>2
      <4>2. fdata[f] = ldata
        BY <1>0, <3>1, <3>2 DEF LF!LogLeadsHere
      <4>3. past'[nextLsn] = ldata'
        BY <1>1, <1>2
      <4> QED
        BY <1>1, <1>2, <4>1, <4>2, <4>3
    <3>3. CASE ~LF!Takes(f)
      <4>1. applied'[f] = applied[f] /\ fdata'[f] = fdata[f]
        BY <1>2, <3>3
      <4>2. past'[applied[f]] = past[applied[f]]
        BY <1>1, <1>2, <3>1
      <4>3. ~(registered'[f] # "none" /\ online[f])
        BY <1>4, <3>3 DEF LF!Takes
      <4> QED
        BY <1>1, <3>1, <4>1, <4>2, <4>3
    <3> QED
      BY <3>2, <3>3
  <2>2. LF!Lsn' = nextLsn
    BY <1>1, <1>2 DEF LF!Lsn
  <2> QED
    BY <1>2, <2>1, <2>2 DEF LF!FollowersShowPast, LF!Takes
<1> QED
  BY <1>8, <1>9, <1>10 DEF LF!FollowerInv

(* come_online: the entries the log still has lead a follower that it       *)
(* reaches to the leader's data.                                            *)
LEMMA CatchUp ==
  ASSUME LF!FollowerTypes, LF!LogLeadsHere, NEW a \in 0..MaxLsn,
         NEW d \in [LKey -> LF!LValues]
  PROVE  /\ LF!LsnAfter(a, LF!LogEntries(a)) \in 0..MaxLsn
         /\ LF!DataAfter(d, LF!LogEntries(a)) \in [LKey -> LF!LValues]
         /\ (/\ a <= LF!Lsn /\ d = past[a]
             /\ a = LF!Lsn \/ \E i \in DOMAIN rlog : rlog[i].lsn = a + 1)
              => /\ LF!LsnAfter(a, LF!LogEntries(a)) = LF!Lsn
                 /\ LF!DataAfter(d, LF!LogEntries(a)) = ldata
<1> DEFINE is == LF!LogEntries(a)
           H == LF!Lsn
           L == Len(rlog)
           on(k) == {i \in is : rlog[i].key = k}
           data == LF!DataAfter(d, is)
<1>1. /\ H \in 0..MaxLsn /\ MaxLsn \in Nat /\ L \in Nat /\ DOMAIN rlog = 1..L
      /\ IsFiniteSet(DOMAIN rlog) /\ \A i \in DOMAIN rlog : rlog[i].value \in LF!LValues
  BY FollowerFacts
<1>2. /\ L <= H /\ \A i \in DOMAIN rlog : rlog[i].lsn = H - L + i
      /\ past[H] = ldata
      /\ \A i \in DOMAIN rlog : \/ rlog[i].value = ldata[rlog[i].key]
                                \/ \E j \in DOMAIN rlog : j > i /\ rlog[j].key = rlog[i].key
      /\ \A l \in (H - L)..H, q \in LKey :
            \/ past[l][q] = ldata[q]
            \/ \E i \in LF!LogEntries(l) : rlog[i].key = q
  BY DEF LF!LogLeadsHere
<1>3. is = {i \in 1..L : rlog[i].lsn > a} /\ IsFiniteSet(is) /\ is \in SUBSET Int
  BY <1>1, FS_Subset DEF LF!LogEntries
<1>4. data = [k \in LKey |-> IF on(k) = {} THEN d[k] ELSE rlog[LF!Max(on(k))].value]
  BY DEF LF!DataAfter
<1>5. LF!LsnAfter(a, is) = IF is = {} THEN a ELSE rlog[LF!Max(is)].lsn
  BY DEF LF!LsnAfter
<1> HIDE DEF is, H, L, data
<1>6. ASSUME NEW k \in LKey, on(k) # {}
      PROVE  LF!Max(on(k)) \in on(k) /\ \A j \in on(k) : LF!Max(on(k)) >= j
  <2>1. on(k) \in SUBSET Int /\ IsFiniteSet(on(k))
    BY <1>3, FS_Subset
  <2> HIDE DEF on
  <2> QED
    BY <1>6, <2>1, MaxOfLF
<1>7. is # {} => LF!Max(is) \in is /\ \A j \in is : LF!Max(is) >= j
  BY <1>3, MaxOfLF
<1>8. LF!LsnAfter(a, is) \in 0..MaxLsn
  <2>1. \A i \in is : rlog[i].lsn \in 0..MaxLsn
    BY <1>1, <1>2, <1>3
  <2> QED
    BY <1>5, <1>7, <2>1
<1>9. data \in [LKey -> LF!LValues]
  <2>1. ASSUME NEW k \in LKey, on(k) # {} PROVE rlog[LF!Max(on(k))].value \in LF!LValues
    <3>1. LF!Max(on(k)) \in is
      BY <1>6, <2>1
    <3> QED
      BY <1>1, <1>3, <3>1
  <2> HIDE DEF on
  <2> QED
    BY <1>4, <2>1
<1>10. ASSUME a <= H, d = past[a], a = H \/ \E i \in DOMAIN rlog : rlog[i].lsn = a + 1
       PROVE  LF!LsnAfter(a, is) = H /\ data = ldata
  <2>0. a \in (H - L)..H
    BY <1>1, <1>2, <1>10
  <2>1. LF!LsnAfter(a, is) = H
    <3>1. CASE a = H
      <4>1. is = {}
        BY <1>1, <1>2, <1>3, <3>1
      <4> QED
        BY <1>5, <3>1, <4>1
    <3>2. CASE a # H
      <4>1. L \in is
        BY <1>1, <1>2, <1>3, <1>10, <3>2
      <4>2. LF!Max(is) = L
        <5>1. LF!Max(is) \in 1..L /\ LF!Max(is) >= L
          BY <1>3, <1>7, <4>1
        <5> QED
          BY <1>1, <5>1
      <4> QED
        BY <1>1, <1>2, <1>3, <1>5, <4>1, <4>2
    <3> QED
      BY <3>1, <3>2
  <2>2. ASSUME NEW k \in LKey PROVE data[k] = ldata[k]
    <3>1. CASE on(k) = {}
      <4>1. data[k] = past[a][k]
        BY <1>4, <1>10, <3>1
      <4>2. ~\E i \in LF!LogEntries(a) : rlog[i].key = k
        BY <3>1 DEF is
      <4> QED
        BY <1>2, <2>0, <4>1, <4>2
    <3>2. CASE on(k) # {}
      <4> DEFINE m == LF!Max(on(k))
      <4>1. m \in is /\ rlog[m].key = k /\ \A j \in on(k) : m >= j
        BY <1>6, <3>2
      <4>2. data[k] = rlog[m].value
        BY <1>4, <3>2
      <4> HIDE DEF m
      <4>3. ~\E j \in DOMAIN rlog : j > m /\ rlog[j].key = rlog[m].key
        <5> SUFFICES ASSUME NEW j \in DOMAIN rlog, j > m, rlog[j].key = k PROVE FALSE
          BY <4>1
        <5>1. j \in is
          BY <1>1, <1>2, <1>3, <4>1
        <5>2. m >= j
          BY <4>1, <5>1
        <5> QED
          BY <1>1, <1>3, <4>1, <5>1, <5>2
      <4> QED
        BY <1>1, <1>2, <1>3, <4>1, <4>2, <4>3
    <3> QED
      BY <3>1, <3>2
  <2>3. ldata \in [LKey -> LF!LValues]
    BY DEF LF!FollowerTypes
  <2> QED
    BY <1>9, <2>1, <2>2, <2>3
<1> QED
  BY <1>8, <1>9, <1>10 DEF is, H, data

LEMMA ComeOnlineKeeps ==
  ASSUME LF!FollowerInv, NEW f \in Follower, LF!ComeOnline(f)
  PROVE  LF!FollowerInv'
<1> DEFINE lsn == LF!LsnAfter(applied[f], LF!LogEntries(applied[f]))
           data == LF!DataAfter(fdata[f], LF!LogEntries(applied[f]))
<1>0. LF!FollowerTypes /\ LF!LogLeadsHere /\ LF!FollowersShowPast
  BY DEF LF!FollowerInv
<1>1. /\ applied \in [Follower -> 0..MaxLsn] /\ fdata \in [Follower -> [LKey -> LF!LValues]]
      /\ DOMAIN registered = Follower /\ DOMAIN online = Follower
      /\ LF!Lsn \in 0..MaxLsn /\ MaxLsn \in Nat
  BY <1>0, FollowerFacts DEF LF!FollowerTypes
<1>2. /\ online' = [online EXCEPT ![f] = TRUE]
      /\ applied' = [applied EXCEPT ![f] = lsn] /\ fdata' = [fdata EXCEPT ![f] = data]
      /\ detached' = IF applied[f] < LF!Lsn /\ ~\E i \in DOMAIN rlog : rlog[i].lsn = applied[f] + 1
                     THEN detached \cup {f} ELSE detached
      /\ UNCHANGED <<nextLsn, rlog, ldata, registered, past>>
  BY <1>1 DEF LF!ComeOnline
<1>3. /\ lsn \in 0..MaxLsn /\ data \in [LKey -> LF!LValues]
      /\ (/\ applied[f] <= LF!Lsn /\ fdata[f] = past[applied[f]]
          /\ applied[f] = LF!Lsn \/ \E i \in DOMAIN rlog : rlog[i].lsn = applied[f] + 1)
           => lsn = LF!Lsn /\ data = ldata
  <2>1. applied[f] \in 0..MaxLsn /\ fdata[f] \in [LKey -> LF!LValues]
    BY <1>1
  <2>2. PICK a \in 0..MaxLsn : a = applied[f]
    BY <2>1
  <2>3. PICK d \in [LKey -> LF!LValues] : d = fdata[f]
    BY <2>1
  <2> QED
    BY <1>0, <2>2, <2>3, CatchUp
<1> HIDE DEF lsn, data
<1>4. LF!FollowerTypes'
  BY <1>0, <1>1, <1>2, <1>3 DEF LF!FollowerTypes, LF!LEntry, LF!LValues
<1>5. LF!LogLeadsHere' /\ LF!Lsn' = LF!Lsn
  BY <1>0, <1>2 DEF LF!LogLeadsHere, LF!LogEntries, LF!Lsn
<1>6. LF!FollowersShowPast'
  <2>1. ASSUME NEW g \in Follower, g \notin detached'
        PROVE  /\ applied'[g] <= LF!Lsn /\ fdata'[g] = past[applied'[g]]
               /\ registered[g] # "none" /\ online'[g] => applied'[g] = LF!Lsn
    <3>1. /\ applied[g] <= LF!Lsn /\ fdata[g] = past[applied[g]]
          /\ registered[g] # "none" /\ online[g] => applied[g] = LF!Lsn
      BY <1>0, <1>2, <2>1 DEF LF!FollowersShowPast, LF!Takes
    <3>2. CASE g # f
      BY <1>1, <1>2, <3>1, <3>2
    <3>3. CASE g = f
      <4>1. applied[f] = LF!Lsn \/ \E i \in DOMAIN rlog : rlog[i].lsn = applied[f] + 1
        <5>1. applied[f] \in 0..MaxLsn /\ LF!Lsn \in 0..MaxLsn /\ MaxLsn \in Nat
          BY <1>1
        <5>2. applied[f] <= LF!Lsn /\ f \notin detached'
          BY <2>1, <3>1, <3>3
        <5>3. ~(applied[f] < LF!Lsn /\ ~\E i \in DOMAIN rlog : rlog[i].lsn = applied[f] + 1)
          BY <1>2, <5>2
        <5>4. CASE applied[f] < LF!Lsn
          BY <5>3, <5>4
        <5>5. CASE ~(applied[f] < LF!Lsn)
          BY <5>1, <5>2, <5>5
        <5> QED
          BY <5>4, <5>5
      <4>2. lsn = LF!Lsn /\ data = ldata /\ past[LF!Lsn] = ldata
        BY <1>0, <1>3, <3>1, <3>3, <4>1 DEF LF!LogLeadsHere
      <4> QED
        BY <1>1, <1>2, <3>3, <4>2
    <3> QED
      BY <3>2, <3>3
  <2> QED
    BY <1>2, <1>5, <2>1 DEF LF!FollowersShowPast, LF!Takes
<1> QED
  BY <1>4, <1>5, <1>6 DEF LF!FollowerInv

LEMMA PromoteKeeps ==
  ASSUME LF!FollowerInv, NEW f \in Follower, LF!PromoteToLeader(f)
  PROVE  LF!FollowerInv'
<1>0. LF!FollowerTypes /\ LF!FollowersShowPast
  BY DEF LF!FollowerInv
<1>1. /\ applied \in [Follower -> 0..MaxLsn] /\ fdata \in [Follower -> [LKey -> LF!LValues]]
      /\ past \in [0..MaxLsn -> [LKey -> LF!LValues]]
      /\ DOMAIN online = Follower /\ MaxLsn \in Nat
  BY <1>0, FollowerFacts DEF LF!FollowerTypes
<1>2. /\ nextLsn' = applied[f] + 1 /\ rlog' = <<>> /\ ldata' = fdata[f]
      /\ past' = [past EXCEPT ![applied[f]] = fdata[f]]
      /\ registered' = [g \in Follower |-> "none"]
      /\ online' = [online EXCEPT ![f] = FALSE]
      /\ detached' = detached \cup {f} \cup
            {g \in Follower : \/ applied[g] > applied[f]
                              \/ applied[g] = applied[f] /\ fdata[g] # fdata[f]}
      /\ UNCHANGED <<applied, fdata>>
  BY DEF LF!PromoteToLeader
<1>3. LF!Lsn' = applied[f] /\ applied[f] \in 0..MaxLsn
  BY <1>1, <1>2 DEF LF!Lsn
<1>4. LF!FollowerTypes'
  <2>1. nextLsn' \in 1..(MaxLsn + 1)
    BY <1>1, <1>2, <1>3
  <2> QED
    BY <1>1, <1>2, <2>1 DEF LF!FollowerTypes, LF!LEntry, LF!LValues
<1>5. LF!LogLeadsHere'
  <2>1. Len(rlog') = 0 /\ DOMAIN rlog' = {} /\ past'[applied[f]] = ldata'
    BY <1>1, <1>2, <1>3
  <2>2. \A l \in (LF!Lsn' - Len(rlog'))..LF!Lsn', q \in LKey : past'[l][q] = ldata'[q]
    BY <1>3, <2>1
  <2> QED
    BY <1>3, <2>1, <2>2 DEF LF!LogLeadsHere, LF!LogEntries
<1>6. LF!FollowersShowPast'
  <2>1. ASSUME NEW g \in Follower, g \notin detached'
        PROVE  applied[g] <= applied[f] /\ fdata[g] = past'[applied[g]]
    <3>1. /\ fdata[g] = past[applied[g]]
          /\ ~(applied[g] > applied[f]) /\ (applied[g] = applied[f] => fdata[g] = fdata[f])
      BY <1>0, <1>2, <2>1 DEF LF!FollowersShowPast
    <3> QED
      BY <1>1, <1>2, <3>1
  <2>2. \A g \in Follower : registered'[g] = "none"
    BY <1>2
  <2> QED
    BY <1>2, <1>3, <2>1, <2>2 DEF LF!FollowersShowPast, LF!Takes
<1> QED
  BY <1>4, <1>5, <1>6 DEF LF!FollowerInv

LEMMA FollowersStart ==
  ASSUME LF!FollowerInit
  PROVE  LF!FollowerInv
<1> DEFINE Nothing == [k \in LKey |-> NoValue]
<1>1. /\ nextLsn = 1 /\ rlog = <<>> /\ ldata = Nothing
      /\ registered = [f \in Follower |-> "none"] /\ online = [f \in Follower |-> TRUE]
      /\ applied = [f \in Follower |-> 0] /\ fdata = [f \in Follower |-> Nothing]
      /\ past = [l \in 0..MaxLsn |-> Nothing] /\ detached = {}
  BY DEF LF!FollowerInit, LF!NothingStored
<1>2. Nothing \in [LKey -> LF!LValues] /\ MaxLsn \in Nat
  BY FollowerAssumption DEF LF!LValues
<1> HIDE DEF Nothing
<1>3. LF!FollowerTypes
  BY <1>1, <1>2 DEF LF!FollowerTypes
<1>4. LF!Lsn = 0 /\ past[0] = Nothing /\ Len(rlog) = 0 /\ DOMAIN rlog = {}
  BY <1>1, <1>2 DEF LF!Lsn
<1>5. LF!LogLeadsHere
  <2>1. \A l \in (LF!Lsn - Len(rlog))..LF!Lsn, q \in LKey : past[l][q] = ldata[q]
    BY <1>1, <1>4
  <2>2. Len(rlog) <= LF!Lsn /\ past[LF!Lsn] = ldata
    BY <1>1, <1>4
  <2>3. \A i \in DOMAIN rlog : FALSE
    BY <1>4
  <2> QED
    BY <2>1, <2>2, <2>3 DEF LF!LogLeadsHere
<1>6. LF!FollowersShowPast
  BY <1>1, <1>4 DEF LF!FollowersShowPast, LF!Takes
<1> QED
  BY <1>3, <1>5, <1>6 DEF LF!FollowerInv

LEMMA FollowerStep ==
  ASSUME LF!FollowerInv, LF!FollowerNext
  PROVE  LF!FollowerInv'
<1>0. LF!FollowerTypes /\ LF!LogLeadsHere /\ LF!FollowersShowPast
  BY DEF LF!FollowerInv
<1>1. ASSUME NEW k \in LKey, NEW v \in LValue \cup {NoValue}, LF!WriteEntry(k, v)
      PROVE  LF!FollowerInv'
  BY <1>1, WriteKeepsFollowers DEF LF!LValues
<1>2. ASSUME NEW f \in Follower, LF!ComeOnline(f) PROVE LF!FollowerInv'
  BY <1>2, ComeOnlineKeeps
<1>3. ASSUME NEW f \in Follower, LF!PromoteToLeader(f) PROVE LF!FollowerInv'
  BY <1>3, PromoteKeeps
<1>4. ASSUME UNCHANGED <<nextLsn, rlog, ldata, applied, fdata, past>>,
             DOMAIN registered' = Follower, DOMAIN online' = Follower,
             detached \subseteq detached',
             \A f \in Follower \ detached' :
                registered'[f] # "none" /\ online'[f] =>
                   LF!Takes(f) \/ applied[f] = LF!Lsn
      PROVE  LF!FollowerInv'
  <2>1. LF!FollowerTypes'
    BY <1>0, <1>4 DEF LF!FollowerTypes, LF!LEntry, LF!LValues
  <2>2. LF!LogLeadsHere' /\ LF!Lsn' = LF!Lsn
    BY <1>0, <1>4 DEF LF!LogLeadsHere, LF!LogEntries, LF!Lsn
  <2>3. LF!FollowersShowPast'
    BY <1>0, <1>4, <2>2 DEF LF!FollowersShowPast, LF!Takes
  <2> QED
    BY <2>1, <2>2, <2>3 DEF LF!FollowerInv
<1>5. DOMAIN registered = Follower /\ DOMAIN online = Follower
  BY <1>0 DEF LF!FollowerTypes
<1>6. ASSUME NEW f \in Follower, NEW m \in Modes, LF!AddFollower(f, m) PROVE LF!FollowerInv'
  BY <1>4, <1>5, <1>6 DEF LF!AddFollower, LF!Reached, LF!Takes
<1>7. ASSUME NEW f \in Follower, LF!RemoveFollower(f) PROVE LF!FollowerInv'
  BY <1>4, <1>5, <1>7 DEF LF!RemoveFollower, LF!Takes
<1>8. ASSUME NEW f \in Follower, LF!GoOffline(f) PROVE LF!FollowerInv'
  BY <1>4, <1>5, <1>8 DEF LF!GoOffline, LF!Takes
<1>9. CASE LF!SessionRead
  BY <1>4, <1>5, <1>9 DEF LF!SessionRead, LF!Takes
<1> QED
  BY <1>1, <1>2, <1>3, <1>6, <1>7, <1>8, <1>9 DEF LF!FollowerNext

-----------------------------------------------------------------------------
(* vector-clocks.                                                          *)

LEMMA MaxOfVS == \A S : VS!Max(S) = CHOOSE x \in S : \A y \in S : x >= y
BY DEF VS!Max

LEMMA MaxOfTwo ==
  ASSUME NEW a \in Nat, NEW b \in Nat
  PROVE  /\ VS!Max({a, b}) \in Nat /\ VS!Max({a, b}) >= a /\ VS!Max({a, b}) >= b
         /\ VS!Max({a, b}) = a \/ VS!Max({a, b}) = b
<1>1. PICK x \in {a, b} : \A y \in {a, b} : x >= y
  <2>1. CASE a >= b
    BY <2>1
  <2>2. CASE b >= a
    BY <2>2
  <2> QED
    BY <2>1, <2>2
<1>2. VS!Max({a, b}) \in {a, b} /\ \A y \in {a, b} : VS!Max({a, b}) >= y
  BY <1>1, MaxOfVS
<1> QED
  BY <1>2

LEMMA VersionFacts ==
  ASSUME VS!VersionTypes
  PROVE  /\ Len(versions) \in Nat /\ DOMAIN versions = 1..Len(versions)
         /\ IsFiniteSet(DOMAIN versions)
         /\ \A v \in DOMAIN versions :
               versions[v].key \in VKey /\ versions[v].vc \in [VNode -> Nat]
<1>1. Len(versions) \in Nat /\ DOMAIN versions = 1..Len(versions)
  BY DEF VS!VersionTypes
<1>2. IsFiniteSet(1..Len(versions))
  BY <1>1, FS_Interval
<1>3. \A v \in DOMAIN versions : versions[v] \in VS!Version
  BY <1>1 DEF VS!VersionTypes
<1> QED
  BY <1>1, <1>2, <1>3 DEF VS!Version

(* The pointwise maximum of some versions' clocks. *)
LEMMA MergedAllIs ==
  ASSUME VS!VersionTypes, NEW read \in SUBSET DOMAIN versions, NEW m \in VNode
  PROVE  LET x == VS!MergedAll({versions[v].vc : v \in read})[m]
         IN  /\ x \in Nat /\ \A r \in read : x >= versions[r].vc[m]
             /\ x = 0 \/ \E r \in read : x = versions[r].vc[m]
<1> DEFINE cs == {versions[v].vc : v \in read}
           S == {0} \cup {c[m] : c \in cs}
<1>0. {c[m] : c \in cs} = {versions[r].vc[m] : r \in read}
  OBVIOUS
<1>2. \A v \in DOMAIN versions : versions[v].vc \in [VNode -> Nat]
  BY VersionFacts
<1>3. S \in SUBSET Nat
  BY <1>2
<1>4. IsFiniteSet(S)
  <2> DEFINE f == [r \in read |-> versions[r].vc[m]]
  <2>1. IsFiniteSet(read)
    BY VersionFacts, FS_Subset
  <2>2. IsFiniteSet({f[r] : r \in read})
    <3>1. DOMAIN f = read
      OBVIOUS
    <3> HIDE DEF f
    <3> QED
      BY <2>1, <3>1, ImageFinite
  <2>3. {f[r] : r \in read} = {versions[r].vc[m] : r \in read}
    OBVIOUS
  <2>4. S = {0} \cup {f[r] : r \in read}
    BY <1>0, <2>3
  <2>5. IsFiniteSet({0})
    BY FS_Singleton
  <2> HIDE DEF S, f
  <2> QED
    BY <2>2, <2>4, <2>5, FS_Union
<1>5. PICK x \in S : \A y \in S : y =< x
  <2>1. S # {} /\ S \in SUBSET Int
    BY <1>3
  <2> HIDE DEF S
  <2> QED
    BY <1>4, <2>1, GreatestElement
<1>6. VS!Max(S) \in S /\ \A y \in S : VS!Max(S) >= y
  <2>1. \A y \in S : x >= y
    BY <1>3, <1>5
  <2> HIDE DEF S
  <2> QED
    BY <2>1, MaxOfVS
<1>7. VS!MergedAll(cs)[m] = VS!Max(S)
  BY DEF VS!MergedAll
<1>8. \A r \in read : versions[r].vc[m] \in S
  OBVIOUS
<1>9. VS!Max(S) = 0 \/ \E r \in read : VS!Max(S) = versions[r].vc[m]
  <2>1. S = {0} \cup {versions[r].vc[m] : r \in read}
    BY <1>0
  <2> HIDE DEF S
  <2> QED
    BY <1>6, <2>1
<1> HIDE DEF S
<1>10. VS!Max(S) \in Nat
  BY <1>3, <1>6
<1> QED
  BY <1>6, <1>7, <1>8, <1>9, <1>10

(* A version's clock covers another's exactly when it follows it. *)
LEMMA DominatesIsFollows ==
  ASSUME VS!VersionInv, NEW v \in DOMAIN versions, NEW w \in DOMAIN versions
  PROVE  VS!Dominates(versions[v].vc, versions[w].vc) <=> w \in VS!Follows(v)
<1>1. ASSUME VS!Dominates(versions[v].vc, versions[w].vc) PROVE w \in VS!Follows(v)
  <2>1. PICK m \in VNode : VS!Marks(m, w)
    BY DEF VS!VersionInv
  <2> QED
    BY <1>1, <2>1 DEF VS!Marks, VS!Dominates
<1>2. ASSUME w \in versions[v].past PROVE VS!Dominates(versions[v].vc, versions[w].vc)
  BY <1>2 DEF VS!VersionInv, VS!ClocksCover
<1>3. VS!Dominates(versions[v].vc, versions[v].vc)
  <2>1. versions[v].vc \in [VNode -> Nat]
    BY VersionFacts DEF VS!VersionInv
  <2> QED
    BY <2>1 DEF VS!Dominates
<1> QED
  BY <1>1, <1>2, <1>3 DEF VS!Follows

LEMMA PastBelow ==
  ASSUME VS!VersionInv, NEW v \in DOMAIN versions, NEW w \in versions[v].past
  PROVE  /\ w \in DOMAIN versions /\ w < v /\ v \in Nat /\ w \in Nat
         /\ v \notin versions[w].past /\ versions[w].past \subseteq versions[v].past
<1>1. Len(versions) \in Nat /\ DOMAIN versions = 1..Len(versions)
  BY DEF VS!VersionInv, VS!VersionTypes
<1>2. versions[v].past \subseteq 1..(v - 1) /\ versions[w].past \subseteq versions[v].past
  BY DEF VS!VersionInv, VS!PastsNest
<1>3. v \in Nat /\ w \in 1..(v - 1) /\ w \in DOMAIN versions
  BY <1>1, <1>2
<1>4. versions[w].past \subseteq 1..(w - 1)
  BY <1>3 DEF VS!VersionInv, VS!PastsNest
<1> QED
  BY <1>2, <1>3, <1>4

LEMMA CompareIs ==
  ASSUME NEW c, NEW d
  PROVE  VS!Compare(c, d) = IF VS!Less(c, d)
                            THEN IF VS!Less(d, c) THEN "CONCURRENT" ELSE "BEFORE"
                            ELSE IF VS!Less(d, c) THEN "AFTER" ELSE "EQUAL"
BY DEF VS!Compare

LEMMA ClocksCausal ==
  ASSUME VS!VersionInv
  PROVE  VS!ClocksAreCausal
<1> SUFFICES ASSUME NEW v \in DOMAIN versions, NEW w \in DOMAIN versions
             PROVE  VS!Compare(versions[v].vc, versions[w].vc) =
                       CASE v = w -> "EQUAL"
                         [] w \in versions[v].past -> "AFTER"
                         [] v \in versions[w].past -> "BEFORE"
                         [] OTHER -> "CONCURRENT"
  BY DEF VS!ClocksAreCausal
<1>1. \A x, y \in DOMAIN versions :
         VS!Less(versions[x].vc, versions[y].vc) <=> y \notin VS!Follows(x)
  <2> SUFFICES ASSUME NEW x \in DOMAIN versions, NEW y \in DOMAIN versions
               PROVE  VS!Less(versions[x].vc, versions[y].vc) <=> y \notin VS!Follows(x)
    OBVIOUS
  <2>1. versions[x].vc \in [VNode -> Nat] /\ versions[y].vc \in [VNode -> Nat]
    BY VersionFacts DEF VS!VersionInv
  <2>2. VS!Less(versions[x].vc, versions[y].vc) <=> ~VS!Dominates(versions[x].vc, versions[y].vc)
    BY <2>1 DEF VS!Less, VS!Dominates
  <2> QED
    BY <2>2, DominatesIsFollows
<1>2. w \in versions[v].past => v \notin versions[w].past /\ v # w
  BY PastBelow
<1>3. v \in versions[w].past => w \notin versions[v].past /\ v # w
  BY PastBelow
<1> QED
  BY <1>1, <1>2, <1>3, CompareIs DEF VS!Follows

(* Siblings that are the latest versions are pairwise concurrent. *)
LEMMA ConflictsFound ==
  ASSUME VS!VersionInv
  PROVE  VS!SiblingsAreLatest
<1> SUFFICES ASSUME NEW n \in VNode, NEW k \in VKey
             PROVE  /\ siblings[n][k] = VS!Latest(n, k)
                    /\ VS!FindConflicts(siblings[n][k]) <=> VS!Cardinality(siblings[n][k]) > 1
  BY DEF VS!SiblingsAreLatest
<1> DEFINE S == siblings[n][k]
<1>1. S = VS!Latest(n, k)
  BY DEF VS!VersionInv
<1>2. S \subseteq DOMAIN versions /\ \A v, w \in S : v \notin versions[w].past
  <2>1. reached[n] \subseteq DOMAIN versions
    BY DEF VS!VersionInv, VS!VersionTypes
  <2> QED
    BY <1>1, <2>1 DEF VS!Latest
<1>3. IsFiniteSet(S)
  <2>1. IsFiniteSet(DOMAIN versions)
    BY VersionFacts DEF VS!VersionInv
  <2> QED
    BY <1>2, <2>1, FS_Subset
<1>4. VS!FindConflicts(S) <=> \E v, w \in S : v # w
  <2>1. \A v, w \in S : VS!Compare(versions[v].vc, versions[w].vc) =
                           IF v = w THEN "EQUAL" ELSE "CONCURRENT"
    BY <1>2, ClocksCausal DEF VS!ClocksAreCausal
  <2> HIDE DEF S
  <2> QED
    BY <2>1 DEF VS!FindConflicts
<1>5. VS!Cardinality(S) = Cardinality(S)
  BY DEF VS!Cardinality, Cardinality, VS!IsFiniteSet, IsFiniteSet
<1> HIDE DEF S
<1>6. (\E v, w \in S : v # w) <=> Cardinality(S) > 1
  <2>1. CASE S = {}
    BY <2>1, FS_EmptySet
  <2>2. ASSUME NEW v \in S PROVE (\E x, y \in S : x # y) <=> Cardinality(S) > 1
    <3>1. Cardinality(S \ {v}) = Cardinality(S) - 1 /\ IsFiniteSet(S \ {v})
      BY <1>3, FS_RemoveElement
    <3>2. Cardinality(S \ {v}) \in Nat /\ Cardinality(S) \in Nat
      BY <1>3, <3>1, FS_CardinalityType
    <3>3. Cardinality(S \ {v}) = 0 <=> S \ {v} = {}
      BY <3>1, FS_EmptySet
    <3>4. (\E x, y \in S : x # y) <=> S \ {v} # {}
      OBVIOUS
    <3> QED
      BY <3>1, <3>2, <3>3, <3>4
  <2> QED
    BY <2>1, <2>2
<1> QED
  BY <1>1, <1>4, <1>5, <1>6 DEF S

LEMMA KnownFacts ==
  ASSUME VS!VersionInv, NEW S \in SUBSET DOMAIN versions
  PROVE  /\ S \subseteq VS!KnownFrom(S) /\ VS!KnownFrom(S) \subseteq DOMAIN versions
         /\ \A w \in VS!KnownFrom(S) : versions[w].past \subseteq VS!KnownFrom(S)
         /\ \A v \in S : VS!Follows(v) \subseteq VS!KnownFrom(S)
<1>1. \A v \in DOMAIN versions : versions[v].past \subseteq DOMAIN versions
  BY PastBelow
<1>2. \A v \in DOMAIN versions : \A w \in versions[v].past : versions[w].past \subseteq versions[v].past
  BY PastBelow
<1> QED
  BY <1>1, <1>2 DEF VS!KnownFrom, VS!Follows

(* A clock that counts one more write of n and otherwise covers what n and *)
(* the client knew of, and no more.                                        *)
NextClock(c, n, read) ==
  /\ c \in [VNode -> Nat] /\ c[n] = vclock[n][n] + 1
  /\ \A m \in VNode :
        /\ c[m] >= vclock[n][m] /\ \A r \in read : c[m] >= versions[r].vc[m]
        /\ m # n => c[m] = vclock[n][m] \/ \E r \in read : c[m] = versions[r].vc[m]

(* put and reconcile: a version whose clock covers what the node and the    *)
(* client knew of and counts one more write of the node, in place of all    *)
(* siblings.                                                                *)
LEMMA WriteKeeps ==
  ASSUME VS!VersionInv, NEW n \in VNode, NEW k \in VKey, NEW read \in SUBSET DOMAIN versions,
         NEW c, NextClock(c, n, read), VS!Write(n, k, c, read),
         vclock' = [vclock EXCEPT ![n] = c],
         siblings' = [siblings EXCEPT ![n] = [siblings[n] EXCEPT ![k] = {Len(versions) + 1}]]
  PROVE  VS!VersionInv'
<1> DEFINE P == VS!KnownFrom(read \cup reached[n])
<1>0. VS!VersionTypes /\ VS!PastsNest /\ VS!OwnEntryLeads /\ VS!ClocksCover
  BY DEF VS!VersionInv
<1>c. /\ c \in [VNode -> Nat] /\ c[n] = vclock[n][n] + 1
      /\ \A m \in VNode :
            /\ c[m] >= vclock[n][m] /\ \A r \in read : c[m] >= versions[r].vc[m]
            /\ m # n => c[m] = vclock[n][m] \/ \E r \in read : c[m] = versions[r].vc[m]
  BY DEF NextClock
<1> USE <1>c
<1>1. /\ Len(versions) \in Nat /\ DOMAIN versions = 1..Len(versions)
      /\ \A v \in DOMAIN versions :
            versions[v].key \in VKey /\ versions[v].vc \in [VNode -> Nat]
      /\ reached \in [VNode -> SUBSET DOMAIN versions] /\ vclock \in [VNode -> [VNode -> Nat]]
      /\ siblings \in [VNode -> [VKey -> SUBSET Nat]]
  BY <1>0, VersionFacts DEF VS!VersionTypes
<1>n. PICK new \in Nat : new = Len(versions) + 1
  BY <1>1
<1>2. /\ P \in SUBSET DOMAIN versions /\ read \subseteq P /\ reached[n] \subseteq P
      /\ \A w \in P : versions[w].past \subseteq P
      /\ \A r \in read : VS!Follows(r) \subseteq P
      /\ VS!Known(n) \subseteq P
      /\ \A w \in P : w \in VS!Known(n) \/ \E r \in read : w \in VS!Follows(r)
  <2>1. read \cup reached[n] \in SUBSET DOMAIN versions
    BY <1>1
  <2>2. VS!Known(n) \subseteq P /\ \A w \in P : w \in VS!Known(n) \/ \E r \in read : w \in VS!Follows(r)
    BY DEF VS!Known, VS!KnownFrom, VS!Follows
  <2> QED
    BY <2>1, <2>2, KnownFacts
<1>3. /\ versions' = Append(versions, [key |-> k, vc |-> c, past |-> P])
      /\ reached' = [reached EXCEPT ![n] = @ \cup {new}]
  BY <1>n DEF VS!Write
<1> HIDE DEF P
<1>4. /\ versions' \in Seq(VS!Version)
      /\ DOMAIN versions' = DOMAIN versions \cup {new} /\ new \notin DOMAIN versions
      /\ \A v \in DOMAIN versions : versions'[v] = versions[v]
      /\ versions'[new] = [key |-> k, vc |-> c, past |-> P]
  <2>1. versions \in Seq(VS!Version)
    BY <1>0 DEF VS!VersionTypes
  <2>2. [key |-> k, vc |-> c, past |-> P] \in VS!Version
    BY <1>1, <1>2 DEF VS!Version
  <2> QED
    BY <1>1, <1>n, <1>3, <2>1, <2>2
<1>5. /\ \A v \in DOMAIN versions : VS!Follows(v)' = VS!Follows(v)
      /\ VS!Follows(new)' = {new} \cup P
      /\ \A j \in VNode : j # n => VS!Known(j)' = VS!Known(j)
      /\ VS!Known(n)' = {new} \cup P \cup VS!Known(n)
  <2>1. \A v \in DOMAIN versions : VS!Follows(v)' = VS!Follows(v)
    BY <1>4 DEF VS!Follows
  <2>2. VS!Follows(new)' = {new} \cup P
    BY <1>4 DEF VS!Follows
  <2>3. ASSUME NEW S \in SUBSET DOMAIN versions PROVE VS!KnownFrom(S)' = VS!KnownFrom(S)
    BY <1>4 DEF VS!KnownFrom
  <2>4. ASSUME NEW j \in VNode, j # n PROVE VS!Known(j)' = VS!Known(j)
    <3>1. reached'[j] = reached[j] /\ reached[j] \in SUBSET DOMAIN versions
      BY <1>1, <1>3, <2>4
    <3> QED
      BY <2>3, <3>1, <1>4 DEF VS!Known, VS!KnownFrom
  <2>5. VS!Known(n)' = {new} \cup P \cup VS!Known(n)
    <3>1. reached'[n] = reached[n] \cup {new} /\ reached[n] \in SUBSET DOMAIN versions
      BY <1>1, <1>3
    <3>2. {versions'[v].past : v \in reached'[n]} = {versions[v].past : v \in reached[n]} \cup {P}
      BY <1>4, <3>1
    <3> QED
      BY <3>1, <3>2 DEF VS!Known, VS!KnownFrom
  <2> QED
    BY <2>1, <2>2, <2>4, <2>5
<1>6. VS!VersionTypes'
  <2>1. reached' \in [VNode -> SUBSET DOMAIN versions']
    BY <1>1, <1>3, <1>4
  <2>2. siblings' \in [VNode -> [VKey -> SUBSET Nat]]
    <3>1. [siblings[n] EXCEPT ![k] = {new}] \in [VKey -> SUBSET Nat]
      BY <1>1
    <3> QED
      BY <1>1, <1>n, <3>1
  <2>3. vclock' \in [VNode -> [VNode -> Nat]]
    BY <1>1
  <2> QED
    BY <1>4, <2>1, <2>2, <2>3 DEF VS!VersionTypes, VS!Version
<1>7. VS!PastsNest'
  <2>1. ASSUME NEW v \in DOMAIN versions
        PROVE  /\ versions'[v].past \subseteq 1..(v - 1)
               /\ \A w \in versions'[v].past : versions'[w].past \subseteq versions'[v].past
    <3>1. versions'[v].past = versions[v].past
      BY <1>4
    <3>2. \A w \in versions[v].past : w \in DOMAIN versions /\ versions[w].past \subseteq versions[v].past
      BY PastBelow
    <3> QED
      BY <1>0, <1>4, <3>1, <3>2 DEF VS!PastsNest
  <2>2. /\ versions'[new].past \subseteq 1..(new - 1)
        /\ \A w \in versions'[new].past : versions'[w].past \subseteq versions'[new].past
    <3>1. versions'[new].past = P
      BY <1>4
    <3>2. P \subseteq 1..(new - 1)
      BY <1>1, <1>n, <1>2
    <3> QED
      BY <1>2, <1>4, <3>1, <3>2
  <2> QED
    BY <1>4, <2>1, <2>2 DEF VS!PastsNest
<1>8. VS!OwnEntryLeads'
  <2> SUFFICES ASSUME NEW m \in VNode
               PROVE  /\ \A v \in DOMAIN versions' : versions'[v].vc[m] <= vclock'[m][m]
                      /\ \A j \in VNode : vclock'[j][m] <= vclock'[m][m]
    BY DEF VS!OwnEntryLeads
  <2>1. /\ \A v \in DOMAIN versions : versions[v].vc[m] <= vclock[m][m] /\ versions[v].vc[m] \in Nat
        /\ \A j \in VNode : vclock[j][m] <= vclock[m][m] /\ vclock[j][m] \in Nat
        /\ c[m] \in Nat
    BY <1>0, <1>1 DEF VS!OwnEntryLeads
  <2>2. c[m] <= vclock'[m][m] /\ vclock[m][m] <= vclock'[m][m]
    <3>1. CASE m = n
      BY <1>1, <2>1, <3>1
    <3>2. CASE m # n
      <4>1. vclock'[m] = vclock[m]
        BY <1>1, <3>2
      <4>2. c[m] = vclock[n][m] \/ \E r \in read : c[m] = versions[r].vc[m]
        BY <3>2
      <4> QED
        BY <2>1, <4>1, <4>2
    <3> QED
      BY <3>1, <3>2
  <2>3. vclock'[m][m] \in Nat
    BY <1>6 DEF VS!VersionTypes
  <2>4. ASSUME NEW v \in DOMAIN versions' PROVE versions'[v].vc[m] <= vclock'[m][m]
    <3>1. CASE v \in DOMAIN versions
      BY <1>4, <2>1, <2>2, <2>3, <3>1
    <3>2. CASE v = new
      BY <1>4, <2>2, <3>2
    <3> QED
      BY <1>4, <3>1, <3>2
  <2>5. ASSUME NEW j \in VNode PROVE vclock'[j][m] <= vclock'[m][m]
    <3>1. CASE j = n
      BY <1>1, <2>2, <3>1
    <3>2. CASE j # n
      BY <1>1, <2>1, <2>2, <2>3, <3>2
    <3> QED
      BY <3>1, <3>2
  <2> QED
    BY <2>4, <2>5
<1>9. \A w \in P : VS!Dominates(c, versions[w].vc)
  <2> SUFFICES ASSUME NEW w \in P, NEW m \in VNode PROVE c[m] >= versions[w].vc[m]
    BY DEF VS!Dominates
  <2>0. w \in DOMAIN versions /\ versions[w].vc[m] \in Nat /\ c[m] \in Nat /\ vclock[n][m] \in Nat
    BY <1>1, <1>2
  <2>1. CASE w \in VS!Known(n)
    <3>1. vclock[n][m] >= versions[w].vc[m]
      BY <1>0, <2>1 DEF VS!ClocksCover, VS!Dominates
    <3> QED
      BY <2>0, <3>1
  <2>2. ASSUME NEW r \in read, w \in VS!Follows(r) PROVE c[m] >= versions[w].vc[m]
    <3>1. versions[r].vc[m] >= versions[w].vc[m]
      BY <2>0, <2>2, DominatesIsFollows DEF VS!Dominates
    <3>2. versions[r].vc[m] \in Nat
      BY <1>1
    <3> QED
      BY <2>0, <3>1, <3>2
  <2> QED
    BY <1>2, <2>1, <2>2
<1>10. VS!ClocksCover'
  <2>1. VS!Dominates(c, c)
    BY DEF VS!Dominates
  <2>2. ASSUME NEW v \in DOMAIN versions', NEW w \in versions'[v].past
        PROVE  VS!Dominates(versions'[v].vc, versions'[w].vc)
    <3>1. CASE v \in DOMAIN versions
      <4>1. w \in versions[v].past /\ w \in DOMAIN versions
        BY <1>4, <3>1, PastBelow
      <4>2. VS!Dominates(versions[v].vc, versions[w].vc)
        BY <1>0, <3>1, <4>1 DEF VS!ClocksCover
      <4> QED
        BY <1>4, <3>1, <4>1, <4>2
    <3>2. CASE v = new
      BY <1>2, <1>4, <1>9, <3>2
    <3> QED
      BY <1>4, <3>1, <3>2
  <2>3. ASSUME NEW j \in VNode, NEW w \in VS!Known(j)'
        PROVE  VS!Dominates(vclock'[j], versions'[w].vc)
    <3>1. CASE j # n
      <4>1. w \in VS!Known(j) /\ vclock'[j] = vclock[j]
        BY <1>1, <1>5, <3>1
      <4>2. w \in DOMAIN versions
        BY <1>1, <4>1, KnownFacts DEF VS!Known
      <4> QED
        BY <1>0, <1>4, <4>1, <4>2 DEF VS!ClocksCover
    <3>2. CASE j = n /\ w = new
      BY <1>1, <1>4, <2>1, <3>2
    <3>3. CASE j = n /\ w \in P
      BY <1>1, <1>2, <1>4, <1>9, <3>3
    <3> QED
      BY <1>2, <1>5, <3>1, <3>2, <3>3
  <2>4. VS!ClocksCover' <=>
          /\ \A v \in DOMAIN versions' : \A w \in versions'[v].past :
                VS!Dominates(versions'[v].vc, versions'[w].vc)
          /\ \A j \in VNode : \A w \in VS!Known(j)' : VS!Dominates(vclock'[j], versions'[w].vc)
    BY DEF VS!ClocksCover, VS!Dominates
  <2> QED
    BY <2>2, <2>3, <2>4
<1>11. ASSUME NEW w \in DOMAIN versions' PROVE \E m \in VNode : VS!Marks(m, w)'
  <2>1. CASE w \in DOMAIN versions
    <3>1. PICK m \in VNode : VS!Marks(m, w)
      BY <2>1 DEF VS!VersionInv
    <3>2. versions[w].vc[m] \in Nat /\ versions'[w] = versions[w]
      BY <1>1, <1>4, <2>1
    <3>3. c[m] >= versions[w].vc[m] => w \in P
      <4>1. CASE m = n
        <5>1. vclock[n][n] >= versions[w].vc[n] /\ vclock[n][n] \in Nat
          BY <1>0, <1>1, <2>1 DEF VS!OwnEntryLeads
        <5> QED
          BY <1>2, <3>1, <4>1, <5>1 DEF VS!Marks
      <4>2. CASE m # n /\ c[m] = vclock[n][m]
        BY <1>2, <3>1, <4>2 DEF VS!Marks
      <4>3. ASSUME NEW r \in read, c[m] = versions[r].vc[m], c[m] >= versions[w].vc[m] PROVE w \in P
        BY <1>2, <3>1, <4>3 DEF VS!Marks
      <4> QED
        BY <4>1, <4>2, <4>3
    <3>4. ASSUME NEW v \in DOMAIN versions', versions'[v].vc[m] >= versions'[w].vc[m]
          PROVE  w \in VS!Follows(v)'
      <4>1. CASE v \in DOMAIN versions
        BY <1>4, <1>5, <3>1, <3>2, <3>4, <4>1 DEF VS!Marks
      <4>2. CASE v = new
        BY <1>4, <1>5, <3>2, <3>3, <3>4, <4>2
      <4> QED
        BY <1>4, <4>1, <4>2
    <3>5. ASSUME NEW j \in VNode, vclock'[j][m] >= versions'[w].vc[m] PROVE w \in VS!Known(j)'
      <4>1. CASE j # n
        BY <1>1, <1>5, <3>1, <3>2, <3>5, <4>1 DEF VS!Marks
      <4>2. CASE j = n
        BY <1>1, <1>5, <3>2, <3>3, <3>5, <4>2
      <4> QED
        BY <4>1, <4>2
    <3> QED
      BY <3>4, <3>5 DEF VS!Marks
  <2>2. CASE w = new
    <3>1. versions'[w].vc[n] = vclock[n][n] + 1
      BY <1>4, <2>2
    <3>2. ASSUME NEW v \in DOMAIN versions', versions'[v].vc[n] >= versions'[w].vc[n]
          PROVE  w \in VS!Follows(v)'
      <4>1. CASE v \in DOMAIN versions
        <5>1. /\ versions'[v].vc[n] <= vclock[n][n] /\ versions'[v].vc[n] \in Nat
              /\ vclock[n][n] \in Nat
          BY <1>0, <1>1, <1>4, <4>1 DEF VS!OwnEntryLeads
        <5> QED
          BY <3>1, <3>2, <5>1
      <4> QED
        BY <1>4, <1>5, <2>2, <4>1
    <3>3. ASSUME NEW j \in VNode, vclock'[j][n] >= versions'[w].vc[n] PROVE w \in VS!Known(j)'
      <4>1. CASE j # n
        <5>1. vclock'[j][n] <= vclock[n][n] /\ vclock'[j][n] \in Nat /\ vclock[n][n] \in Nat
          BY <1>0, <1>1, <4>1 DEF VS!OwnEntryLeads
        <5> QED
          BY <3>1, <3>3, <5>1
      <4> QED
        BY <1>5, <2>2, <4>1
    <3> QED
      BY <3>2, <3>3 DEF VS!Marks
  <2> QED
    BY <1>4, <2>1, <2>2
<1>12. ASSUME NEW j \in VNode, NEW l \in VKey PROVE siblings'[j][l] = VS!Latest(j, l)'
  <2> DEFINE mine == {v \in reached[j] : versions[v].key = l}
             mine1 == {v \in reached'[j] : versions'[v].key = l}
  <2>0. /\ mine \subseteq DOMAIN versions
        /\ VS!Latest(j, l) = mine \ UNION {versions[w].past : w \in mine}
        /\ VS!Latest(j, l)' = mine1 \ UNION {versions'[w].past : w \in mine1}
    BY <1>1 DEF VS!Latest
  <2>1. CASE j # n \/ l # k
    <3>1. siblings'[j][l] = siblings[j][l]
      BY <1>1, <2>1
    <3>2. mine1 = mine
      <4>1. CASE j # n
        BY <1>1, <1>3, <1>4, <4>1
      <4>2. CASE j = n /\ l # k
        BY <1>1, <1>3, <1>4, <4>2
      <4> QED
        BY <2>1, <4>1, <4>2
    <3>3. {versions'[w].past : w \in mine} = {versions[w].past : w \in mine}
      BY <1>4, <2>0
    <3>4. siblings[j][l] = VS!Latest(j, l)
      BY DEF VS!VersionInv
    <3> HIDE DEF mine, mine1
    <3> QED
      BY <2>0, <3>1, <3>2, <3>3, <3>4
  <2>2. CASE j = n /\ l = k
    <3>1. siblings'[j][l] = {new}
      BY <1>1, <1>n, <2>2
    <3>2. mine1 = mine \cup {new}
      BY <1>1, <1>3, <1>4, <2>2
    <3>3. mine \subseteq P
      BY <1>2, <2>2
    <3>4. \A w \in mine1 : versions'[w].past \subseteq DOMAIN versions
      <4>1. \A w \in DOMAIN versions : versions[w].past \subseteq DOMAIN versions
        BY PastBelow
      <4> HIDE DEF mine, mine1
      <4> QED
        BY <1>2, <1>4, <2>0, <3>2, <4>1
    <3>5. new \in mine1 /\ versions'[new].past = P
      BY <1>4, <3>2
    <3> HIDE DEF mine, mine1
    <3> QED
      BY <1>4, <2>0, <3>1, <3>2, <3>3, <3>4, <3>5
  <2> QED
    BY <2>1, <2>2
<1> QED
  BY <1>6, <1>7, <1>8, <1>10, <1>11, <1>12 DEF VS!VersionInv

(* The clock of a put: pointwise the greatest of what the client read and   *)
(* the node's own, which counts the put.                                    *)
LEMMA MergedIs ==
  ASSUME NEW c \in [VNode -> Nat], NEW d \in [VNode -> Nat]
  PROVE  /\ VS!Merged(c, d) \in [VNode -> Nat]
         /\ \A m \in VNode : /\ VS!Merged(c, d)[m] >= c[m] /\ VS!Merged(c, d)[m] >= d[m]
                             /\ VS!Merged(c, d)[m] = c[m] \/ VS!Merged(c, d)[m] = d[m]
<1>1. \A m \in VNode : c[m] \in Nat /\ d[m] \in Nat
  OBVIOUS
<1> QED
  BY <1>1, MaxOfTwo DEF VS!Merged

LEMMA MergedBelow ==
  ASSUME NEW c \in [VNode -> Nat], NEW d \in [VNode -> Nat], \A m \in VNode : c[m] <= d[m]
  PROVE  VS!Merged(c, d) = d
<1>1. ASSUME NEW m \in VNode PROVE VS!Merged(c, d)[m] = d[m]
  <2>1. c[m] \in Nat /\ d[m] \in Nat /\ VS!Merged(c, d)[m] \in Nat
    BY MergedIs
  <2> QED
    BY <2>1, MergedIs
<1>2. VS!Merged(c, d) = [m \in VNode |-> VS!Merged(c, d)[m]] /\ d = [m \in VNode |-> d[m]]
  BY MergedIs
<1> QED
  BY <1>1, <1>2

LEMMA PutKeepsVersions ==
  ASSUME VS!VersionInv, NEW n \in VNode, NEW k \in VKey, NEW read \in SUBSET DOMAIN versions,
         VS!Put(n, k, read)
  PROVE  VS!VersionInv'
<1> DEFINE own == VS!Increment(vclock[n], n)
           all == VS!MergedAll({versions[v].vc : v \in read})
           c == VS!PutClock(own, read)
<1>0. VS!VersionTypes /\ VS!OwnEntryLeads /\ VS!ClocksCover
  BY DEF VS!VersionInv
<1>1. /\ \A v \in DOMAIN versions : versions[v].vc \in [VNode -> Nat]
      /\ reached \in [VNode -> SUBSET DOMAIN versions] /\ vclock \in [VNode -> [VNode -> Nat]]
      /\ siblings \in [VNode -> [VKey -> SUBSET Nat]]
  BY <1>0, VersionFacts DEF VS!VersionTypes
<1>2. /\ own \in [VNode -> Nat] /\ own[n] = vclock[n][n] + 1
      /\ \A m \in VNode : own[m] >= vclock[n][m] /\ (m # n => own[m] = vclock[n][m])
  <2>1. vclock[n] \in [VNode -> Nat]
    BY <1>1
  <2>2. own = [vclock[n] EXCEPT ![n] = @ + 1]
    BY DEF VS!Increment
  <2> QED
    BY <2>1, <2>2
<1>3. all \in [VNode -> Nat]
  BY <1>0, MergedAllIs DEF VS!MergedAll
<1>4. c = VS!Merged(all, own)
  BY DEF VS!PutClock
<1>5. /\ c \in [VNode -> Nat]
      /\ \A m \in VNode : /\ c[m] >= all[m] /\ c[m] >= own[m]
                          /\ c[m] = all[m] \/ c[m] = own[m]
  <2> HIDE DEF all, own, c
  <2> QED
    BY <1>2, <1>3, <1>4, MergedIs
<1>6. VS!Merged(own, c) = c
  <2>1. \A m \in VNode : own[m] <= c[m]
    <3> HIDE DEF all, own, c
    <3> QED
      BY <1>2, <1>5
  <2> HIDE DEF all, own, c
  <2> QED
    BY <1>2, <1>5, <2>1, MergedBelow
<1>7. \A m \in VNode : /\ all[m] \in Nat
                       /\ \A r \in read : all[m] >= versions[r].vc[m]
                       /\ all[m] = 0 \/ \E r \in read : all[m] = versions[r].vc[m]
  BY <1>0, MergedAllIs
<1> HIDE DEF all, own, c
<1>8. ASSUME NEW m \in VNode
      PROVE  /\ c[m] >= vclock[n][m] /\ \A r \in read : c[m] >= versions[r].vc[m]
             /\ m # n => c[m] = vclock[n][m] \/ \E r \in read : c[m] = versions[r].vc[m]
  <2>1. c[m] \in Nat /\ own[m] \in Nat /\ all[m] \in Nat /\ vclock[n][m] \in Nat
        /\ \A r \in read : versions[r].vc[m] \in Nat
    BY <1>1, <1>2, <1>5, <1>7
  <2>2. c[m] >= vclock[n][m]
    BY <1>2, <1>5, <2>1
  <2>3. \A r \in read : c[m] >= versions[r].vc[m]
    BY <1>5, <1>7, <2>1
  <2>4. ASSUME m # n PROVE c[m] = vclock[n][m] \/ \E r \in read : c[m] = versions[r].vc[m]
    <3>1. own[m] = vclock[n][m]
      BY <1>2, <2>4
    <3>2. CASE c[m] = own[m]
      BY <3>1, <3>2
    <3>3. CASE c[m] = all[m] /\ all[m] = 0
      BY <2>1, <2>2, <3>3
    <3>4. CASE c[m] = all[m] /\ \E r \in read : all[m] = versions[r].vc[m]
      BY <3>4
    <3> QED
      BY <1>5, <1>7, <3>2, <3>3, <3>4
  <2> QED
    BY <2>2, <2>3, <2>4
<1>9. c[n] = vclock[n][n] + 1
  <2>1. /\ c[n] \in Nat /\ own[n] \in Nat /\ all[n] \in Nat /\ vclock[n][n] \in Nat
        /\ \A r \in read : versions[r].vc[n] \in Nat /\ versions[r].vc[n] <= vclock[n][n]
    BY <1>0, <1>1, <1>2, <1>5, <1>7 DEF VS!OwnEntryLeads
  <2>2. all[n] <= vclock[n][n]
    BY <1>7, <2>1
  <2> QED
    BY <1>2, <1>5, <2>1, <2>2
<1>10. VS!Surviving(siblings[n][k], c) = {}
  <2> SUFFICES ASSUME NEW v \in siblings[n][k] PROVE VS!Dominates(c, versions[v].vc)
    BY DEF VS!Surviving
  <2>1. v \in reached[n] /\ v \in DOMAIN versions
    BY <1>1 DEF VS!VersionInv, VS!Latest
  <2>2. VS!Dominates(vclock[n], versions[v].vc)
    BY <1>0, <2>1 DEF VS!ClocksCover, VS!Known, VS!KnownFrom
  <2>3. \A m \in VNode : c[m] \in Nat /\ vclock[n][m] \in Nat /\ versions[v].vc[m] \in Nat
    BY <1>1, <1>5, <2>1
  <2> QED
    BY <1>8, <2>2, <2>3 DEF VS!Dominates
<1>11. /\ VS!Write(n, k, c, read)
       /\ vclock' = [vclock EXCEPT ![n] = c]
       /\ siblings' = [siblings EXCEPT ![n] = [siblings[n] EXCEPT ![k] = {Len(versions) + 1}]]
  <2>1. /\ VS!Write(n, k, c, read) /\ vclock' = [vclock EXCEPT ![n] = VS!Merged(own, c)]
        /\ siblings' = [siblings EXCEPT ![n][k] = VS!Surviving(@, c) \cup {Len(versions) + 1}]
    BY DEF VS!Put, own, c
  <2> QED
    BY <1>1, <1>6, <1>10, <2>1
<1>12. NextClock(c, n, read)
  BY <1>5, <1>8, <1>9 DEF NextClock
<1>13. PICK d : d = c
  OBVIOUS
<1> QED
  BY <1>11, <1>12, <1>13, WriteKeeps

LEMMA ReconcileKeepsVersions ==
  ASSUME VS!VersionInv, NEW n \in VNode, NEW k \in VKey, NEW read \in SUBSET DOMAIN versions,
         VS!Reconcile(n, k, read)
  PROVE  VS!VersionInv'
<1> DEFINE all == VS!MergedAll({versions[v].vc : v \in read})
           met == VS!Merged(all, vclock[n])
           c == VS!ReconcileClock(vclock[n], read, n)
<1>0. VS!VersionTypes /\ VS!OwnEntryLeads
  BY DEF VS!VersionInv
<1>1. /\ \A v \in DOMAIN versions : versions[v].vc \in [VNode -> Nat]
      /\ vclock \in [VNode -> [VNode -> Nat]] /\ vclock[n] \in [VNode -> Nat]
      /\ siblings \in [VNode -> [VKey -> SUBSET Nat]]
  BY <1>0, VersionFacts DEF VS!VersionTypes
<1>2. all \in [VNode -> Nat]
  BY <1>0, MergedAllIs DEF VS!MergedAll
<1>3. \A m \in VNode : /\ all[m] \in Nat
                       /\ \A r \in read : all[m] >= versions[r].vc[m]
                       /\ all[m] = 0 \/ \E r \in read : all[m] = versions[r].vc[m]
  BY <1>0, MergedAllIs
<1>4. c = [met EXCEPT ![n] = @ + 1]
  BY DEF VS!ReconcileClock, VS!Increment
<1> HIDE DEF all, c
<1>5. /\ met \in [VNode -> Nat]
      /\ \A m \in VNode : /\ met[m] >= all[m] /\ met[m] >= vclock[n][m]
                          /\ met[m] = all[m] \/ met[m] = vclock[n][m]
  BY <1>1, <1>2, MergedIs
<1> HIDE DEF met
<1>6. c \in [VNode -> Nat] /\ c[n] = met[n] + 1 /\ \A m \in VNode : m # n => c[m] = met[m]
  BY <1>4, <1>5
<1>7. met[n] = vclock[n][n]
  <2>1. /\ met[n] \in Nat /\ all[n] \in Nat /\ vclock[n][n] \in Nat
        /\ \A r \in read : versions[r].vc[n] \in Nat /\ versions[r].vc[n] <= vclock[n][n]
    BY <1>0, <1>1, <1>3, <1>5 DEF VS!OwnEntryLeads
  <2>2. all[n] <= vclock[n][n]
    BY <1>3, <2>1
  <2> QED
    BY <1>5, <2>1, <2>2
<1>8. ASSUME NEW m \in VNode
      PROVE  /\ c[m] >= vclock[n][m] /\ \A r \in read : c[m] >= versions[r].vc[m]
             /\ m # n => c[m] = vclock[n][m] \/ \E r \in read : c[m] = versions[r].vc[m]
  <2>1. c[m] \in Nat /\ met[m] \in Nat /\ all[m] \in Nat /\ vclock[n][m] \in Nat
        /\ \A r \in read : versions[r].vc[m] \in Nat
    BY <1>1, <1>3, <1>5, <1>6
  <2>2. c[m] >= met[m]
    BY <1>6, <2>1
  <2>3. c[m] >= vclock[n][m]
    BY <1>5, <2>1, <2>2
  <2>4. \A r \in read : c[m] >= versions[r].vc[m]
    BY <1>3, <1>5, <2>1, <2>2
  <2>5. ASSUME m # n PROVE c[m] = vclock[n][m] \/ \E r \in read : c[m] = versions[r].vc[m]
    <3>1. c[m] = met[m]
      BY <1>6, <2>5
    <3>2. CASE met[m] = vclock[n][m]
      BY <3>1, <3>2
    <3>3. CASE met[m] = all[m] /\ all[m] = 0
      BY <2>1, <2>3, <3>1, <3>3
    <3>4. CASE met[m] = all[m] /\ \E r \in read : all[m] = versions[r].vc[m]
      BY <3>1, <3>4
    <3> QED
      BY <1>3, <1>5, <3>2, <3>3, <3>4
  <2> QED
    BY <2>3, <2>4, <2>5
<1>9. VS!Merged(vclock[n], c) = c
  <2>1. \A m \in VNode : vclock[n][m] <= c[m]
    BY <1>1, <1>6, <1>8
  <2> QED
    BY <1>1, <1>6, <2>1, MergedBelow
<1>10. /\ VS!Write(n, k, c, read)
       /\ vclock' = [vclock EXCEPT ![n] = c]
       /\ siblings' = [siblings EXCEPT ![n] = [siblings[n] EXCEPT ![k] = {Len(versions) + 1}]]
  <2>1. /\ VS!Write(n, k, c, read) /\ vclock' = [vclock EXCEPT ![n] = VS!Merged(@, c)]
        /\ siblings' = [siblings EXCEPT ![n][k] = {Len(versions) + 1}]
    BY DEF VS!Reconcile, c
  <2> QED
    BY <1>1, <1>9, <2>1
<1>11. NextClock(c, n, read)
  BY <1>6, <1>7, <1>8 DEF NextClock
<1>12. PICK d : d = c
  OBVIOUS
<1> QED
  BY <1>10, <1>11, <1>12, WriteKeeps

(* A version that was received is one of the latest unless a version of the *)
(* key that is here follows it, and then one of the siblings does.          *)
LatestAfter(n, v, k, mine) ==
  LET kept == VS!Surviving(siblings[n][k], versions[v].vc)
  IN  (IF VS!Unseen(v, kept) THEN kept \cup {v} ELSE kept) =
      (mine \cup {v}) \ UNION {versions[w].past : w \in mine \cup {v}}

LEMMA ReceivedIsLatest ==
  ASSUME VS!VersionInv, NEW n \in VNode, NEW v \in DOMAIN versions,
         NEW k, k = versions[v].key,
         NEW mine, mine = {u \in reached[n] : versions[u].key = k}
  PROVE  LatestAfter(n, v, k, mine)
<1> SUFFICES LET kept == VS!Surviving(siblings[n][k], versions[v].vc)
             IN  (IF VS!Unseen(v, kept) THEN kept \cup {v} ELSE kept) =
                 (mine \cup {v}) \ UNION {versions[w].past : w \in mine \cup {v}}
  BY DEF LatestAfter
<1> DEFINE kept == VS!Surviving(siblings[n][k], versions[v].vc)
           pasts == UNION {versions[w].past : w \in mine}
<1>0. VS!VersionTypes
  BY DEF VS!VersionInv
<1>1. mine \subseteq DOMAIN versions /\ k \in VKey /\ v \in Nat
  BY <1>0, VersionFacts DEF VS!VersionTypes
<1>2. siblings[n][k] = mine \ pasts
  BY <1>1 DEF VS!VersionInv, VS!Latest
<1>3. kept = (mine \ pasts) \ VS!Follows(v)
  BY <1>1, <1>2, DominatesIsFollows DEF VS!Surviving
<1>4. kept \subseteq mine /\ v \notin kept
  BY <1>3 DEF VS!Follows
<1>5. VS!Unseen(v, kept) <=> ~\E w \in kept : v \in versions[w].past
  <2>1. \A w \in kept : VS!Dominates(versions[w].vc, versions[v].vc) <=> v \in versions[w].past
    <3>1. \A w \in kept : w \in DOMAIN versions /\ w # v
      BY <1>1, <1>4
    <3> HIDE DEF kept
    <3> QED
      BY <3>1, DominatesIsFollows DEF VS!Follows
  <2> HIDE DEF kept
  <2> QED
    BY <2>1 DEF VS!Unseen
<1>6. v \notin versions[v].past
  BY PastBelow
<1> HIDE DEF kept
<1>7. v \in pasts <=> \E w \in kept : v \in versions[w].past
  <2>1. ASSUME NEW x \in mine, v \in versions[x].past PROVE \E w \in kept : v \in versions[w].past
    <3> DEFINE T == {w \in mine : v \in versions[w].past}
    <3>1. T # {} /\ T \in SUBSET Nat /\ T \in SUBSET Int /\ T \subseteq DOMAIN versions
      BY <1>0, <1>1, <2>1, VersionFacts
    <3>2. IsFiniteSet(T)
      BY <1>0, <3>1, VersionFacts, FS_Subset
    <3>3. PICK w \in T : \A u \in T : u =< w
      <4> HIDE DEF T
      <4> QED
        BY <3>1, <3>2, GreatestElement
    <3>4. w \in mine /\ v \in versions[w].past /\ w \in DOMAIN versions
      BY <1>1
    <3>5. w \notin pasts
      <4> SUFFICES ASSUME NEW u \in mine, w \in versions[u].past PROVE FALSE
        OBVIOUS
      <4>1. u \in DOMAIN versions
        BY <1>1
      <4>2. versions[w].past \subseteq versions[u].past /\ w < u /\ u \in Nat /\ w \in Nat
        BY <4>1, PastBelow
      <4>3. u \in T
        BY <3>4, <4>2
      <4> QED
        BY <3>3, <4>2, <4>3
    <3>6. w # v /\ w \notin versions[v].past
      BY <3>4, PastBelow
    <3> QED
      BY <1>3, <3>4, <3>5, <3>6 DEF VS!Follows
  <2> QED
    BY <1>4, <2>1
<1>8. UNION {versions[w].past : w \in mine \cup {v}} = pasts \cup versions[v].past
  OBVIOUS
<1> HIDE DEF pasts
<1>9. CASE v \in pasts
  <2>1. (mine \cup {v}) \ (pasts \cup versions[v].past) = kept
    BY <1>3, <1>9 DEF VS!Follows
  <2> QED
    BY <1>5, <1>7, <1>8, <1>9, <2>1 DEF kept
<1>10. CASE v \notin pasts
  <2>1. (mine \cup {v}) \ (pasts \cup versions[v].past) = kept \cup {v}
    BY <1>3, <1>6, <1>10 DEF VS!Follows
  <2> QED
    BY <1>5, <1>7, <1>8, <1>10, <2>1 DEF kept
<1> QED
  BY <1>9, <1>10

LEMMA ReceiveKeepsVersions ==
  ASSUME VS!VersionInv, NEW n \in VNode, NEW v \in DOMAIN versions, VS!ReceiveReplica(n, v)
  PROVE  VS!VersionInv'
<1> DEFINE d == VS!Merged(vclock[n], versions[v].vc)
           k == versions[v].key
           kept == VS!Surviving(siblings[n][k], versions[v].vc)
           new == IF VS!Unseen(v, kept) THEN kept \cup {v} ELSE kept
<1>0. VS!VersionTypes /\ VS!PastsNest /\ VS!OwnEntryLeads /\ VS!ClocksCover
  BY DEF VS!VersionInv
<1>1. /\ DOMAIN versions \subseteq Nat
      /\ \A u \in DOMAIN versions : versions[u].vc \in [VNode -> Nat] /\ versions[u].key \in VKey
      /\ reached \in [VNode -> SUBSET DOMAIN versions] /\ vclock \in [VNode -> [VNode -> Nat]]
      /\ siblings \in [VNode -> [VKey -> SUBSET Nat]]
  BY <1>0, VersionFacts DEF VS!VersionTypes
<1>2. /\ versions' = versions
      /\ vclock' = [vclock EXCEPT ![n] = d]
      /\ reached' = [reached EXCEPT ![n] = @ \cup {v}]
      /\ siblings' = [siblings EXCEPT ![n] = [siblings[n] EXCEPT ![k] = new]]
  BY <1>1 DEF VS!ReceiveReplica
<1>3. /\ d \in [VNode -> Nat]
      /\ \A m \in VNode : /\ d[m] >= vclock[n][m] /\ d[m] >= versions[v].vc[m]
                          /\ d[m] = vclock[n][m] \/ d[m] = versions[v].vc[m]
  <2>1. vclock[n] \in [VNode -> Nat] /\ versions[v].vc \in [VNode -> Nat]
    BY <1>1
  <2> QED
    BY <2>1, MergedIs
<1>4. new = LET mine == {u \in reached[n] : versions[u].key = k}
            IN  (mine \cup {v}) \ UNION {versions[w].past : w \in mine \cup {v}}
  <2>1. PICK k1 : k1 = k /\ k1 = versions[v].key
    OBVIOUS
  <2>2. PICK mine : mine = {u \in reached[n] : versions[u].key = k1}
    OBVIOUS
  <2> HIDE DEF d, k, kept, new
  <2>3. LatestAfter(n, v, k1, mine)
    BY <2>1, <2>2, ReceivedIsLatest
  <2>4. new = (mine \cup {v}) \ UNION {versions[w].past : w \in mine \cup {v}}
    BY <2>1, <2>3 DEF LatestAfter, kept, new
  <2> QED
    BY <2>1, <2>2, <2>4
<1> HIDE DEF d, kept, new
<1>5. /\ \A j \in VNode : j # n => VS!Known(j)' = VS!Known(j)
      /\ VS!Known(n)' = VS!Known(n) \cup VS!Follows(v)
      /\ \A u : VS!Follows(u)' = VS!Follows(u)
  BY <1>1, <1>2 DEF VS!Known, VS!KnownFrom, VS!Follows
<1>6. VS!VersionTypes' /\ VS!PastsNest'
  <2>1. new \in SUBSET Nat
    BY <1>1, <1>4
  <2>2. [siblings[n] EXCEPT ![k] = new] \in [VKey -> SUBSET Nat]
    BY <1>1, <2>1
  <2>3. siblings' \in [VNode -> [VKey -> SUBSET Nat]]
    BY <1>1, <1>2, <2>2
  <2>4. reached' \in [VNode -> SUBSET DOMAIN versions'] /\ vclock' \in [VNode -> [VNode -> Nat]]
    BY <1>1, <1>2, <1>3
  <2>5. VS!PastsNest'
    BY <1>0, <1>2 DEF VS!PastsNest
  <2> QED
    BY <1>0, <1>2, <2>3, <2>4, <2>5 DEF VS!VersionTypes, VS!Version
<1>7. VS!OwnEntryLeads'
  <2> SUFFICES ASSUME NEW m \in VNode
               PROVE  /\ \A u \in DOMAIN versions : versions[u].vc[m] <= vclock'[m][m]
                      /\ \A j \in VNode : vclock'[j][m] <= vclock'[m][m]
    BY <1>2 DEF VS!OwnEntryLeads
  <2>1. /\ \A u \in DOMAIN versions : versions[u].vc[m] <= vclock[m][m]
        /\ \A j \in VNode : vclock[j][m] <= vclock[m][m] /\ vclock[j][m] \in Nat
        /\ d[m] \in Nat /\ d[m] <= vclock[m][m]
    BY <1>0, <1>1, <1>3 DEF VS!OwnEntryLeads
  <2>2. vclock'[m][m] = vclock[m][m]
    <3>1. CASE m = n
      <4>1. vclock'[n][n] = d[n]
        BY <1>1, <1>2
      <4>2. d[n] >= vclock[n][n] /\ d[n] <= vclock[n][n]
        BY <1>3, <2>1, <3>1
      <4> QED
        BY <2>1, <3>1, <4>1, <4>2
    <3>2. CASE m # n
      BY <1>1, <1>2, <3>2
    <3> QED
      BY <3>1, <3>2
  <2>3. ASSUME NEW j \in VNode PROVE vclock'[j][m] <= vclock[m][m]
    <3>1. CASE j = n
      BY <1>1, <1>2, <2>1, <3>1
    <3>2. CASE j # n
      BY <1>1, <1>2, <2>1, <3>2
    <3> QED
      BY <3>1, <3>2
  <2> QED
    BY <2>1, <2>2, <2>3
<1>8. VS!ClocksCover'
  <2>1. ASSUME NEW j \in VNode, NEW w \in VS!Known(j)' PROVE VS!Dominates(vclock'[j], versions[w].vc)
    <3>1. CASE j # n
      BY <1>0, <1>1, <1>2, <1>5, <3>1 DEF VS!ClocksCover
    <3>2. CASE j = n
      <4>1. vclock'[j] = d
        BY <1>1, <1>2, <3>2
      <4> SUFFICES ASSUME NEW m \in VNode PROVE d[m] >= versions[w].vc[m]
        BY <4>1 DEF VS!Dominates
      <4>2. w \in DOMAIN versions
        <5>1. VS!Known(n) \subseteq DOMAIN versions
          BY <1>1, KnownFacts DEF VS!Known
        <5>2. VS!Follows(v) \subseteq DOMAIN versions
          BY PastBelow DEF VS!Follows
        <5> QED
          BY <1>5, <3>2, <5>1, <5>2
      <4>3. /\ versions[w].vc[m] \in Nat /\ versions[v].vc[m] \in Nat
            /\ vclock[n][m] \in Nat /\ d[m] \in Nat
        BY <1>1, <1>3, <4>2
      <4>4. vclock[n][m] >= versions[w].vc[m] \/ versions[v].vc[m] >= versions[w].vc[m]
        <5>1. CASE w \in VS!Known(n)
          BY <1>0, <5>1 DEF VS!ClocksCover, VS!Dominates
        <5>2. CASE w \in VS!Follows(v)
          BY <4>2, <5>2, DominatesIsFollows DEF VS!Dominates
        <5> QED
          BY <1>5, <3>2, <5>1, <5>2
      <4> QED
        BY <1>3, <4>3, <4>4
    <3> QED
      BY <3>1, <3>2
  <2>2. VS!ClocksCover' <=>
          /\ \A u \in DOMAIN versions' : \A w \in versions'[u].past :
                VS!Dominates(versions'[u].vc, versions'[w].vc)
          /\ \A j \in VNode : \A w \in VS!Known(j)' : VS!Dominates(vclock'[j], versions'[w].vc)
    BY DEF VS!ClocksCover, VS!Dominates
  <2> QED
    BY <1>0, <1>2, <2>1, <2>2 DEF VS!ClocksCover
<1>9. ASSUME NEW w \in DOMAIN versions PROVE \E m \in VNode : VS!Marks(m, w)'
  <2>1. PICK m \in VNode : VS!Marks(m, w)
    BY DEF VS!VersionInv
  <2>2. ASSUME NEW j \in VNode, vclock'[j][m] >= versions[w].vc[m] PROVE w \in VS!Known(j)'
    <3>1. CASE j # n
      BY <1>1, <1>2, <1>5, <2>1, <2>2, <3>1 DEF VS!Marks
    <3>2. CASE j = n
      <4>1. d[m] >= versions[w].vc[m]
        BY <1>1, <1>2, <2>2, <3>2
      <4>2. vclock[n][m] >= versions[w].vc[m] \/ versions[v].vc[m] >= versions[w].vc[m]
        BY <1>3, <4>1
      <4> QED
        BY <1>5, <2>1, <3>2, <4>2 DEF VS!Marks
    <3> QED
      BY <3>1, <3>2
  <2> QED
    BY <1>2, <1>5, <2>1, <2>2 DEF VS!Marks
<1>10. ASSUME NEW j \in VNode, NEW l \in VKey PROVE siblings'[j][l] = VS!Latest(j, l)'
  <2> DEFINE mine == {u \in reached[j] : versions[u].key = l}
             mine1 == {u \in reached'[j] : versions[u].key = l}
  <2>0. /\ VS!Latest(j, l) = mine \ UNION {versions[w].past : w \in mine}
        /\ VS!Latest(j, l)' = mine1 \ UNION {versions[w].past : w \in mine1}
    BY <1>2 DEF VS!Latest
  <2>1. CASE j # n \/ l # k
    <3>1. siblings'[j][l] = siblings[j][l] /\ siblings[j][l] = VS!Latest(j, l)
      BY <1>1, <1>2, <2>1 DEF VS!VersionInv
    <3>2. mine1 = mine
      BY <1>1, <1>2, <2>1
    <3> QED
      BY <2>0, <3>1, <3>2
  <2>2. CASE j = n /\ l = k
    <3>1. siblings'[j][l] = new
      BY <1>1, <1>2, <2>2
    <3>2. mine1 = mine \cup {v}
      BY <1>1, <1>2, <2>2
    <3> QED
      BY <1>4, <2>0, <2>2, <3>1, <3>2
  <2> QED
    BY <2>1, <2>2
<1> QED
  BY <1>2, <1>6, <1>7, <1>8, <1>9, <1>10 DEF VS!VersionInv

LEMMA VersionsStart ==
  ASSUME VS!VersionInit
  PROVE  VS!VersionInv
<1>1. /\ vclock = [n \in VNode |-> VS!Zero] /\ siblings = [n \in VNode |-> [k \in VKey |-> {}]]
      /\ versions = <<>> /\ reached = [n \in VNode |-> {}] /\ DOMAIN versions = {}
  BY DEF VS!VersionInit
<1>2. VS!Zero \in [VNode -> Nat] /\ \A n, m \in VNode : vclock[n][m] = 0
  BY <1>1 DEF VS!Zero
<1>3. VS!VersionTypes
  BY <1>1, <1>2 DEF VS!VersionTypes
<1>4. VS!PastsNest /\ VS!OwnEntryLeads
  BY <1>1, <1>2 DEF VS!PastsNest, VS!OwnEntryLeads
<1>5. VS!ClocksCover
  BY <1>1 DEF VS!ClocksCover, VS!Known, VS!KnownFrom
<1>6. \A n \in VNode, k \in VKey : siblings[n][k] = VS!Latest(n, k)
  BY <1>1 DEF VS!Latest
<1> QED
  BY <1>1, <1>3, <1>4, <1>5, <1>6 DEF VS!VersionInv

LEMMA VersionStep ==
  ASSUME VS!VersionInv, VS!VersionNext
  PROVE  VS!VersionInv'
<1>1. PICK n \in VNode :
         \/ \E k \in VKey, read \in SUBSET DOMAIN versions : VS!Put(n, k, read) \/ VS!Reconcile(n, k, read)
         \/ \E v \in DOMAIN versions : VS!ReceiveReplica(n, v)
  BY DEF VS!VersionNext
<1>2. ASSUME NEW k \in VKey, NEW read \in SUBSET DOMAIN versions, VS!Put(n, k, read)
      PROVE  VS!VersionInv'
  BY <1>2, PutKeepsVersions
<1>3. ASSUME NEW k \in VKey, NEW read \in SUBSET DOMAIN versions, VS!Reconcile(n, k, read)
      PROVE  VS!VersionInv'
  BY <1>3, ReconcileKeepsVersions
<1>4. ASSUME NEW v \in DOMAIN versions, VS!ReceiveReplica(n, v) PROVE VS!VersionInv'
  BY <1>4, ReceiveKeepsVersions
<1> QED
  BY <1>1, <1>2, <1>3, <1>4

-----------------------------------------------------------------------------
FollowInv ==
  /\ cluster = "followers" => LF!FollowerInv
  /\ cluster = "versions" => VS!VersionInv

LEMMA FollowStep ==
  ASSUME FollowInv, [ReplicationNext]_replicationVars
  PROVE  FollowInv'
<1>1. CASE cluster = "followers" /\ LF!FollowerNext /\ UNCHANGED cluster
  BY <1>1, FollowerStep DEF FollowInv
<1>2. CASE cluster = "versions" /\ VS!VersionNext /\ UNCHANGED cluster
  BY <1>2, VersionStep DEF FollowInv
<1>3. CASE cluster \notin {"followers", "versions"} /\ UNCHANGED cluster
  BY <1>3 DEF FollowInv
<1>4. CASE UNCHANGED <<cluster, followerVars, versionVars>>
  <2>1. LF!FollowerInv => LF!FollowerInv'
    BY <1>4 DEF followerVars, LF!FollowerInv, LF!FollowerTypes, LF!LogLeadsHere,
                LF!FollowersShowPast, LF!LogEntries, LF!Lsn, LF!Takes, LF!LEntry, LF!LValues
  <2>2. ASSUME VS!VersionInv PROVE VS!VersionInv'
    <3>1. UNCHANGED <<vclock, siblings, versions, reached>>
      BY <1>4 DEF versionVars
    <3>2. VS!VersionTypes' /\ VS!PastsNest' /\ VS!OwnEntryLeads'
      BY <2>2, <3>1 DEF VS!VersionInv, VS!VersionTypes, VS!PastsNest, VS!OwnEntryLeads, VS!Version
    <3>3. VS!ClocksCover'
      BY <2>2, <3>1 DEF VS!VersionInv, VS!ClocksCover, VS!Known, VS!KnownFrom, VS!Dominates
    <3>4. \A m, w : VS!Marks(m, w)' <=> VS!Marks(m, w)
      BY <3>1 DEF VS!Marks, VS!Known, VS!KnownFrom, VS!Follows
    <3>5. \A n, k : VS!Latest(n, k)' = VS!Latest(n, k)
      BY <3>1 DEF VS!Latest
    <3> QED
      BY <2>2, <3>1, <3>2, <3>3, <3>4, <3>5 DEF VS!VersionInv
  <2> QED
    BY <1>4, <2>1, <2>2 DEF FollowInv
<1> QED
  BY <1>1, <1>2, <1>3, <1>4 DEF ReplicationNext, replicationVars

(* replication.py: a follower that the leader's log reaches shows what the     *)
(* leader had after the follower's last entry, and has every entry when it is  *)
(* online; vector_clock.py: compare tells exactly which version was written    *)
(* knowing of which, and a store keeps exactly the latest of those it got.     *)
THEOREM FollowersFollow == ReplicationSpec => []ReplicasFollow
<1>1. ReplicationInit => FollowInv
  BY FollowersStart, VersionsStart DEF ReplicationInit, FollowInv
<1>2. FollowInv /\ [ReplicationNext]_replicationVars => FollowInv'
  BY FollowStep
<1>3. FollowInv => ReplicasFollow
  BY ClocksCausal, ConflictsFound DEF FollowInv, ReplicasFollow, LF!FollowerInv
<1> QED
  BY <1>1, <1>2, <1>3, PTL DEF ReplicationSpec
=============================================================================
