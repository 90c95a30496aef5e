--------------------------- MODULE IsolationProofs ---------------------------
(***************************************************************************)
(* Serializability, stable snapshots and kept constraints of SSIDatabase   *)
(* for any keys, values, predicates, constraints and number of             *)
(* transactions, in both modes.  First committer wins, stable reads and    *)
(* the reads of new transactions of MVCCDatabase for any keys, values and  *)
(* number of transactions, with the collector.                             *)
(***************************************************************************)
EXTENDS MCIsolation, Sequences, NumberLemmas, FiniteSetTheorems, SequenceTheorems, TLAPS

LEMMA BufferType ==
  ASSUME NEW b \in Buffer, NEW k \in Key, NEW v \in Value \cup {Absent}
  PROVE  [j \in DOMAIN b \cup {k} |-> IF j = k THEN v ELSE b[j]] \in Buffer
<1>1. PICK K \in SUBSET Key : b \in [K -> Value \cup {Absent}]
  BY DEF Buffer
<1>2. [j \in DOMAIN b \cup {k} |-> IF j = k THEN v ELSE b[j]]
        \in [K \cup {k} -> Value \cup {Absent}]
  BY <1>1
<1>3. K \cup {k} \in SUBSET Key
  OBVIOUS
<1> QED
  BY <1>2, <1>3 DEF Buffer

LEMMA BufferDomain ==
  ASSUME NEW b \in Buffer
  PROVE  /\ DOMAIN b \in SUBSET Key
         /\ \A k \in DOMAIN b : b[k] \in Value \cup {Absent}
BY DEF Buffer

\* _visible_value finds a newest version whenever there is one
LEMMA NewestExists ==
  ASSUME NEW V \in SUBSET Version, V # {}, NEW n \in Nat, \A v \in V : v.ts =< n
  PROVE  Newest(V) \in V
<1> DEFINE Stamps == {v.ts : v \in V}
<1>1. \A v \in V : v.ts \in Nat
  BY DEF Version
<1>2. Stamps \in SUBSET Nat /\ Stamps # {} /\ \A i \in Stamps : i =< n
  BY <1>1
<1>3. \E i \in Stamps : \A j \in Stamps : j =< i
  <2> HIDE DEF Stamps
  <2> QED
    BY <1>2, GreatestNatural
<1>4. \E v \in V : \A w \in V : w.ts =< v.ts
  BY <1>3
<1> QED
  BY <1>4 DEF Newest

LEMMA WriterType ==
  ASSUME TypeOK, NEW k \in Key, NEW ts \in Nat
  PROVE  /\ Writer(k, ts) \subseteq {v.tx : v \in UpTo(store[k], ts)}
         /\ Writer(k, ts) \subseteq Tx
         /\ Visible(k, ts) \in Value \cup {Absent}
<1>1. UpTo(store[k], ts) \in SUBSET Version /\ \A v \in UpTo(store[k], ts) : v.ts =< ts
  BY DEF TypeOK, UpTo
<1>2. UpTo(store[k], ts) # {} => Newest(UpTo(store[k], ts)) \in UpTo(store[k], ts)
  BY <1>1, NewestExists
<1> QED
  BY <1>1, <1>2 DEF Writer, Visible, ValueAt, Version

\* A predicate's result is made of the pairs of the snapshot that it accepts
LEMMA MatchingPairs ==
  ASSUME NEW s, NEW P \in Predicate
  PROVE  /\ Matching(s, P) \in SUBSET (Key \X Value)
         /\ \A k \in Key, v \in Value :
              <<k, v>> \in Matching(s, P) <=> (<<k, v>> \in P /\ s[k] = v)
BY PredicateAssumption DEF Matching

LEMMA TypeInit == Init => TypeOK
<1>1. EmptyBuffer \in Buffer
  <2>1. EmptyBuffer \in [{} -> Value \cup {Absent}]
    BY DEF EmptyBuffer
  <2> QED
    BY <2>1 DEF Buffer
<1> QED
  BY <1>1 DEF Init, TypeOK

LEMMA TypeStep == TypeOK /\ [Next]_vars => TypeOK'
<1> SUFFICES ASSUME TypeOK, [Next]_vars PROVE TypeOK'
  OBVIOUS
<1>1. ASSUME NEW t \in Tx, Begin(t) PROVE TypeOK'
  BY <1>1 DEF Begin, TypeOK, dbVars
<1>2. ASSUME NEW t \in Tx, NEW k \in Key, Read(t, k) PROVE TypeOK'
  <2>1. Writer(k, start[t]) \subseteq Tx
    BY WriterType DEF TypeOK
  <2>2. status' \in [Tx -> {"new", "active", "committed", "aborted"}]
    BY <1>2 DEF Read, StatusAfterRead, TypeOK
  <2>3. readSet' \in [Tx -> SUBSET Key] /\ deps' \in [Tx -> SUBSET Tx]
    BY <1>2, <2>1 DEF Read, TypeOK
  <2> QED
    BY <1>2, <2>2, <2>3 DEF Read, TypeOK, dbVars
<1>3. ASSUME NEW t \in Tx, NEW P \in Predicate, ReadPredicate(t, P) PROVE TypeOK'
  <2> DEFINE snap == Snapshot(start[t])
             result == Matching(Overlay(snap, buffer[t]), P)
             keys == {m[1] : m \in result}
  <2>1. result \in SUBSET (Key \X Value)
    BY MatchingPairs
  <2>2. keys \in SUBSET Key
    BY <2>1
  <2>3. UNION {Writer(k, start[t]) : k \in {j \in keys : snap[j] # Absent}} \subseteq Tx
    <3>1. \A k \in Key : Writer(k, start[t]) \subseteq Tx
      BY WriterType DEF TypeOK
    <3> HIDE DEF keys, snap
    <3> QED
      BY <2>2, <3>1
  <2>4. status' \in [Tx -> {"new", "active", "committed", "aborted"}]
    BY <1>3 DEF ReadPredicate, StatusAfterRead, TypeOK
  <2>5. readSet' \in [Tx -> SUBSET Key] /\ deps' \in [Tx -> SUBSET Tx]
    BY <1>3, <2>2, <2>3 DEF ReadPredicate, TypeOK
  <2>6. predLocks' \in [Tx -> SUBSET (Predicate \X SUBSET (Key \X Value))]
    BY <1>3, <2>1 DEF ReadPredicate, TypeOK
  <2> QED
    BY <1>3, <2>4, <2>5, <2>6 DEF ReadPredicate, TypeOK, dbVars
<1>4. ASSUME NEW t \in Tx, NEW k \in Key, NEW v \in Value \cup {Absent}, Write(t, k, v)
      PROVE  TypeOK'
  <2>1. buffer[t] \in Buffer
    BY DEF TypeOK
  <2>2. buffer' \in [Tx -> Buffer]
    BY <1>4, <2>1, BufferType DEF Write, TypeOK
  <2> QED
    BY <1>4, <2>2 DEF Write, TypeOK, dbVars
<1>5. ASSUME NEW t \in Tx, CommitSucceeds(t) PROVE TypeOK'
  <2>1. \A k \in DOMAIN buffer[t] : buffer[t][k] \in Value \cup {Absent}
    BY BufferDomain DEF TypeOK
  <2>2. store' \in [Key -> SUBSET Version]
    <3> SUFFICES ASSUME NEW k \in Key, NEW v \in store'[k] PROVE v \in Version
      BY <1>5 DEF CommitSucceeds
    <3>1. v \in store[k] \/ (k \in DOMAIN buffer[t]
                              /\ v = [ts |-> clock, value |-> buffer[t][k], tx |-> t])
      BY <1>5 DEF CommitSucceeds, InstallTs
    <3> QED
      BY <2>1, <3>1 DEF TypeOK, Version
  <2> QED
    BY <1>5, <2>2 DEF CommitSucceeds, TypeOK
<1>6. ASSUME NEW t \in Tx, CommitFails(t) PROVE TypeOK'
  BY <1>6 DEF CommitFails, TypeOK, dbVars, txVars
<1>7. ASSUME NEW t \in Tx, Abort(t) PROVE TypeOK'
  BY <1>7 DEF Abort, TypeOK, dbVars, txVars
<1>8. ASSUME NEW C \in Constraint, AddConstraint(C) PROVE TypeOK'
  BY <1>8 DEF AddConstraint, TypeOK, txVars
<1>9. CASE UNCHANGED vars
  BY <1>9 DEF vars, dbVars, txVars, TypeOK
<1> QED
  BY <1>1, <1>2, <1>3, <1>4, <1>5, <1>6, <1>7, <1>8, <1>9 DEF Next

\* Every reachable state of the database and its transactions is well typed.
THEOREM TypeCorrect == Spec => []TypeOK
<1>1. Init => TypeOK
  BY TypeInit
<1>2. TypeOK /\ [Next]_vars => TypeOK'
  BY TypeStep
<1> QED
  BY <1>1, <1>2, PTL DEF Spec
-----------------------------------------------------------------------------
(* Reads of the past do not depend on versions added later.                *)

LEMMA SameValue ==
  ASSUME NEW V, NEW W, NEW a, NEW b, UpTo(V, a) = UpTo(W, b)
  PROVE  ValueAt(V, a) = ValueAt(W, b)
BY DEF ValueAt

LEMMA SerialInit == Init => SerialInv
BY DEF Init, SerialInv, VersionsAreCommitted, StampsPassed, NoVersionBetween,
       ResultsFromSnapshot, PredicatesHold

\* What a successful commit does to the store
LEMMA CommitEffect ==
  ASSUME TypeOK, SerialInv, NEW t \in Tx, CommitSucceeds(t)
  PROVE  /\ \A k \in Key : \A v \in store'[k] :
              v \in store[k] \/ (v.ts = clock /\ v.tx = t /\ k \in DOMAIN buffer[t])
         /\ \A k \in Key, ts \in Nat : ts < clock =>
              ValueAt(store'[k], ts) = ValueAt(store[k], ts)
         /\ \A k \in Key : ValueAt(store'[k], clock - 1) = ValueAt(store[k], clock)
<1>1. \A k \in Key : /\ store[k] \subseteq store'[k]
                     /\ \A v \in store'[k] :
                          v \in store[k] \/ (v.ts = clock /\ v.tx = t /\ k \in DOMAIN buffer[t])
  BY DEF CommitSucceeds, InstallTs, TypeOK
<1>2. \A k \in Key : \A v \in store[k] : v.ts \in Nat /\ v.ts < clock
  BY DEF TypeOK, Version, SerialInv, VersionsAreCommitted, StampsPassed
<1>3. clock \in Nat
  BY DEF TypeOK
<1>4. ASSUME NEW k \in Key, NEW ts \in Nat, ts < clock
      PROVE  UpTo(store'[k], ts) = UpTo(store[k], ts)
  BY <1>1, <1>3, <1>4 DEF UpTo
<1>5. ASSUME NEW k \in Key
      PROVE  UpTo(store'[k], clock - 1) = UpTo(store[k], clock)
  BY <1>1, <1>2, <1>3 DEF UpTo
<1> QED
  BY <1>1, <1>4, <1>5, SameValue

\* Validation: nothing the transaction read or wrote changed since it started
LEMMA Validated ==
  ASSUME TypeOK, SerialInv, NEW t \in Tx, Valid(t)
  PROVE  \A k \in readSet[t] \cup DOMAIN buffer[t] :
           /\ \A v \in store[k] : ~(start[t] < v.ts)
           /\ Visible(k, start[t]) = Visible(k, clock)
<1> SUFFICES ASSUME NEW k \in readSet[t] \cup DOMAIN buffer[t]
             PROVE  /\ \A v \in store[k] : ~(start[t] < v.ts)
                    /\ Visible(k, start[t]) = Visible(k, clock)
  OBVIOUS
<1>0. k \in Key /\ start[t] \in Nat /\ clock \in Nat
  BY BufferDomain DEF TypeOK
<1>1. \A v \in store[k] : /\ v.ts \in Nat /\ v.ts < clock
                          /\ v.tx \in committed /\ v.ts = commitTs[v.tx]
                          /\ k \in DOMAIN buffer[v.tx]
  BY <1>0 DEF TypeOK, Version, SerialInv, VersionsAreCommitted, StampsPassed
<1>2. \A v \in store[k] : ~(start[t] < v.ts)
  <2> SUFFICES ASSUME NEW v \in store[k], start[t] < v.ts PROVE FALSE
    OBVIOUS
  <2>1. v.tx \in Concurrent(t)
    BY <1>0, <1>1 DEF Concurrent
  <2> QED
    BY <1>1, <2>1 DEF Valid, WriteConflict, ReadConflict
<1>3. UpTo(store[k], start[t]) = UpTo(store[k], clock)
  BY <1>0, <1>1, <1>2 DEF UpTo
<1> QED
  BY <1>2, <1>3, SameValue DEF Visible

LEMMA SerialCommit ==
  ASSUME TypeOK, SerialInv, NEW t \in Tx, CommitSucceeds(t)
  PROVE  SerialInv'
<1>0. /\ status[t] = "active" /\ t \notin committed /\ start[t] < clock
      /\ status' = [status EXCEPT ![t] = "committed"]
      /\ commitTs' = [commitTs EXCEPT ![t] = clock]
      /\ clock' = clock + 1 /\ committed' = committed \cup {t}
      /\ UNCHANGED <<constraints, start, readSet, buffer, predLocks, deps>>
  BY DEF CommitSucceeds, SerialInv, StampsPassed
<1>1. /\ clock \in Nat /\ commitTs \in [Tx -> Nat] /\ start \in [Tx -> Nat]
      /\ committed \in SUBSET Tx /\ status \in [Tx -> {"new", "active", "committed", "aborted"}]
  BY DEF TypeOK
<1>2. /\ \A k \in Key : \A v \in store'[k] :
           v \in store[k] \/ (v.ts = clock /\ v.tx = t /\ k \in DOMAIN buffer[t])
      /\ \A k \in Key, ts \in Nat : ts < clock =>
           ValueAt(store'[k], ts) = ValueAt(store[k], ts)
      /\ \A k \in Key : ValueAt(store'[k], clock - 1) = ValueAt(store[k], clock)
  BY CommitEffect
<1>3. VersionsAreCommitted'
  BY <1>0, <1>1, <1>2 DEF VersionsAreCommitted, SerialInv
<1>4. StampsPassed'
  BY <1>0, <1>1 DEF StampsPassed, SerialInv
<1>5. NoVersionBetween'
  <2> SUFFICES ASSUME NEW u \in committed', ~IsReadOnly(u)',
                      NEW k \in readSet[u] \cup DOMAIN buffer[u], NEW v \in store'[k]
               PROVE  ~(start[u] < v.ts /\ v.ts < commitTs'[u])
    BY <1>0 DEF NoVersionBetween
  <2>0. k \in Key
    BY <1>0, <1>1, BufferDomain DEF TypeOK
  <2>1. CASE u = t
    <3>1. Valid(t)
      BY <1>0, <2>1 DEF CommitSucceeds, IsReadOnly
    <3>2. \A w \in store[k] : ~(start[t] < w.ts)
      BY <2>1, <3>1, Validated
    <3> QED
      BY <1>0, <1>1, <1>2, <2>0, <2>1, <3>2
  <2>2. CASE u \in committed
    <3>1. ~IsReadOnly(u) /\ commitTs'[u] = commitTs[u] /\ commitTs[u] < clock
      BY <1>0, <1>1, <2>2 DEF IsReadOnly, SerialInv, StampsPassed
    <3> QED
      BY <1>1, <1>2, <2>0, <2>2, <3>1 DEF SerialInv, NoVersionBetween
  <2> QED
    BY <1>0, <2>1, <2>2
<1>6. ResultsFromSnapshot'
  <2> SUFFICES ASSUME NEW u \in Tx, status'[u] = "active", NEW lock \in predLocks'[u],
                      NEW k \in Key \ DOMAIN buffer'[u], NEW v \in Value
               PROVE  <<k, v>> \in lock[2] <=>
                        <<k, v>> \in lock[1] /\ Visible(k, start[u])' = v
    BY DEF ResultsFromSnapshot
  <2>0. /\ lock \in predLocks[u] /\ k \in Key \ DOMAIN buffer[u]
        /\ Visible(k, start[u])' = ValueAt(store'[k], start[u])
    BY <1>0 DEF Visible
  <2>1. u # t /\ status[u] = "active" /\ start[u] < clock
    BY <1>0, <1>1 DEF SerialInv, StampsPassed
  <2> QED
    BY <1>1, <1>2, <2>0, <2>1 DEF SerialInv, ResultsFromSnapshot, Visible
<1>7. PredicatesHold'
  <2> SUFFICES ASSUME NEW u \in committed', ~IsReadOnly(u)', NEW lock \in predLocks[u],
                      NEW k \in Key, NEW v \in Value, <<k, v>> \in lock[1]
               PROVE  ValueAt(store'[k], start[u]) = v
                        <=> ValueAt(store'[k], commitTs'[u] - 1) = v
    BY <1>0 DEF PredicatesHold, Visible
  <2>1. CASE u = t
    <3>1. Valid(t)
      BY <1>0, <2>1 DEF CommitSucceeds, IsReadOnly
    <3>2. /\ ValueAt(store'[k], start[u]) = Visible(k, start[t])
          /\ ValueAt(store'[k], commitTs'[u] - 1) = Visible(k, clock)
      BY <1>0, <1>1, <1>2, <2>1 DEF Visible
    <3>3. CASE k \in DOMAIN buffer[t]
      BY <3>1, <3>2, <3>3, Validated
    <3>4. CASE k \notin DOMAIN buffer[t]
      <4>1. <<k, v>> \in lock[2] <=> Visible(k, start[t]) = v
        BY <1>0, <2>1, <3>4 DEF SerialInv, ResultsFromSnapshot
      <4>2. lock[1] \in Predicate /\ Matching(Snapshot(clock), lock[1]) = lock[2]
        BY <2>1, <3>1 DEF Valid, Phantom, TypeOK
      <4>3. <<k, v>> \in lock[2] <=> Snapshot(clock)[k] = v
        BY <4>2, MatchingPairs
      <4> QED
        BY <3>2, <4>1, <4>3 DEF Snapshot
    <3> QED
      BY <3>3, <3>4
  <2>2. CASE u \in committed
    <3>1. /\ ~IsReadOnly(u) /\ commitTs'[u] = commitTs[u]
          /\ commitTs[u] < clock /\ start[u] < commitTs[u]
      BY <1>0, <1>1, <2>2 DEF IsReadOnly, SerialInv, StampsPassed
    <3>2. start[u] \in Nat /\ commitTs[u] \in Nat /\ commitTs[u] - 1 \in Nat
      BY <1>1, <2>2, <3>1
    <3>3. /\ ValueAt(store'[k], start[u]) = Visible(k, start[u])
          /\ ValueAt(store'[k], commitTs'[u] - 1) = Visible(k, commitTs[u] - 1)
      BY <1>1, <1>2, <3>1, <3>2 DEF Visible
    <3> QED
      BY <2>2, <3>1, <3>3 DEF SerialInv, PredicatesHold
  <2> QED
    BY <1>0, <2>1, <2>2
<1> QED
  BY <1>3, <1>4, <1>5, <1>6, <1>7 DEF SerialInv

\* Steps that commit nothing leave committed transactions as they are
LEMMA SerialQuiet ==
  ASSUME TypeOK, SerialInv, UNCHANGED <<store, committed, commitTs>>,
         \A u \in committed : /\ start'[u] = start[u] /\ readSet'[u] = readSet[u]
                              /\ buffer'[u] = buffer[u] /\ predLocks'[u] = predLocks[u]
  PROVE  VersionsAreCommitted' /\ NoVersionBetween' /\ PredicatesHold'
<1>1. VersionsAreCommitted'
  BY DEF SerialInv, VersionsAreCommitted
<1>2. NoVersionBetween'
  BY DEF SerialInv, NoVersionBetween, IsReadOnly
<1>3. PredicatesHold'
  BY DEF SerialInv, PredicatesHold, IsReadOnly, Visible
<1> QED
  BY <1>1, <1>2, <1>3

LEMMA ResultsQuiet ==
  ASSUME SerialInv, UNCHANGED store,
         \A u \in Tx : status'[u] = "active" /\ predLocks'[u] # {} =>
           /\ status[u] = "active" /\ start'[u] = start[u]
           /\ predLocks'[u] = predLocks[u] /\ DOMAIN buffer[u] \subseteq DOMAIN buffer'[u]
  PROVE  ResultsFromSnapshot'
<1> SUFFICES ASSUME NEW u \in Tx, status'[u] = "active", NEW lock \in predLocks'[u],
                    NEW k \in Key \ DOMAIN buffer'[u], NEW v \in Value
             PROVE  <<k, v>> \in lock[2] <=>
                      <<k, v>> \in lock[1] /\ ValueAt(store'[k], start'[u]) = v
  BY DEF ResultsFromSnapshot, Visible
<1>1. /\ status[u] = "active" /\ lock \in predLocks[u] /\ start'[u] = start[u]
      /\ k \in Key \ DOMAIN buffer[u] /\ store' = store
  OBVIOUS
<1>2. <<k, v>> \in lock[2] <=> <<k, v>> \in lock[1] /\ ValueAt(store[k], start[u]) = v
  BY <1>1 DEF SerialInv, ResultsFromSnapshot, Visible
<1> QED
  BY <1>1, <1>2

LEMMA SerialStep == TypeOK /\ SerialInv /\ [Next]_vars => SerialInv'
<1> SUFFICES ASSUME TypeOK, SerialInv, [Next]_vars PROVE SerialInv'
  OBVIOUS
<1>0. \A t \in committed : status[t] \notin {"new", "active"} /\ t \in Tx
  BY DEF SerialInv, StampsPassed, TypeOK
<1>1. ASSUME NEW t \in Tx, Begin(t) PROVE SerialInv'
  <2>1. t \notin committed
    BY <1>0, <1>1 DEF Begin
  <2>2. VersionsAreCommitted' /\ NoVersionBetween' /\ PredicatesHold'
    BY <1>1, <2>1, SerialQuiet DEF Begin, dbVars, TypeOK
  <2>3. StampsPassed'
    BY <1>1, <2>1 DEF Begin, dbVars, TypeOK, SerialInv, StampsPassed
  <2>4. ResultsFromSnapshot'
    <3>1. predLocks'[t] = {}
      BY <1>1 DEF Begin, SerialInv, StampsPassed
    <3>2. \A u \in Tx : u # t => status'[u] = status[u] /\ start'[u] = start[u]
      BY <1>1 DEF Begin, TypeOK
    <3> QED
      BY <1>1, <3>1, <3>2, ResultsQuiet DEF Begin, dbVars
  <2> QED
    BY <2>2, <2>3, <2>4 DEF SerialInv
<1>2. ASSUME NEW t \in Tx, NEW k \in Key, Read(t, k) PROVE SerialInv'
  <2>1. t \notin committed /\ status[t] = "active"
    BY <1>0, <1>2 DEF Read, MayContinue
  <2>2. VersionsAreCommitted' /\ NoVersionBetween' /\ PredicatesHold'
    BY <1>2, <2>1, SerialQuiet DEF Read, dbVars, TypeOK
  <2>3. \A u \in Tx : /\ u # t => status'[u] = status[u]
                      /\ status'[t] \in {"active", "aborted"}
    BY <1>2, <2>1 DEF Read, StatusAfterRead, TypeOK
  <2>4. StampsPassed'
    BY <1>0, <1>2, <2>1, <2>3 DEF Read, dbVars, TypeOK, SerialInv, StampsPassed
  <2>5. ResultsFromSnapshot'
    BY <1>2, <2>1, <2>3, ResultsQuiet DEF Read, dbVars
  <2> QED
    BY <2>2, <2>4, <2>5 DEF SerialInv
<1>3. ASSUME NEW t \in Tx, NEW P \in Predicate, ReadPredicate(t, P) PROVE SerialInv'
  <2>1. t \notin committed /\ status[t] = "active"
    BY <1>0, <1>3 DEF ReadPredicate, MayContinue
  <2>2. VersionsAreCommitted' /\ NoVersionBetween' /\ PredicatesHold'
    BY <1>3, <2>1, SerialQuiet DEF ReadPredicate, dbVars, TypeOK
  <2>3. \A u \in Tx : /\ u # t => status'[u] = status[u]
                      /\ status'[t] \in {"active", "aborted"}
    BY <1>3, <2>1 DEF ReadPredicate, StatusAfterRead, TypeOK
  <2>4. \A u \in Tx : u # t => predLocks'[u] = predLocks[u]
    BY <1>3 DEF ReadPredicate, TypeOK
  <2>5. StampsPassed'
    BY <1>0, <1>3, <2>1, <2>3, <2>4 DEF ReadPredicate, dbVars, TypeOK, SerialInv, StampsPassed
  <2>6. ResultsFromSnapshot'
    <3> SUFFICES ASSUME NEW u \in Tx, status'[u] = "active", NEW lock \in predLocks'[u],
                        NEW k \in Key \ DOMAIN buffer[u], NEW v \in Value
                 PROVE  <<k, v>> \in lock[2] <=>
                          <<k, v>> \in lock[1] /\ Visible(k, start[u]) = v
      <4>1. UNCHANGED <<store, start, buffer>>
        BY <1>3 DEF ReadPredicate, dbVars
      <4> QED
        BY <4>1 DEF ResultsFromSnapshot, Visible
    <3>1. CASE lock \in predLocks[u]
      BY <2>1, <2>3, <3>1 DEF SerialInv, ResultsFromSnapshot
    <3>2. CASE lock \notin predLocks[u]
      <4> DEFINE s == Overlay(Snapshot(start[t]), buffer[t])
      <4>1. u = t /\ lock[1] = P /\ lock[2] = Matching(s, P)
        BY <1>3, <2>4, <3>2 DEF ReadPredicate, TypeOK
      <4>2. s[k] = Visible(k, start[t])
        BY <4>1 DEF Overlay, Snapshot
      <4> HIDE DEF s
      <4> QED
        BY <4>1, <4>2, MatchingPairs
    <3> QED
      BY <3>1, <3>2
  <2> QED
    BY <2>2, <2>5, <2>6 DEF SerialInv
<1>4. ASSUME NEW t \in Tx, NEW k \in Key, NEW v \in Value \cup {Absent}, Write(t, k, v)
      PROVE  SerialInv'
  <2>1. t \notin committed
    BY <1>0, <1>4 DEF Write, MayContinue
  <2>2. VersionsAreCommitted' /\ NoVersionBetween' /\ PredicatesHold'
    BY <1>4, <2>1, SerialQuiet DEF Write, dbVars, TypeOK
  <2>3. \A u \in Tx : DOMAIN buffer[u] \subseteq DOMAIN buffer'[u]
    BY <1>4 DEF Write, TypeOK
  <2>4. StampsPassed' /\ ResultsFromSnapshot'
    BY <1>4, <2>3 DEF Write, dbVars, SerialInv, StampsPassed, ResultsFromSnapshot, Visible
  <2> QED
    BY <2>2, <2>4 DEF SerialInv
<1>5. ASSUME NEW t \in Tx, CommitSucceeds(t) PROVE SerialInv'
  BY <1>5, SerialCommit
<1>6. ASSUME NEW t \in Tx, CommitFails(t) \/ Abort(t) PROVE SerialInv'
  <2>1. /\ status[t] # "new" /\ status' = [status EXCEPT ![t] = "aborted"]
        /\ UNCHANGED <<clock, dbVars, txVars>>
    BY <1>6 DEF CommitFails, Abort
  <2>2. VersionsAreCommitted' /\ NoVersionBetween' /\ PredicatesHold'
    BY <2>1, SerialQuiet DEF dbVars, txVars
  <2>3. StampsPassed'
    BY <2>1 DEF dbVars, txVars, TypeOK, SerialInv, StampsPassed
  <2>4. ResultsFromSnapshot'
    <3>1. \A u \in Tx : status'[u] = "active" => status[u] = "active"
      BY <2>1 DEF TypeOK
    <3> QED
      BY <2>1, <3>1, ResultsQuiet DEF dbVars, txVars
  <2> QED
    BY <2>2, <2>3, <2>4 DEF SerialInv
<1>7. CASE UNCHANGED <<clock, store, committed, status, txVars>>
  <2>1. VersionsAreCommitted' /\ NoVersionBetween' /\ PredicatesHold'
    BY <1>7, SerialQuiet DEF txVars
  <2>2. StampsPassed' /\ ResultsFromSnapshot'
    BY <1>7 DEF txVars, SerialInv, StampsPassed, ResultsFromSnapshot, Visible
  <2> QED
    BY <2>1, <2>2 DEF SerialInv
<1>8. ASSUME NEW C \in Constraint, AddConstraint(C) PROVE SerialInv'
  BY <1>7, <1>8 DEF AddConstraint
<1>9. CASE UNCHANGED vars
  BY <1>7, <1>9 DEF vars, dbVars
<1> QED
  BY <1>1, <1>2, <1>3, <1>4, <1>5, <1>6, <1>8, <1>9 DEF Next

\* Committed transactions are serializable: writers in the order of their
\* commits, read-only transactions at their start.
THEOREM SerializableHistory == Spec => []Serializable
<1>1. Init => SerialInv
  BY SerialInit
<1>2. TypeOK /\ SerialInv /\ [Next]_vars => SerialInv'
  BY SerialStep
<1>3. TypeOK /\ SerialInv => Serializable
  <2> SUFFICES ASSUME TypeOK, SerialInv, NEW t \in committed, ~IsReadOnly(t)
               PROVE  /\ \A k \in readSet[t] \cup DOMAIN buffer[t] :
                           Visible(k, start[t]) = Visible(k, commitTs[t] - 1)
                      /\ \A lock \in predLocks[t] :
                           Matching(Snapshot(start[t]), lock[1])
                             = Matching(Snapshot(commitTs[t] - 1), lock[1])
    BY DEF Serializable
  <2>0. t \in Tx /\ start[t] \in Nat /\ commitTs[t] \in Nat /\ start[t] < commitTs[t]
    BY DEF TypeOK, SerialInv, StampsPassed
  <2>1. ASSUME NEW k \in readSet[t] \cup DOMAIN buffer[t]
        PROVE  Visible(k, start[t]) = Visible(k, commitTs[t] - 1)
    <3>1. k \in Key
      BY <2>0, BufferDomain DEF TypeOK
    <3>2. \A v \in store[k] : v.ts \in Nat /\ ~(start[t] < v.ts /\ v.ts < commitTs[t])
      BY <3>1 DEF SerialInv, NoVersionBetween, TypeOK, Version
    <3>3. UpTo(store[k], start[t]) = UpTo(store[k], commitTs[t] - 1)
      BY <2>0, <3>2 DEF UpTo
    <3> QED
      BY <3>3, SameValue DEF Visible
  <2>2. ASSUME NEW lock \in predLocks[t]
        PROVE  Matching(Snapshot(start[t]), lock[1])
                 = Matching(Snapshot(commitTs[t] - 1), lock[1])
    <3> DEFINE A == Snapshot(start[t])
               B == Snapshot(commitTs[t] - 1)
    <3>1. lock[1] \in Predicate
      BY <2>0 DEF TypeOK
    <3>2. \A k \in Key, v \in Value : <<k, v>> \in lock[1] => (A[k] = v <=> B[k] = v)
      BY DEF SerialInv, PredicatesHold, Snapshot
    <3> HIDE DEF A, B
    <3>3. /\ Matching(A, lock[1]) \in SUBSET (Key \X Value)
          /\ Matching(B, lock[1]) \in SUBSET (Key \X Value)
          /\ \A k \in Key, v \in Value :
               <<k, v>> \in Matching(A, lock[1]) <=> <<k, v>> \in Matching(B, lock[1])
      BY <3>1, <3>2, MatchingPairs
    <3>4. Matching(A, lock[1]) = Matching(B, lock[1])
      BY <3>3
    <3> QED
      BY <3>4 DEF A, B
  <2> QED
    BY <2>1, <2>2
<1> QED
  BY <1>1, <1>2, <1>3, TypeCorrect, PTL DEF Spec

-----------------------------------------------------------------------------
(* Action properties.                                                      *)

LEMMA SerialAlways == Spec => [](TypeOK /\ SerialInv)
<1>1. Init => SerialInv
  BY SerialInit
<1>2. TypeOK /\ SerialInv /\ [Next]_vars => SerialInv'
  BY SerialStep
<1> QED
  BY <1>1, <1>2, TypeCorrect, PTL DEF Spec

\* Only a commit changes the store, and only begin and commit move the clock
LEMMA OnlyCommitsStore ==
  ASSUME TypeOK, [Next]_vars
  PROVE  \/ UNCHANGED <<store, start, clock>>
         \/ \E t \in Tx : status[t] = "new" /\ start' = [start EXCEPT ![t] = clock]
                         /\ clock' = clock + 1 /\ UNCHANGED store
         \/ \E t \in Tx : CommitSucceeds(t)
BY DEF Next, vars, dbVars, txVars, Begin, Read, ReadPredicate, Write, CommitFails,
       Abort, AddConstraint

\* A transaction that is active reads the same state until it ends, whatever
\* the others commit meanwhile.
THEOREM SnapshotsStay == Spec => SnapshotStable
<1> DEFINE Stays == \A t \in Tx : status[t] = "active" =>
                      \A k \in Key : Visible(k, start[t])' = Visible(k, start[t])
<1>1. TypeOK /\ SerialInv /\ [Next]_vars => Stays
  <2> SUFFICES ASSUME TypeOK, SerialInv, [Next]_vars,
                      NEW t \in Tx, status[t] = "active", NEW k \in Key
               PROVE  ValueAt(store'[k], start'[t]) = ValueAt(store[k], start[t])
    BY DEF Visible
  <2>1. start[t] \in Nat /\ start[t] < clock
    BY DEF TypeOK, SerialInv, StampsPassed
  <2>2. CASE UNCHANGED <<store, start, clock>>
    BY <2>2
  <2>3. ASSUME NEW u \in Tx, status[u] = "new", start' = [start EXCEPT ![u] = clock],
               UNCHANGED store
        PROVE  ValueAt(store'[k], start'[t]) = ValueAt(store[k], start[t])
    <3>1. start'[t] = start[t]
      BY <2>3 DEF TypeOK
    <3> QED
      BY <2>3, <3>1
  <2>4. ASSUME NEW u \in Tx, CommitSucceeds(u)
        PROVE  ValueAt(store'[k], start'[t]) = ValueAt(store[k], start[t])
    <3>1. start' = start
      BY <2>4 DEF CommitSucceeds
    <3> QED
      BY <2>1, <2>4, <3>1, CommitEffect
  <2> QED
    BY <2>2, <2>3, <2>4, OnlyCommitsStore
<1>2. TypeOK /\ SerialInv /\ [Next]_vars => [Stays]_vars
  BY <1>1
<1> HIDE DEF Stays
<1>3. Spec => [][Stays]_vars
  BY <1>2, SerialAlways, PTL DEF Spec
<1> QED
  BY <1>3 DEF SnapshotStable, Stays

\* hypo_snap is the state that the commit leaves behind
LEMMA HypotheticalHolds ==
  ASSUME TypeOK, SerialInv, NEW t \in Tx, CommitSucceeds(t)
  PROVE  [k \in Key |-> ValueAt(store'[k], clock + 1)] = Hypothetical(t)
<1>1. clock \in Nat
  BY DEF TypeOK
<1>2. \A k \in Key : \A v \in store[k] : v.ts \in Nat /\ v.ts < clock
  BY DEF TypeOK, Version, SerialInv, VersionsAreCommitted, StampsPassed
<1> SUFFICES ASSUME NEW k \in Key
             PROVE  ValueAt(store'[k], clock + 1)
                      = IF k \in DOMAIN buffer[t] THEN buffer[t][k] ELSE ValueAt(store[k], clock)
  BY DEF Hypothetical, Overlay, Snapshot, Visible
<1>3. CASE k \notin DOMAIN buffer[t]
  <2>1. store'[k] = store[k]
    BY <1>3 DEF CommitSucceeds
  <2>2. UpTo(store[k], clock + 1) = UpTo(store[k], clock)
    BY <1>1, <1>2 DEF UpTo
  <2> QED
    BY <1>3, <2>1, <2>2, SameValue
<1>4. CASE k \in DOMAIN buffer[t]
  <2> DEFINE new == [ts |-> clock, value |-> buffer[t][k], tx |-> t]
  <2>1. store'[k] = store[k] \cup {new}
    BY <1>4 DEF CommitSucceeds, InstallTs
  <2>2. UpTo(store'[k], clock + 1) = store[k] \cup {new}
    BY <1>1, <1>2, <2>1 DEF UpTo
  <2>3. new.ts = clock /\ new.value = buffer[t][k]
    OBVIOUS
  <2> HIDE DEF new
  <2>4. \A v \in store[k] \cup {new} :
          (\A w \in store[k] \cup {new} : w.ts =< v.ts) <=> v = new
    BY <1>1, <1>2, <2>3
  <2>5. Newest(store[k] \cup {new}) = new
    BY <2>4 DEF Newest
  <2> QED
    BY <1>4, <2>2, <2>3, <2>5 DEF ValueAt
<1> QED
  BY <1>3, <1>4

\* A registered constraint that holds is never broken by a commit, by write
\* skew between transactions that validated one after the other included.
THEOREM ConstraintsStay == Spec => ConstraintsKept
<1> DEFINE Kept == \A C \in constraints :
                     Snapshot(clock) \in C => (Snapshot(clock) \in C)'
<1>1. TypeOK /\ SerialInv /\ [Next]_vars => Kept
  <2> SUFFICES ASSUME TypeOK, SerialInv, [Next]_vars,
                      NEW C \in constraints, Snapshot(clock) \in C
               PROVE  [k \in Key |-> ValueAt(store'[k], clock')] \in C
    BY DEF Snapshot, Visible
  <2>1. clock \in Nat /\ \A k \in Key : \A v \in store[k] : v.ts \in Nat /\ v.ts < clock
    BY DEF TypeOK, Version, SerialInv, VersionsAreCommitted, StampsPassed
  <2>2. \A k \in Key : ValueAt(store[k], clock + 1) = ValueAt(store[k], clock)
    <3>1. \A k \in Key : UpTo(store[k], clock + 1) = UpTo(store[k], clock)
      BY <2>1 DEF UpTo
    <3> QED
      BY <3>1, SameValue
  <2>3. [k \in Key |-> ValueAt(store[k], clock + 1)] = Snapshot(clock)
    BY <2>2 DEF Snapshot, Visible
  <2>4. CASE UNCHANGED <<store, start, clock>>
    BY <2>4 DEF Snapshot, Visible
  <2>5. CASE clock' = clock + 1 /\ UNCHANGED store
    BY <2>3, <2>5
  <2>6. ASSUME NEW t \in Tx, CommitSucceeds(t)
        PROVE  [k \in Key |-> ValueAt(store'[k], clock')] \in C
    <3>1. clock' = clock + 1
      BY <2>6 DEF CommitSucceeds
    <3>2. CASE IsReadOnly(t)
      <4>1. \A k \in Key : store'[k] = store[k]
        BY <2>6, <3>2 DEF CommitSucceeds, IsReadOnly
      <4> QED
        BY <2>3, <3>1, <4>1
    <3>3. CASE Valid(t)
      BY <2>6, <3>1, <3>3, HypotheticalHolds DEF Valid
    <3> QED
      BY <2>6, <3>2, <3>3 DEF CommitSucceeds
  <2> QED
    BY <2>4, <2>5, <2>6, OnlyCommitsStore
<1>2. TypeOK /\ SerialInv /\ [Next]_vars => [Kept]_vars
  BY <1>1
<1> HIDE DEF Kept
<1>3. Spec => [][Kept]_vars
  BY <1>2, SerialAlways, PTL DEF Spec
<1> QED
  BY <1>3 DEF ConstraintsKept, Kept

-----------------------------------------------------------------------------
(* The multi-version database.                                             *)

(* Transactions begin in the order of their ids; one that has not begun,   *)
(* or is read-only, has written nothing.                                   *)
BeginsInOrder ==
  /\ \A t, u \in MV!Tx : u < t /\ mstatus[t] # "none" => mstatus[u] # "none"
  /\ \A t \in MV!Tx : mstatus[t] = "none" \/ readOnly[t] => writeSet[t] = {}
  /\ \A t \in MV!Tx : mstatus[t] = "none" => activeAtStart[t] = {}

(* A transaction is active from its beginning to its end: it was active at *)
(* the start of all that began in the meantime.                            *)
Overlaps ==
  /\ \A t, u \in MV!Tx : t \in MV!Active /\ t < u /\ mstatus[u] # "none"
                           => t \in activeAtStart[u]
  /\ \A t, d, u \in MV!Tx : t \in activeAtStart[u] /\ t < d /\ d < u
                              => t \in activeAtStart[d]

(* Who created and who deleted a version wrote its key; a transaction that *)
(* deleted another's version began after that one had committed.           *)
VersionsOwned ==
  \A k \in MKey : \A i \in 1..Len(versions[k]) :
    LET v == versions[k][i]
    IN  /\ k \in writeSet[v.createdBy]
        /\ v.deletedBy # 0 =>
             /\ v.deletedBy \in Deleter /\ k \in writeSet[v.deletedBy]
             /\ \/ v.deletedBy = v.createdBy
                \/ /\ v.createdBy \in MV!Committed /\ v.createdBy < v.deletedBy
                   /\ v.createdBy \notin activeAtStart[v.deletedBy]

(* The committed creators of the versions of a key did not overlap.        *)
CreatorsApart ==
  \A k \in MKey : \A i, j \in 1..Len(versions[k]) :
    versions[k][i].createdBy \in MV!Committed /\ versions[k][j].createdBy \in MV!Committed
      => versions[k][i].createdBy \notin activeAtStart[versions[k][j].createdBy]

(* What a transaction wrote is in the list as long as it, or another that  *)
(* overlapped it, is active.                                               *)
Needed(t) == \/ t \in MV!Active
             \/ t \in MV!Committed /\ \E u \in MV!Active : t \in activeAtStart[u] \/ u < t
WritesKept ==
  \A t \in MV!Tx \ Deleter : \A k \in writeSet[t] :
    Needed(t) => \E i \in 1..Len(versions[k]) : versions[k][i].createdBy = t

MvccInv ==
  /\ MV!TypeOK /\ BeginsInOrder /\ Overlaps
  /\ VersionsOwned /\ CreatorsApart /\ WritesKept
  /\ MV!FirstCommitterWins

-----------------------------------------------------------------------------
(* A list holds the elements of s at the positions I, in their order.      *)
Picks(r, s, I) ==
  \E h \in [1..Len(r) -> I] :
    /\ \A n \in 1..Len(r) : r[n] = s[h[n]]
    /\ \A n, m \in 1..Len(r) : n < m => h[n] < h[m]
    /\ \A i \in I : \E n \in 1..Len(r) : h[n] = i

(* The list of the versions at some positions holds these and no others.   *)
LEMMA PositionsOnly ==
  ASSUME NEW s \in Seq(MV!Version), NEW I \in SUBSET (1..Len(s))
  PROVE  LET r == MV!AtPositions(s, I)
         IN  /\ r \in Seq(MV!Version)
             /\ \A n \in 1..Len(r) : \E i \in I : r[n] = s[i]
             /\ \A i \in I : \E n \in 1..Len(r) : r[n] = s[i]
             /\ Picks(r, s, I)
<1> DEFINE r == MV!AtPositions(s, I)
           Below(i) == {j \in I : j < i}
           Rank(i) == Cardinality(Below(i))
           At(n) == CHOOSE i \in I : Rank(i) = n - 1
<1>1. Len(s) \in Nat /\ \A i \in I : i \in Int
  BY LenProperties
<1>2. IsFiniteSet(I) /\ Cardinality(I) \in Nat
  <2>1. IsFiniteSet(1..Len(s))
    BY <1>1, FS_Interval
  <2>2. IsFiniteSet(I)
    BY <2>1, FS_Subset
  <2> QED
    BY <2>2, FS_CardinalityType
<1>3. \A i \in I : IsFiniteSet(Below(i)) /\ Rank(i) \in Nat /\ Rank(i) < Cardinality(I)
  <2> SUFFICES ASSUME NEW i \in I
               PROVE  IsFiniteSet(Below(i)) /\ Rank(i) \in Nat /\ Rank(i) < Cardinality(I)
    OBVIOUS
  <2>1. Below(i) \subseteq I /\ i \notin Below(i)
    BY <1>1
  <2> HIDE DEF Below
  <2>2. IsFiniteSet(Below(i)) /\ Rank(i) \in Nat /\ Rank(i) =< Cardinality(I)
    BY <1>2, <2>1, FS_Subset, FS_CardinalityType
  <2>3. Rank(i) # Cardinality(I)
    BY <1>2, <2>1, FS_Subset
  <2> QED
    BY <1>2, <2>2, <2>3
<1>4. ASSUME NEW i \in I, NEW j \in I, i < j PROVE Rank(i) < Rank(j)
  <2>1. \A m \in I : m < i => m < j
    BY <1>1, <1>4
  <2>2. ~(i < i)
    BY <1>1
  <2>3. Below(i) \subseteq Below(j) /\ i \in Below(j) /\ i \notin Below(i)
    BY <1>4, <2>1, <2>2
  <2> HIDE DEF Below
  <2>4. Rank(i) =< Rank(j) /\ Rank(i) # Rank(j)
    BY <1>3, <2>3, FS_Subset
  <2> QED
    BY <1>3, <2>4
<1>5. \A n \in 1..Cardinality(I) : \E i \in I : Rank(i) = n - 1
  <2> SUFFICES ASSUME NEW n \in 1..Cardinality(I) PROVE \E i \in I : Rank(i) = n - 1
    OBVIOUS
  <2>1. n \in Nat \ {0} /\ Cardinality(I) >= n /\ I \in SUBSET Int
    BY <1>1, <1>2
  <2> QED
    BY <1>2, <2>1, NthElement
<1>6. r = [n \in 1..Cardinality(I) |-> s[At(n)]]
  BY DEF MV!AtPositions, MV!Cardinality, Cardinality
<1> HIDE DEF Rank, Below, r
<1>7. \A n \in 1..Cardinality(I) : At(n) \in I /\ Rank(At(n)) = n - 1
  BY <1>5
<1>8. ASSUME NEW i \in I PROVE Rank(i) + 1 \in 1..Cardinality(I) /\ At(Rank(i) + 1) = i
  <2>1. Rank(i) + 1 \in 1..Cardinality(I) /\ (Rank(i) + 1) - 1 = Rank(i)
    BY <1>2, <1>3
  <2> HIDE DEF At
  <2>2. At(Rank(i) + 1) \in I /\ Rank(At(Rank(i) + 1)) = Rank(i)
    BY <1>7, <2>1
  <2> QED
    <3>1. ASSUME NEW m \in I, Rank(m) = Rank(i) PROVE m = i
      BY <1>1, <1>3, <1>4, <3>1
    <3> QED
      BY <2>1, <2>2, <3>1
<1> HIDE DEF At
<1>9. r \in Seq(MV!Version) /\ Len(r) = Cardinality(I)
  <2>1. \A n \in 1..Cardinality(I) : s[At(n)] \in MV!Version
    BY <1>7, ElementOfSeq
  <2>2. r \in [1..Cardinality(I) -> MV!Version]
    BY <1>6, <2>1
  <2> QED
    BY <1>2, <2>2
<1>10. \A n, m \in 1..Cardinality(I) : n < m => At(n) < At(m)
  <2> SUFFICES ASSUME NEW n \in 1..Cardinality(I), NEW m \in 1..Cardinality(I), n < m
               PROVE  At(n) < At(m)
    OBVIOUS
  <2>1. At(n) \in I /\ At(m) \in I /\ Rank(At(n)) < Rank(At(m))
    BY <1>2, <1>7
  <2>2. ASSUME NEW a \in I, NEW b \in I, Rank(a) < Rank(b) PROVE a < b
    <3>1. ~(b < a) /\ a # b
      BY <1>3, <1>4, <2>2
    <3> QED
      BY <1>1, <3>1
  <2> QED
    BY <2>1, <2>2
<1> DEFINE h == [n \in 1..Cardinality(I) |-> At(n)]
<1>11. h \in [1..Len(r) -> I] /\ \A n \in 1..Len(r) : h[n] = At(n)
  BY <1>7, <1>9
<1> HIDE DEF h
<1>12. /\ \A n \in 1..Len(r) : r[n] = s[h[n]]
       /\ \A n, m \in 1..Len(r) : n < m => h[n] < h[m]
       /\ \A i \in I : \E n \in 1..Len(r) : h[n] = i
  <2>1. \A n \in 1..Len(r) : r[n] = s[h[n]]
    BY <1>6, <1>9, <1>11
  <2>2. \A n, m \in 1..Len(r) : n < m => h[n] < h[m]
    BY <1>9, <1>10, <1>11
  <2>3. ASSUME NEW i \in I PROVE \E n \in 1..Len(r) : h[n] = i
    <3>1. Rank(i) + 1 \in 1..Len(r) /\ h[Rank(i) + 1] = i
      BY <1>8, <1>9, <1>11
    <3> QED
      BY <3>1
  <2> QED
    BY <2>1, <2>2, <2>3
<1>13. /\ \A n \in 1..Len(r) : \E i \in I : r[n] = s[i]
       /\ \A i \in I : \E n \in 1..Len(r) : r[n] = s[i]
  <2>1. \A n \in 1..Len(r) : h[n] \in I /\ r[n] = s[h[n]]
    BY <1>11, <1>12
  <2>2. ASSUME NEW i \in I PROVE \E n \in 1..Len(r) : r[n] = s[i]
    <3>1. PICK n \in 1..Len(r) : h[n] = i
      BY <1>12
    <3> QED
      BY <2>1, <3>1
  <2> QED
    BY <2>1, <2>2
<1>14. Picks(r, s, I)
  BY <1>11, <1>12 DEF Picks
<1> QED
  BY <1>9, <1>13, <1>14 DEF r

LEMMA TxType ==
  /\ \A t \in MV!Tx : t \in Nat /\ t # 0
  /\ \A S \in SUBSET MV!Tx : S \in SUBSET Int /\ IsFiniteSet(S)
<1>1. MV!Tx = 1..MaxMTx
  BY DEF MV!Tx
<1>2. IsFiniteSet(1..MaxMTx)
  BY MaxMTxAssumption, FS_Interval
<1>3. \A S \in SUBSET (1..MaxMTx) : IsFiniteSet(S)
  BY <1>2, FS_Subset
<1> QED
  BY <1>1, <1>3, MaxMTxAssumption

LEMMA VersionFields ==
  ASSUME MV!TypeOK, NEW k \in MKey
  PROVE  /\ versions[k] \in Seq(MV!Version) /\ Len(versions[k]) \in Nat
         /\ DOMAIN versions[k] = 1..Len(versions[k])
         /\ \A i \in 1..Len(versions[k]) :
              /\ versions[k][i] \in MV!Version
              /\ versions[k][i].value \in MValue /\ versions[k][i].createdBy \in MV!Tx
              /\ versions[k][i].deletedBy \in MV!Tx \cup {0}
<1>1. versions[k] \in Seq(MV!Version)
  BY DEF MV!TypeOK
<1>2. \A i \in 1..Len(versions[k]) : versions[k][i] \in MV!Version
  BY <1>1, ElementOfSeq
<1> QED
  BY <1>1, <1>2, LenProperties DEF MV!Version, MV!Nobody

(* write: a version of its own gets the value, or a new one is listed.     *)
LEMMA WriteEffect ==
  ASSUME MV!TypeOK, NEW t \in MV!Tx, NEW k \in MKey, NEW val \in MValue, MV!Write(t, k, val)
  PROVE  /\ versions' \in [MKey -> Seq(MV!Version)]
         /\ \A j \in MKey :
              /\ Len(versions[j]) =< Len(versions'[j])
              /\ \A i \in 1..Len(versions[j]) :
                   /\ versions'[j][i].createdBy = versions[j][i].createdBy
                   /\ versions'[j][i].deletedBy = versions[j][i].deletedBy
                   /\ \/ versions'[j][i].value = versions[j][i].value
                      \/ versions[j][i].createdBy = t
              /\ \A i \in 1..Len(versions'[j]) :
                   \/ i \in 1..Len(versions[j])
                   \/ /\ j = k /\ k \in writeSet'[t]
                      /\ versions'[j][i].createdBy = t /\ versions'[j][i].deletedBy = 0
         /\ \/ writeSet' = writeSet
            \/ /\ writeSet' = [writeSet EXCEPT ![t] = @ \cup {k}]
               /\ \E i \in 1..Len(versions'[k]) : versions'[k][i].createdBy = t
<1>1. versions \in [MKey -> Seq(MV!Version)] /\ writeSet \in [MV!Tx -> SUBSET MKey]
  BY DEF MV!TypeOK
<1>2. CASE MV!Own(t, k) # {}
  <2> DEFINE m == MV!Min(MV!Own(t, k))
  <2>1. m \in MV!Own(t, k)
    <3>1. MV!Own(t, k) \in SUBSET (1..Len(versions[k])) /\ Len(versions[k]) \in Nat
      BY VersionFields DEF MV!Own
    <3>2. IsFiniteSet(1..Len(versions[k]))
      BY <3>1, FS_Interval
    <3>3. IsFiniteSet(MV!Own(t, k))
      BY <3>1, <3>2, FS_Subset
    <3>4. \E i \in MV!Own(t, k) : \A j \in MV!Own(t, k) : i =< j
      BY <1>2, <3>1, <3>3, LeastElement
    <3> QED
      BY <3>4 DEF MV!Min
  <2>2. /\ versions' = [versions EXCEPT ![k][m].value = val]
        /\ writeSet' = writeSet
    BY <1>2 DEF MV!Write
  <2> HIDE DEF m
  <2>3. m \in 1..Len(versions[k]) /\ versions[k][m].createdBy = t
    BY <2>1, VersionFields DEF MV!Own
  <2> DEFINE v == [versions[k][m] EXCEPT !.value = val]
             s == [versions[k] EXCEPT ![m] = v]
  <2>4. /\ v \in MV!Version /\ v.createdBy = versions[k][m].createdBy
        /\ v.deletedBy = versions[k][m].deletedBy
    BY <2>3, VersionFields DEF MV!Version
  <2>5. versions'[k] = s /\ \A j \in MKey \ {k} : versions'[j] = versions[j]
    BY <1>1, <2>2
  <2> HIDE DEF v
  <2>6. s \in Seq(MV!Version) /\ Len(s) = Len(versions[k]) /\ s[m] = v
        /\ \A i \in 1..Len(versions[k]) : i # m => s[i] = versions[k][i]
    BY <2>3, <2>4, VersionFields
  <2>7. versions' \in [MKey -> Seq(MV!Version)]
    BY <1>1, <2>2, <2>5, <2>6
  <2> HIDE DEF s
  <2>8. \A j \in MKey : Len(versions'[j]) = Len(versions[j])
    BY <2>5, <2>6
  <2>9. \A j \in MKey : \A i \in 1..Len(versions[j]) :
          /\ versions'[j][i].createdBy = versions[j][i].createdBy
          /\ versions'[j][i].deletedBy = versions[j][i].deletedBy
          /\ \/ versions'[j][i].value = versions[j][i].value
             \/ versions[j][i].createdBy = t
    BY <2>3, <2>4, <2>5, <2>6
  <2> QED
    BY <2>2, <2>7, <2>8, <2>9, VersionFields
<1>3. CASE MV!Own(t, k) = {}
  <2> DEFINE v == [value |-> val, createdBy |-> t, deletedBy |-> 0]
             s == Append(versions[k], v)
             L == Len(versions[k])
  <2>1. /\ versions' = [versions EXCEPT ![k] = s]
        /\ writeSet' = [writeSet EXCEPT ![t] = @ \cup {k}]
    BY <1>3 DEF MV!Write, MV!Nobody
  <2>2. v \in MV!Version /\ v.createdBy = t /\ v.deletedBy = 0
    BY DEF MV!Version, MV!Nobody
  <2> HIDE DEF v
  <2>3. L \in Nat /\ s \in Seq(MV!Version) /\ Len(s) = L + 1 /\ s[L + 1] = v
        /\ \A i \in 1..L : s[i] = versions[k][i]
    BY <2>2, VersionFields, AppendProperties
  <2>4. versions'[k] = s /\ \A j \in MKey \ {k} : versions'[j] = versions[j]
    BY <1>1, <2>1
  <2>5. versions' \in [MKey -> Seq(MV!Version)] /\ k \in writeSet'[t]
    BY <1>1, <2>1, <2>3
  <2> HIDE DEF s
  <2>6. ASSUME NEW j \in MKey
        PROVE  /\ Len(versions[j]) =< Len(versions'[j])
               /\ \A i \in 1..Len(versions[j]) : versions'[j][i] = versions[j][i]
               /\ \A i \in 1..Len(versions'[j]) :
                    i \in 1..Len(versions[j]) \/ (j = k /\ versions'[j][i] = v)
    BY <2>3, <2>4, VersionFields
  <2>7. \E i \in 1..Len(versions'[k]) : versions'[k][i].createdBy = t
    BY <2>2, <2>3, <2>4
  <2> QED
    BY <2>1, <2>2, <2>5, <2>6, <2>7
<1> QED
  BY <1>2, <1>3

(* delete: the versions it sees get its mark.                              *)
LEMMA DeleteEffect ==
  ASSUME MV!TypeOK, NEW t \in MV!Tx, NEW k \in MKey, MV!Delete(t, k)
  PROVE  /\ versions' \in [MKey -> Seq(MV!Version)]
         /\ \A j \in MKey :
              /\ Len(versions'[j]) = Len(versions[j])
              /\ \A i \in 1..Len(versions[j]) :
                   /\ versions'[j][i].createdBy = versions[j][i].createdBy
                   /\ versions'[j][i].value = versions[j][i].value
                   /\ \/ versions'[j][i].deletedBy = versions[j][i].deletedBy
                      \/ /\ j = k /\ MV!IsVisible(t, versions[j][i])
                         /\ versions'[j][i].deletedBy = t
                   /\ j = k /\ MV!IsVisible(t, versions[j][i])
                        => versions'[j][i].deletedBy = t
<1> DEFINE New(i) == IF MV!IsVisible(t, versions[k][i])
                     THEN [versions[k][i] EXCEPT !.deletedBy = t] ELSE versions[k][i]
           s == [i \in DOMAIN versions[k] |-> New(i)]
<1>1. versions \in [MKey -> Seq(MV!Version)]
  BY DEF MV!TypeOK
<1>2. versions' = [versions EXCEPT ![k] = s]
  BY DEF MV!Delete, MV!Marked
<1>3. \A i \in 1..Len(versions[k]) :
        /\ New(i) \in MV!Version /\ New(i).createdBy = versions[k][i].createdBy
        /\ New(i).value = versions[k][i].value
        /\ \/ New(i).deletedBy = versions[k][i].deletedBy
           \/ MV!IsVisible(t, versions[k][i]) /\ New(i).deletedBy = t
        /\ MV!IsVisible(t, versions[k][i]) => New(i).deletedBy = t
  BY VersionFields DEF MV!Version
<1> HIDE DEF New
<1>4. /\ s \in Seq(MV!Version) /\ Len(s) = Len(versions[k])
      /\ \A i \in 1..Len(versions[k]) : s[i] = New(i)
  <2>1. s \in [1..Len(versions[k]) -> MV!Version] /\ Len(versions[k]) \in Nat
    BY <1>3, VersionFields
  <2> QED
    BY <2>1, VersionFields
<1> HIDE DEF s
<1>5. versions' \in [MKey -> Seq(MV!Version)]
  BY <1>1, <1>2, <1>4
<1>6. versions'[k] = s /\ \A j \in MKey \ {k} : versions'[j] = versions[j]
  BY <1>1, <1>2
<1> QED
  BY <1>3, <1>4, <1>5, <1>6

(* _abort: the marks of the transaction go.                                *)
LEMMA AbortEffect ==
  ASSUME MV!TypeOK, NEW t \in MV!Tx, MV!Aborts(t)
  PROVE  /\ versions' \in [MKey -> Seq(MV!Version)]
         /\ \A j \in MKey :
              /\ Len(versions'[j]) = Len(versions[j])
              /\ \A i \in 1..Len(versions[j]) :
                   /\ versions'[j][i].createdBy = versions[j][i].createdBy
                   /\ versions'[j][i].value = versions[j][i].value
                   /\ \/ versions'[j][i].deletedBy = versions[j][i].deletedBy
                      \/ versions[j][i].deletedBy = t /\ versions'[j][i].deletedBy = 0
                   /\ j \in writeSet[t] => versions'[j][i].deletedBy # t
<1> DEFINE New(j, i) == IF j \in writeSet[t] /\ versions[j][i].deletedBy = t
                        THEN [versions[j][i] EXCEPT !.deletedBy = 0] ELSE versions[j][i]
           S(j) == [i \in DOMAIN versions[j] |-> New(j, i)]
<1>1. versions' = [j \in MKey |-> S(j)]
  BY DEF MV!Aborts, MV!Nobody
<1>2. \A j \in MKey : \A i \in 1..Len(versions[j]) :
        /\ New(j, i) \in MV!Version /\ New(j, i).createdBy = versions[j][i].createdBy
        /\ New(j, i).value = versions[j][i].value
        /\ \/ New(j, i).deletedBy = versions[j][i].deletedBy
           \/ versions[j][i].deletedBy = t /\ New(j, i).deletedBy = 0
        /\ j \in writeSet[t] => New(j, i).deletedBy # t
  BY VersionFields, TxType DEF MV!Version, MV!Nobody
<1> HIDE DEF New
<1>3. ASSUME NEW j \in MKey
      PROVE  /\ S(j) \in Seq(MV!Version) /\ Len(S(j)) = Len(versions[j])
             /\ \A i \in 1..Len(versions[j]) : S(j)[i] = New(j, i)
  <2>1. S(j) \in [1..Len(versions[j]) -> MV!Version] /\ Len(versions[j]) \in Nat
    BY <1>2, VersionFields
  <2> QED
    BY <2>1, VersionFields
<1> HIDE DEF S
<1> QED
  BY <1>1, <1>2, <1>3

(* garbage_collect: the versions left were there before, and with an active *)
(* transaction those of no aborted creator that nothing supersedes stay.    *)
LEMMA CollectEffect ==
  ASSUME MV!TypeOK, MV!GarbageCollect
  PROVE  /\ versions' \in [MKey -> Seq(MV!Version)]
         /\ \A j \in MKey :
              /\ \A n \in 1..Len(versions'[j]) :
                   \E i \in 1..Len(versions[j]) : versions'[j][n] = versions[j][i]
              /\ \A i \in 1..Len(versions[j]) :
                   \/ MV!Active = {}
                   \/ versions[j][i].createdBy \in MV!Aborted
                   \/ \E m \in 1..Len(versions[j]) :
                        MV!Superseded(<<versions[j][m]>>, versions[j][i])
                   \/ \E n \in 1..Len(versions'[j]) : versions'[j][n] = versions[j][i]
<1> DEFINE P(j) == MV!NotAborted(versions[j])
           Q(j) == MV!Collected(P(j))
<1>1. versions' = [j \in MKey |-> Q(j)]
  BY DEF MV!GarbageCollect
<1>2. ASSUME NEW j \in MKey
      PROVE  /\ P(j) \in Seq(MV!Version)
             /\ \A n \in 1..Len(P(j)) :
                  \E i \in 1..Len(versions[j]) : P(j)[n] = versions[j][i]
             /\ \A i \in 1..Len(versions[j]) :
                  versions[j][i].createdBy \notin MV!Aborted =>
                    \E n \in 1..Len(P(j)) : P(j)[n] = versions[j][i]
  <2> DEFINE I == {i \in 1..Len(versions[j]) : versions[j][i].createdBy \notin MV!Aborted}
  <2>1. P(j) = MV!AtPositions(versions[j], I)
    BY VersionFields DEF MV!NotAborted
  <2>2. versions[j] \in Seq(MV!Version) /\ I \in SUBSET (1..Len(versions[j]))
    BY VersionFields
  <2> HIDE DEF I
  <2>3. /\ P(j) \in Seq(MV!Version)
        /\ \A n \in 1..Len(P(j)) : \E i \in I : P(j)[n] = versions[j][i]
        /\ \A i \in I : \E n \in 1..Len(P(j)) : P(j)[n] = versions[j][i]
    <3> HIDE DEF P
    <3>1. /\ MV!AtPositions(versions[j], I) \in Seq(MV!Version)
          /\ \A n \in 1..Len(MV!AtPositions(versions[j], I)) :
               \E i \in I : MV!AtPositions(versions[j], I)[n] = versions[j][i]
          /\ \A i \in I : \E n \in 1..Len(MV!AtPositions(versions[j], I)) :
               MV!AtPositions(versions[j], I)[n] = versions[j][i]
      BY <2>2, PositionsOnly
    <3> QED
      BY <2>1, <3>1
  <2> HIDE DEF P
  <2> QED
    BY <2>3 DEF I
<1> HIDE DEF P
<1>3. ASSUME NEW j \in MKey
      PROVE  /\ Q(j) \in Seq(MV!Version)
             /\ \A n \in 1..Len(Q(j)) : \E i \in 1..Len(P(j)) : Q(j)[n] = P(j)[i]
             /\ MV!Active # {} =>
                  \A i \in 1..Len(P(j)) :
                    ~MV!Superseded(P(j), P(j)[i]) =>
                      \E n \in 1..Len(Q(j)) : Q(j)[n] = P(j)[i]
  <2>1. P(j) \in Seq(MV!Version) /\ DOMAIN P(j) = 1..Len(P(j)) /\ Len(P(j)) \in Nat
    BY <1>2, LenProperties
  <2>2. CASE MV!Active = {}
    <3> DEFINE I == {i \in DOMAIN P(j) : MV!Live(P(j)[i])}
    <3>1. Q(j) = IF I = {} THEN <<>> ELSE <<P(j)[MV!Max(I)]>>
      BY <2>2 DEF MV!Collected, MV!LatestOnly
    <3>2. I # {} => MV!Max(I) \in I
      <4>1. I \in SUBSET (1..Len(P(j))) /\ IsFiniteSet(1..Len(P(j)))
        BY <2>1, FS_Interval
      <4>2. IsFiniteSet(I) /\ I \in SUBSET Int
        BY <2>1, <4>1, FS_Subset
      <4>3. I # {} => \E i \in I : \A m \in I : i >= m
        BY <4>2, GreatestElement
      <4> HIDE DEF I
      <4> QED
        BY <4>3 DEF MV!Max
    <3>3. I \in SUBSET (1..Len(P(j)))
      BY <2>1
    <3> HIDE DEF I
    <3>4. CASE I = {}
      BY <2>2, <3>1, <3>4
    <3>5. CASE I # {}
      <4>1. MV!Max(I) \in 1..Len(P(j)) /\ P(j)[MV!Max(I)] \in MV!Version
        BY <2>1, <3>2, <3>3, <3>5, ElementOfSeq
      <4>2. Q(j) = <<P(j)[MV!Max(I)]>>
        BY <3>1, <3>5
      <4> QED
        BY <2>2, <4>1, <4>2
    <3> QED
      BY <3>4, <3>5
  <2>3. CASE MV!Active # {}
    <3> DEFINE I == {i \in 1..Len(P(j)) : ~MV!Superseded(P(j), P(j)[i])}
    <3>1. Q(j) = MV!AtPositions(P(j), I)
      BY <2>1, <2>3 DEF MV!Collected
    <3>2. I \in SUBSET (1..Len(P(j)))
      OBVIOUS
    <3> HIDE DEF I, Q
    <3>3. /\ Q(j) \in Seq(MV!Version)
          /\ \A n \in 1..Len(Q(j)) : \E i \in I : Q(j)[n] = P(j)[i]
          /\ \A i \in I : \E n \in 1..Len(Q(j)) : Q(j)[n] = P(j)[i]
      <4>1. /\ MV!AtPositions(P(j), I) \in Seq(MV!Version)
            /\ \A n \in 1..Len(MV!AtPositions(P(j), I)) :
                 \E i \in I : MV!AtPositions(P(j), I)[n] = P(j)[i]
            /\ \A i \in I : \E n \in 1..Len(MV!AtPositions(P(j), I)) :
                 MV!AtPositions(P(j), I)[n] = P(j)[i]
        BY <2>1, <3>2, PositionsOnly
      <4> QED
        BY <3>1, <4>1
    <3> QED
      BY <3>3 DEF I
  <2> QED
    BY <2>2, <2>3
<1> HIDE DEF Q
<1>4. ASSUME NEW j \in MKey, NEW i \in 1..Len(P(j)), MV!Superseded(P(j), P(j)[i])
      PROVE  \E m \in 1..Len(versions[j]) : MV!Superseded(<<versions[j][m]>>, P(j)[i])
  <2>1. P(j) \in Seq(MV!Version) /\ DOMAIN P(j) = 1..Len(P(j)) /\ Len(P(j)) \in Nat
    BY <1>2, LenProperties
  <2>2. PICK n \in 1..Len(P(j)) : MV!Superseded(<<P(j)[n]>>, P(j)[i])
    <3> DEFINE v == P(j)[i]
    <3>1. \/ v.deletedBy # MV!Nobody /\ MV!Old(v.deletedBy)
          \/ /\ v.deletedBy = MV!Nobody /\ MV!Old(v.createdBy)
             /\ \E n \in 1..Len(P(j)) : /\ MV!Old(P(j)[n].createdBy)
                                        /\ P(j)[n].createdBy > v.createdBy
      BY <1>4, <2>1 DEF MV!Superseded
    <3>2. \A w : DOMAIN <<w>> = {1} /\ <<w>>[1] = w
      OBVIOUS
    <3> QED
      BY <3>1, <3>2 DEF MV!Superseded
  <2>3. PICK m \in 1..Len(versions[j]) : P(j)[n] = versions[j][m]
    BY <1>2
  <2> QED
    BY <2>2, <2>3
<1>5. versions' \in [MKey -> Seq(MV!Version)]
  BY <1>1, <1>3
<1>6. ASSUME NEW j \in MKey, NEW n \in 1..Len(versions'[j])
      PROVE  \E i \in 1..Len(versions[j]) : versions'[j][n] = versions[j][i]
  BY <1>1, <1>2, <1>3
<1>7. ASSUME NEW j \in MKey, NEW i \in 1..Len(versions[j]), MV!Active # {},
             versions[j][i].createdBy \notin MV!Aborted,
             \A m \in 1..Len(versions[j]) : ~MV!Superseded(<<versions[j][m]>>, versions[j][i])
      PROVE  \E n \in 1..Len(versions'[j]) : versions'[j][n] = versions[j][i]
  <2>1. PICK m \in 1..Len(P(j)) : P(j)[m] = versions[j][i]
    BY <1>2, <1>7
  <2>2. ~MV!Superseded(P(j), P(j)[m])
    BY <1>4, <1>7, <2>1
  <2> QED
    BY <1>1, <1>3, <1>7, <2>1, <2>2
<1> QED
  BY <1>5, <1>6, <1>7

(* The committed creators stay apart in lists with the same creators.      *)
LEMMA ApartKept ==
  ASSUME CreatorsApart, MV!Committed' = MV!Committed,
         \A u \in MV!Committed : activeAtStart'[u] = activeAtStart[u],
         \A k \in MKey : \A n \in 1..Len(versions'[k]) :
           versions'[k][n].createdBy \in MV!Committed =>
             \E i \in 1..Len(versions[k]) : versions'[k][n].createdBy = versions[k][i].createdBy
  PROVE  CreatorsApart'
<1> SUFFICES ASSUME NEW k \in MKey, NEW m \in 1..Len(versions'[k]), NEW n \in 1..Len(versions'[k]),
                    versions'[k][m].createdBy \in MV!Committed,
                    versions'[k][n].createdBy \in MV!Committed
             PROVE  versions'[k][m].createdBy \notin activeAtStart[versions'[k][n].createdBy]
  BY DEF CreatorsApart
<1>1. PICK i \in 1..Len(versions[k]) : versions'[k][m].createdBy = versions[k][i].createdBy
  OBVIOUS
<1>2. PICK j \in 1..Len(versions[k]) : versions'[k][n].createdBy = versions[k][j].createdBy
  OBVIOUS
<1>3. versions[k][i].createdBy \notin activeAtStart[versions[k][j].createdBy]
  BY <1>1, <1>2 DEF CreatorsApart
<1> QED
  BY <1>1, <1>2, <1>3

-----------------------------------------------------------------------------
(* A transaction begins: it is the last one, and overlaps those active.    *)
LEMMA MvccBegin ==
  ASSUME MvccInv, NEW t \in MV!Tx, NEW ro \in BOOLEAN, MV!Begin(t, ro)
  PROVE  MvccInv'
<1> USE TxType
<1>1. /\ mstatus[t] = "none" /\ \A u \in MV!Tx : u < t => mstatus[u] # "none"
      /\ mstatus'[t] = "active" /\ activeAtStart'[t] = MV!Active /\ writeSet[t] = {}
      /\ \A u \in MV!Tx \ {t} : /\ mstatus'[u] = mstatus[u] /\ readOnly'[u] = readOnly[u]
                                /\ activeAtStart'[u] = activeAtStart[u]
      /\ UNCHANGED <<versions, writeSet>>
  BY DEF MvccInv, BeginsInOrder, MV!Begin, MV!ActiveAtBegin, MV!TypeOK
<1>2. /\ MV!Active' = MV!Active \cup {t} /\ MV!Committed' = MV!Committed
      /\ t \notin MV!Active /\ t \notin MV!Committed
  BY <1>1 DEF MV!Active, MV!Committed
<1>3. \A u \in MV!Tx : t < u => mstatus[u] = "none"
  BY <1>1 DEF MvccInv, BeginsInOrder
<1>4. \A u \in MV!Active : u \in MV!Tx /\ u < t
  BY <1>1, <1>3 DEF MV!Active
<1>5. MV!TypeOK'
  BY <1>1, <1>4 DEF MvccInv, MV!TypeOK, MV!Begin, MV!ActiveAtBegin
<1>6. BeginsInOrder'
  BY <1>1, <1>3 DEF MvccInv, BeginsInOrder
<1>7. Overlaps'
  <2>1. ASSUME NEW v \in MV!Tx, NEW u \in MV!Tx,
               v \in MV!Active', v < u, mstatus'[u] # "none"
        PROVE  v \in activeAtStart'[u]
    BY <1>1, <1>2, <1>3, <2>1 DEF MvccInv, Overlaps
  <2>2. ASSUME NEW v \in MV!Tx, NEW d \in MV!Tx, NEW u \in MV!Tx,
               v \in activeAtStart'[u], v < d, d < u
        PROVE  v \in activeAtStart'[d]
    <3>1. CASE u = t
      BY <1>1, <2>2, <3>1 DEF MvccInv, Overlaps
    <3>2. CASE u # t
      <4>1. mstatus[u] # "none" /\ v \in activeAtStart[u]
        BY <1>1, <2>2, <3>2 DEF MvccInv, BeginsInOrder
      <4> QED
        BY <1>1, <1>3, <2>2, <3>2, <4>1 DEF MvccInv, Overlaps
    <3> QED
      BY <3>1, <3>2
  <2> QED
    BY <2>1, <2>2 DEF Overlaps
<1>8. VersionsOwned'
  <2> SUFFICES ASSUME NEW k \in MKey, NEW i \in 1..Len(versions[k]),
                      NEW v, v = versions[k][i]
               PROVE  /\ k \in writeSet[v.createdBy]
                      /\ v.deletedBy # 0 =>
                           /\ v.deletedBy \in Deleter /\ k \in writeSet[v.deletedBy]
                           /\ \/ v.deletedBy = v.createdBy
                              \/ /\ v.createdBy \in MV!Committed /\ v.createdBy < v.deletedBy
                                 /\ v.createdBy \notin activeAtStart'[v.deletedBy]
    BY <1>1, <1>2 DEF VersionsOwned
  <2>1. v.deletedBy \in MV!Tx \cup {0}
    BY VersionFields DEF MvccInv
  <2>2. /\ k \in writeSet[v.createdBy]
        /\ v.deletedBy # 0 =>
             /\ v.deletedBy \in Deleter /\ k \in writeSet[v.deletedBy]
             /\ \/ v.deletedBy = v.createdBy
                \/ /\ v.createdBy \in MV!Committed /\ v.createdBy < v.deletedBy
                   /\ v.createdBy \notin activeAtStart[v.deletedBy]
    BY DEF MvccInv, VersionsOwned
  <2>3. v.deletedBy # 0 => activeAtStart'[v.deletedBy] = activeAtStart[v.deletedBy]
    BY <1>1, <2>1, <2>2
  <2> QED
    BY <2>2, <2>3
<1>9. CreatorsApart'
  <2>1. \A u \in MV!Committed : activeAtStart'[u] = activeAtStart[u]
    BY <1>1, <1>2 DEF MV!Committed
  <2> QED
    BY <1>1, <1>2, <2>1, ApartKept DEF MvccInv
<1>10. WritesKept'
  <2>1. ASSUME NEW u \in MV!Tx, u # t, Needed(u)' PROVE Needed(u)
    <3>1. u \in MV!Active' => u \in MV!Active
      BY <1>2, <2>1
    <3>2. ASSUME u \in MV!Committed, NEW v \in MV!Active', u \in activeAtStart'[v] \/ v < u
          PROVE  v \in MV!Active /\ (u \in activeAtStart[v] \/ v < u)
      BY <1>1, <1>2, <1>3, <1>4, <3>2 DEF MV!Active, MV!Committed
    <3> QED
      BY <1>2, <2>1, <3>1, <3>2 DEF Needed
  <2> QED
    BY <1>1, <2>1 DEF MvccInv, WritesKept
<1>11. MV!FirstCommitterWins'
  BY <1>1, <1>2 DEF MvccInv, MV!FirstCommitterWins, MV!Committed
<1> QED
  BY <1>5, <1>6, <1>7, <1>8, <1>9, <1>10, <1>11 DEF MvccInv

(* A write: the new version belongs to an active transaction.              *)
LEMMA MvccWrite ==
  ASSUME MvccInv, NEW t \in MV!Tx, NEW k \in MKey, NEW val \in MValue, MV!Write(t, k, val)
  PROVE  MvccInv'
<1> USE TxType
<1>0. MV!TypeOK
  BY DEF MvccInv
<1>1. /\ mstatus[t] = "active" /\ readOnly[t] = FALSE
      /\ UNCHANGED <<mstatus, readOnly, activeAtStart, collecting, committedValue>>
  BY <1>0 DEF MV!Write, MV!CheckWritable, MV!Active, MV!TypeOK
<1>2. /\ MV!Active' = MV!Active /\ MV!Committed' = MV!Committed
      /\ t \in MV!Active /\ t \notin MV!Committed
  BY <1>1 DEF MV!Active, MV!Committed
<1>3. /\ writeSet' \in [MV!Tx -> SUBSET MKey]
      /\ \A u \in MV!Tx : writeSet[u] \subseteq writeSet'[u]
      /\ \A u \in MV!Tx \ {t} : writeSet'[u] = writeSet[u]
  <2>1. writeSet' = writeSet \/ writeSet' = [writeSet EXCEPT ![t] = @ \cup {k}]
    BY <1>0, WriteEffect
  <2>2. writeSet \in [MV!Tx -> SUBSET MKey]
    BY <1>0 DEF MV!TypeOK
  <2> QED
    BY <2>1, <2>2
<1>4. MV!TypeOK'
  BY <1>0, <1>1, <1>3, WriteEffect DEF MV!TypeOK
<1>5. BeginsInOrder' /\ Overlaps'
  BY <1>1, <1>2, <1>3 DEF MvccInv, BeginsInOrder, Overlaps
<1>6. VersionsOwned'
  <2> SUFFICES ASSUME NEW j \in MKey, NEW i \in 1..Len(versions'[j])
               PROVE  LET v == versions'[j][i]
                      IN  /\ j \in writeSet'[v.createdBy]
                          /\ v.deletedBy # 0 =>
                               /\ v.deletedBy \in Deleter /\ j \in writeSet'[v.deletedBy]
                               /\ \/ v.deletedBy = v.createdBy
                                  \/ /\ v.createdBy \in MV!Committed /\ v.createdBy < v.deletedBy
                                     /\ v.createdBy \notin activeAtStart[v.deletedBy]
    BY <1>1, <1>2 DEF VersionsOwned
  <2>1. CASE i \in 1..Len(versions[j])
    <3>1. /\ versions'[j][i].createdBy = versions[j][i].createdBy
          /\ versions'[j][i].deletedBy = versions[j][i].deletedBy
      BY <1>0, <2>1, WriteEffect
    <3>2. /\ versions[j][i].createdBy \in MV!Tx
          /\ versions[j][i].deletedBy \in MV!Tx \cup {0}
      BY <1>0, <2>1, VersionFields
    <3> QED
      BY <1>3, <2>1, <3>1, <3>2 DEF MvccInv, VersionsOwned
  <2>2. CASE i \notin 1..Len(versions[j])
    BY <1>0, <2>2, WriteEffect
  <2> QED
    BY <2>1, <2>2
<1>7. CreatorsApart'
  <2>1. \A j \in MKey : \A n \in 1..Len(versions'[j]) :
          \/ versions'[j][n].createdBy = t
          \/ /\ n \in 1..Len(versions[j])
             /\ versions'[j][n].createdBy = versions[j][n].createdBy
    BY <1>0, WriteEffect
  <2> QED
    BY <1>1, <1>2, <2>1, ApartKept DEF MvccInv
<1>8. WritesKept'
  <2> SUFFICES ASSUME NEW u \in MV!Tx \ Deleter, NEW j \in writeSet'[u], Needed(u)
               PROVE  \E i \in 1..Len(versions'[j]) : versions'[j][i].createdBy = u
    BY <1>1, <1>2 DEF WritesKept, Needed
  <2>1. CASE j \in writeSet[u]
    <3>1. PICK i \in 1..Len(versions[j]) : versions[j][i].createdBy = u
      BY <2>1 DEF MvccInv, WritesKept
    <3>2. j \in MKey
      BY <1>3
    <3>3. i \in 1..Len(versions'[j]) /\ versions'[j][i].createdBy = u
      BY <1>0, <1>4, <3>1, <3>2, WriteEffect, VersionFields DEF MV!TypeOK
    <3> QED
      BY <3>3
  <2>2. CASE j \notin writeSet[u]
    <3>1. /\ writeSet' = [writeSet EXCEPT ![t] = @ \cup {k}]
          /\ \E i \in 1..Len(versions'[k]) : versions'[k][i].createdBy = t
      BY <1>0, <2>2, WriteEffect
    <3>2. u = t /\ j = k
      BY <1>0, <2>2, <3>1 DEF MV!TypeOK
    <3> QED
      BY <3>1, <3>2
  <2> QED
    BY <2>1, <2>2
<1>9. MV!FirstCommitterWins'
  BY <1>1, <1>2, <1>3 DEF MvccInv, MV!FirstCommitterWins, MV!Committed
<1> QED
  BY <1>4, <1>5, <1>6, <1>7, <1>8, <1>9 DEF MvccInv

(* A delete: it marks what it sees, which is its own or was committed      *)
(* before it began.                                                        *)
LEMMA MvccDelete ==
  ASSUME MvccInv, NEW t \in MV!Tx, NEW k \in MKey, MV!Delete(t, k)
  PROVE  MvccInv'
<1> USE TxType
<1>0. MV!TypeOK
  BY DEF MvccInv
<1>1. /\ t \in Deleter /\ mstatus[t] = "active" /\ readOnly[t] = FALSE
      /\ UNCHANGED <<mstatus, readOnly, activeAtStart, collecting, committedValue>>
      /\ writeSet' = [writeSet EXCEPT ![t] = @ \cup {k}]
  BY <1>0 DEF MV!Delete, MV!CheckWritable, MV!Active, MV!TypeOK
<1>2. /\ MV!Active' = MV!Active /\ MV!Committed' = MV!Committed
      /\ t \in MV!Active /\ t \notin MV!Committed
  BY <1>1 DEF MV!Active, MV!Committed
<1>3. /\ writeSet' \in [MV!Tx -> SUBSET MKey] /\ k \in writeSet'[t]
      /\ \A u \in MV!Tx : writeSet[u] \subseteq writeSet'[u]
      /\ \A u \in MV!Tx \ {t} : writeSet'[u] = writeSet[u]
  BY <1>0, <1>1 DEF MV!TypeOK
<1>4. MV!TypeOK'
  BY <1>0, <1>1, <1>3, DeleteEffect DEF MV!TypeOK
<1>5. BeginsInOrder' /\ Overlaps'
  BY <1>1, <1>2, <1>3 DEF MvccInv, BeginsInOrder, Overlaps
<1>6. VersionsOwned'
  <2> SUFFICES ASSUME NEW j \in MKey, NEW i \in 1..Len(versions[j])
               PROVE  LET v == versions'[j][i]
                      IN  /\ j \in writeSet'[v.createdBy]
                          /\ v.deletedBy # 0 =>
                               /\ v.deletedBy \in Deleter /\ j \in writeSet'[v.deletedBy]
                               /\ \/ v.deletedBy = v.createdBy
                                  \/ /\ v.createdBy \in MV!Committed /\ v.createdBy < v.deletedBy
                                     /\ v.createdBy \notin activeAtStart[v.deletedBy]
    BY <1>0, <1>1, <1>2, DeleteEffect DEF VersionsOwned
  <2>1. /\ versions'[j][i].createdBy = versions[j][i].createdBy
        /\ j \in writeSet'[versions[j][i].createdBy]
    BY <1>0, <1>3, VersionFields, DeleteEffect DEF MvccInv, VersionsOwned
  <2>2. CASE versions'[j][i].deletedBy = versions[j][i].deletedBy
    BY <1>0, <1>3, <2>1, <2>2, VersionFields DEF MvccInv, VersionsOwned
  <2>3. CASE j = k /\ MV!IsVisible(t, versions[j][i]) /\ versions'[j][i].deletedBy = t
    BY <1>1, <1>3, <2>1, <2>3 DEF MV!IsVisible, MV!Sees
  <2> QED
    BY <1>0, <2>2, <2>3, DeleteEffect
<1>7. CreatorsApart'
  <2>1. \A j \in MKey : \A n \in 1..Len(versions'[j]) :
          /\ n \in 1..Len(versions[j])
          /\ versions'[j][n].createdBy = versions[j][n].createdBy
    BY <1>0, DeleteEffect
  <2> QED
    BY <1>1, <1>2, <2>1, ApartKept DEF MvccInv
<1>8. WritesKept'
  <2> SUFFICES ASSUME NEW u \in MV!Tx \ Deleter, NEW j \in writeSet'[u], Needed(u)
               PROVE  \E i \in 1..Len(versions'[j]) : versions'[j][i].createdBy = u
    BY <1>1, <1>2 DEF WritesKept, Needed
  <2>1. j \in writeSet[u] /\ j \in MKey
    BY <1>1, <1>3
  <2>2. PICK i \in 1..Len(versions[j]) : versions[j][i].createdBy = u
    BY <2>1 DEF MvccInv, WritesKept
  <2>3. i \in 1..Len(versions'[j]) /\ versions'[j][i].createdBy = u
    <3>1. /\ Len(versions'[j]) = Len(versions[j])
          /\ versions'[j][i].createdBy = versions[j][i].createdBy
      BY <1>0, <2>1, DeleteEffect
    <3> QED
      BY <2>2, <3>1
  <2> QED
    BY <2>3
<1>9. MV!FirstCommitterWins'
  BY <1>1, <1>2, <1>3 DEF MvccInv, MV!FirstCommitterWins, MV!Committed
<1> QED
  BY <1>4, <1>5, <1>6, <1>7, <1>8, <1>9 DEF MvccInv

(* The value of a key that a list of versions gives.                       *)
LEMMA LastType ==
  ASSUME MV!TypeOK, NEW k \in MKey, NEW I \in SUBSET (1..Len(versions[k]))
  PROVE  /\ MV!LastValue(versions[k], I) \in MValue \cup {None}
         /\ I # {} => MV!Max(I) \in I
<1>1. IsFiniteSet(1..Len(versions[k])) /\ I \in SUBSET Int
  BY VersionFields, FS_Interval
<1>2. IsFiniteSet(I)
  BY <1>1, FS_Subset
<1>3. I # {} => \E i \in I : \A m \in I : i >= m
  BY <1>1, <1>2, GreatestElement
<1>4. I # {} => MV!Max(I) \in I
  BY <1>3 DEF MV!Max
<1> QED
  BY <1>4, VersionFields DEF MV!LastValue

(* A commit: no conflict, so no committed creator of a version of a key it *)
(* wrote overlapped it.                                                    *)
LEMMA MvccCommit ==
  ASSUME MvccInv, NEW t \in MV!Tx, MV!CommitSucceeds(t)
  PROVE  MvccInv'
<1> USE TxType
<1>0. MV!TypeOK
  BY DEF MvccInv
<1>1. /\ mstatus[t] = "active" /\ mstatus' = [mstatus EXCEPT ![t] = "committed"]
      /\ UNCHANGED <<versions, readOnly, activeAtStart, writeSet, collecting>>
  BY DEF MV!CommitSucceeds, MV!Active
<1>2. /\ mstatus' \in [MV!Tx -> {"none", "active", "committed", "aborted"}]
      /\ \A u \in MV!Tx \ {t} : mstatus'[u] = mstatus[u]
      /\ mstatus'[t] = "committed"
  BY <1>0, <1>1 DEF MV!TypeOK
<1>3. /\ MV!Active' = MV!Active \ {t} /\ MV!Committed' = MV!Committed \cup {t}
      /\ t \in MV!Active /\ t \notin MV!Committed
  BY <1>1, <1>2 DEF MV!Active, MV!Committed
<1>4. \A k \in writeSet[t] : \A i \in 1..Len(versions[k]) :
        LET u == versions[k][i].createdBy
        IN  u \in MV!Committed => u \notin activeAtStart[t] /\ u < t
  <2>1. ASSUME NEW k \in writeSet[t], NEW i \in 1..Len(versions[k]),
               versions[k][i].createdBy \in MV!Committed
        PROVE  versions[k][i].createdBy \notin activeAtStart[t] /\ versions[k][i].createdBy < t
    <3>1. k \in MKey /\ ~readOnly[t]
      BY <1>0, <2>1 DEF MvccInv, BeginsInOrder, MV!TypeOK
    <3>2. ~MV!Conflict(t)
      BY <3>1 DEF MV!CommitSucceeds
    <3>3. i \in DOMAIN versions[k] /\ versions[k][i].createdBy \in MV!Tx
      BY <1>0, <3>1, VersionFields
    <3> QED
      BY <1>3, <2>1, <3>2, <3>3 DEF MV!Conflict
  <2> QED
    BY <2>1
<1>5. MV!TypeOK'
  <2>1. \A k \in MKey : MV!ReadValue(t, k) \in MValue \cup {None}
    BY <1>0, VersionFields, LastType DEF MV!ReadValue
  <2>2. committedValue' = [k \in MKey |-> IF k \in writeSet[t] THEN MV!ReadValue(t, k)
                                                             ELSE committedValue[k]]
    BY DEF MV!CommitSucceeds
  <2>3. committedValue' \in [MKey -> MValue \cup {None}]
    BY <1>0, <2>1, <2>2 DEF MV!TypeOK
  <2> QED
    BY <1>0, <1>1, <1>2, <2>3 DEF MV!TypeOK
<1>6. BeginsInOrder' /\ Overlaps'
  BY <1>1, <1>2, <1>3 DEF MvccInv, BeginsInOrder, Overlaps
<1>7. VersionsOwned'
  BY <1>1, <1>3 DEF MvccInv, VersionsOwned
<1>8. CreatorsApart'
  <2> SUFFICES ASSUME NEW k \in MKey,
                      NEW i \in 1..Len(versions[k]), NEW j \in 1..Len(versions[k]),
                      versions[k][i].createdBy \in MV!Committed \cup {t},
                      versions[k][j].createdBy \in MV!Committed \cup {t}
               PROVE  versions[k][i].createdBy \notin activeAtStart[versions[k][j].createdBy]
    BY <1>1, <1>3 DEF CreatorsApart
  <2>1. /\ k \in writeSet[versions[k][i].createdBy] /\ k \in writeSet[versions[k][j].createdBy]
        /\ versions[k][i].createdBy \in MV!Tx /\ versions[k][j].createdBy \in MV!Tx
    BY <1>0, VersionFields DEF MvccInv, VersionsOwned
  <2>2. \A u \in MV!Tx : \A v \in activeAtStart[u] : v < u
    BY <1>0 DEF MV!TypeOK
  <2>3. CASE versions[k][j].createdBy = t
    BY <1>4, <2>1, <2>2, <2>3
  <2>4. CASE versions[k][i].createdBy = t
    BY <1>4, <2>1, <2>2, <2>4
  <2>5. CASE versions[k][i].createdBy # t /\ versions[k][j].createdBy # t
    BY <2>5 DEF MvccInv, CreatorsApart
  <2> QED
    BY <2>3, <2>4, <2>5
<1>9. WritesKept'
  <2>1. ASSUME NEW u \in MV!Tx, Needed(u)' PROVE Needed(u)
    BY <1>1, <1>3, <2>1 DEF Needed
  <2> QED
    BY <1>1, <2>1 DEF MvccInv, WritesKept
<1>10. MV!FirstCommitterWins'
  <2> SUFFICES ASSUME NEW u \in (MV!Committed \cup {t}) \ Deleter,
                      NEW v \in (MV!Committed \cup {t}) \ Deleter, v \in activeAtStart[u],
                      NEW k \in writeSet[v], k \in writeSet[u]
               PROVE  FALSE
    BY <1>1, <1>3 DEF MV!FirstCommitterWins
  <2>1. u \in MV!Tx /\ v \in MV!Tx /\ v < u /\ k \in MKey
    BY <1>0 DEF MV!TypeOK, MV!Committed
  <2>2. CASE u = t
    <3>1. v \in MV!Committed /\ Needed(v)
      BY <1>3, <2>1, <2>2 DEF Needed
    <3>2. PICK i \in 1..Len(versions[k]) : versions[k][i].createdBy = v
      BY <2>1, <3>1 DEF MvccInv, WritesKept
    <3> QED
      BY <1>4, <2>2, <3>1, <3>2
  <2>3. CASE v = t
    <3>1. u \in MV!Committed /\ Needed(u)
      BY <1>3, <2>1, <2>3 DEF Needed
    <3>2. PICK i \in 1..Len(versions[k]) : versions[k][i].createdBy = u
      BY <2>1, <3>1 DEF MvccInv, WritesKept
    <3> QED
      BY <1>4, <2>1, <2>3, <3>1, <3>2
  <2>4. CASE u # t /\ v # t
    BY <2>4 DEF MvccInv, MV!FirstCommitterWins
  <2> QED
    BY <2>2, <2>3, <2>4
<1> QED
  BY <1>5, <1>6, <1>7, <1>8, <1>9, <1>10 DEF MvccInv

(* An abort: its versions stay, its marks go.                              *)
LEMMA MvccAborts ==
  ASSUME MvccInv, NEW t \in MV!Active, MV!Aborts(t)
  PROVE  MvccInv'
<1> USE TxType
<1>0. MV!TypeOK
  BY DEF MvccInv
<1>1. /\ t \in MV!Tx /\ mstatus[t] = "active" /\ mstatus' = [mstatus EXCEPT ![t] = "aborted"]
      /\ UNCHANGED <<readOnly, activeAtStart, writeSet, collecting, committedValue>>
  BY DEF MV!Aborts, MV!Active
<1>2. /\ mstatus' \in [MV!Tx -> {"none", "active", "committed", "aborted"}]
      /\ \A u \in MV!Tx \ {t} : mstatus'[u] = mstatus[u]
      /\ mstatus'[t] = "aborted"
  BY <1>0, <1>1 DEF MV!TypeOK
<1>3. /\ MV!Active' = MV!Active \ {t} /\ MV!Committed' = MV!Committed
      /\ t \in MV!Active /\ t \notin MV!Committed
  BY <1>1, <1>2 DEF MV!Active, MV!Committed
<1>4. MV!TypeOK'
  BY <1>0, <1>1, <1>2, AbortEffect DEF MV!TypeOK
<1>5. BeginsInOrder' /\ Overlaps'
  BY <1>1, <1>2, <1>3 DEF MvccInv, BeginsInOrder, Overlaps
<1>6. ASSUME NEW j \in MKey
      PROVE  /\ Len(versions'[j]) = Len(versions[j])
             /\ \A i \in 1..Len(versions[j]) :
                  /\ versions'[j][i].createdBy = versions[j][i].createdBy
                  /\ \/ versions'[j][i].deletedBy = versions[j][i].deletedBy
                     \/ versions'[j][i].deletedBy = 0
  BY <1>0, <1>1, AbortEffect
<1>7. VersionsOwned'
  BY <1>1, <1>3, <1>6 DEF MvccInv, VersionsOwned
<1>8. CreatorsApart'
  BY <1>1, <1>3, <1>6, ApartKept DEF MvccInv
<1>9. WritesKept'
  <2> SUFFICES ASSUME NEW u \in MV!Tx \ Deleter, NEW j \in writeSet[u], Needed(u)'
               PROVE  \E i \in 1..Len(versions'[j]) : versions'[j][i].createdBy = u
    BY <1>1 DEF WritesKept
  <2>1. Needed(u)
    BY <1>1, <1>3 DEF Needed
  <2>2. PICK i \in 1..Len(versions[j]) : versions[j][i].createdBy = u
    BY <2>1 DEF MvccInv, WritesKept
  <2>3. j \in MKey
    BY <1>0 DEF MV!TypeOK
  <2> QED
    BY <1>6, <2>2, <2>3
<1>10. MV!FirstCommitterWins'
  BY <1>1, <1>3 DEF MvccInv, MV!FirstCommitterWins
<1> QED
  BY <1>4, <1>5, <1>7, <1>8, <1>9, <1>10 DEF MvccInv

(* A collection: of the versions that a conflict check may still need, the *)
(* marked ones were marked by a transaction that began too late to be old, *)
(* and no later creator is old without having overlapped theirs.           *)
LEMMA MvccCollect ==
  ASSUME MvccInv, MV!GarbageCollect
  PROVE  MvccInv'
<1> USE TxType
<1>0. MV!TypeOK
  BY DEF MvccInv
<1>1. UNCHANGED <<mstatus, readOnly, activeAtStart, writeSet, collecting, committedValue>>
  BY DEF MV!GarbageCollect, MV!txVars
<1>2. MV!Active' = MV!Active /\ MV!Committed' = MV!Committed
  BY <1>1 DEF MV!Active, MV!Committed
<1>3. MV!TypeOK'
  BY <1>0, <1>1, CollectEffect DEF MV!TypeOK
<1>4. BeginsInOrder' /\ Overlaps' /\ MV!FirstCommitterWins'
  BY <1>1, <1>2 DEF MvccInv, BeginsInOrder, Overlaps, MV!FirstCommitterWins
<1>5. \A j \in MKey : \A n \in 1..Len(versions'[j]) :
        \E i \in 1..Len(versions[j]) : versions'[j][n] = versions[j][i]
  BY <1>0, CollectEffect
<1>6. VersionsOwned'
  <2> SUFFICES ASSUME NEW j \in MKey, NEW n \in 1..Len(versions'[j])
               PROVE  LET v == versions'[j][n]
                      IN  /\ j \in writeSet[v.createdBy]
                          /\ v.deletedBy # 0 =>
                               /\ v.deletedBy \in Deleter /\ j \in writeSet[v.deletedBy]
                               /\ \/ v.deletedBy = v.createdBy
                                  \/ /\ v.createdBy \in MV!Committed /\ v.createdBy < v.deletedBy
                                     /\ v.createdBy \notin activeAtStart[v.deletedBy]
    BY <1>1, <1>2 DEF VersionsOwned
  <2>1. PICK i \in 1..Len(versions[j]) : versions'[j][n] = versions[j][i]
    BY <1>5
  <2> QED
    BY <2>1 DEF MvccInv, VersionsOwned
<1>7. CreatorsApart'
  <2>1. \A j \in MKey : \A n \in 1..Len(versions'[j]) :
          \E i \in 1..Len(versions[j]) : versions'[j][n].createdBy = versions[j][i].createdBy
    BY <1>5
  <2> QED
    BY <1>1, <1>2, <2>1, ApartKept DEF MvccInv
<1>8. ASSUME NEW u \in MV!Tx, MV!Old(u), NEW a \in MV!Active PROVE u \in MV!Committed /\ u < a
  <2>1. MV!Active \in SUBSET MV!Tx
    BY DEF MV!Active
  <2>2. \E i \in MV!Active : \A j \in MV!Active : i =< j
    BY <1>8, <2>1, LeastElement
  <2>3. MV!Min(MV!Active) \in MV!Active /\ MV!Min(MV!Active) =< a
    BY <1>8, <2>2 DEF MV!Min
  <2> QED
    BY <1>8, <2>1, <2>3 DEF MV!Old
<1>9. WritesKept'
  <2> SUFFICES ASSUME NEW u \in MV!Tx \ Deleter, NEW j \in writeSet[u], Needed(u)
               PROVE  \E n \in 1..Len(versions'[j]) : versions'[j][n].createdBy = u
    BY <1>1, <1>2 DEF WritesKept, Needed
  <2>1. j \in MKey
    BY <1>0 DEF MV!TypeOK
  <2>2. PICK i \in 1..Len(versions[j]) : versions[j][i].createdBy = u
    BY DEF MvccInv, WritesKept
  <2> DEFINE d == versions[j][i].deletedBy
  <2>3. PICK a \in MV!Active : u = a \/ (u \in MV!Committed /\ (u \in activeAtStart[a] \/ a < u))
    BY DEF Needed
  <2>4. u \notin MV!Aborted /\ a \in MV!Tx /\ (u = a => u \notin MV!Committed)
    BY <2>3 DEF MV!Aborted, MV!Active, MV!Committed
  <2>5. ASSUME NEW w \in MV!Tx, u < w, w < a, u # a PROVE u \in activeAtStart[w]
    <3>1. u \in activeAtStart[a]
      BY <2>3, <2>4, <2>5
    <3> QED
      BY <2>4, <2>5, <3>1 DEF MvccInv, Overlaps
  <2>6. ASSUME d # 0, MV!Old(d) PROVE FALSE
    <3>1. d \in MV!Tx
      BY <1>0, <2>1, <2>2, <2>6, VersionFields
    <3>2. u \in MV!Committed /\ u < d /\ u \notin activeAtStart[d]
      BY <2>1, <2>2, <2>6 DEF MvccInv, VersionsOwned
    <3>3. d < a
      BY <1>8, <2>6, <3>1
    <3> QED
      BY <2>4, <2>5, <3>1, <3>2, <3>3
  <2>7. ASSUME MV!Old(u), NEW m \in 1..Len(versions[j]), MV!Old(versions[j][m].createdBy),
               versions[j][m].createdBy > u
        PROVE  FALSE
    <3> DEFINE w == versions[j][m].createdBy
    <3>1. w \in MV!Tx
      BY <1>0, <2>1, VersionFields
    <3>2. u \in MV!Committed /\ w \in MV!Committed /\ w < a
      BY <1>8, <2>7, <3>1
    <3>3. u \notin activeAtStart[w]
      BY <2>1, <2>2, <3>2 DEF MvccInv, CreatorsApart
    <3> QED
      BY <2>4, <2>5, <2>7, <3>1, <3>2, <3>3
  <2>8. \A m \in 1..Len(versions[j]) : ~MV!Superseded(<<versions[j][m]>>, versions[j][i])
    BY <2>2, <2>6, <2>7 DEF MV!Superseded, MV!Nobody
  <2>9. \E n \in 1..Len(versions'[j]) : versions'[j][n] = versions[j][i]
    BY <1>0, <2>1, <2>2, <2>3, <2>4, <2>8, CollectEffect
  <2> QED
    BY <2>2, <2>9
<1> QED
  BY <1>3, <1>4, <1>6, <1>7, <1>9 DEF MvccInv

LEMMA MvccStep ==
  MvccInv /\ [IsolationNext]_isolationVars => MvccInv'
<1> SUFFICES ASSUME MvccInv, [IsolationNext]_isolationVars PROVE MvccInv'
  OBVIOUS
<1>1. CASE UNCHANGED mvccVars
  <2>1. UNCHANGED <<versions, mstatus, readOnly, activeAtStart, writeSet, collecting,
                    committedValue>>
    BY <1>1 DEF mvccVars
  <2> QED
    BY <2>1 DEF MvccInv, MV!TypeOK, BeginsInOrder, Overlaps, VersionsOwned, CreatorsApart,
                WritesKept, Needed, MV!FirstCommitterWins, MV!Active, MV!Committed
<1>2. CASE MV!Next
  <2>1. ASSUME NEW t \in MV!Tx, MV!CommitFails(t) \/ MV!Abort(t) PROVE MvccInv'
    BY <2>1, MvccAborts DEF MV!CommitFails, MV!Abort
  <2> QED
    BY <1>2, <2>1, MvccBegin, MvccWrite, MvccDelete, MvccCommit, MvccCollect DEF MV!Next
<1> QED
  BY <1>1, <1>2 DEF IsolationNext, isolationVars

LEMMA MvccAlways == IsolationSpec => []MvccInv
<1>1. IsolationInit => MvccInv
  <2> SUFFICES ASSUME IsolationInit PROVE MvccInv
    OBVIOUS
  <2>1. MV!Init
    BY DEF IsolationInit
  <2>2. /\ \A k \in MKey : versions[k] = <<>>
        /\ \A t \in MV!Tx : /\ mstatus[t] = "none" /\ activeAtStart[t] = {}
                            /\ writeSet[t] = {}
    BY <2>1 DEF MV!Init
  <2>3. MV!TypeOK
    BY <2>1 DEF MV!Init, MV!TypeOK
  <2> QED
    BY <2>2, <2>3 DEF MvccInv, BeginsInOrder, Overlaps, VersionsOwned, CreatorsApart,
                      WritesKept, MV!FirstCommitterWins, MV!Active, MV!Committed
<1> QED
  BY <1>1, MvccStep, PTL DEF IsolationSpec

(* snapshot-isolation: of two transactions that overlapped and wrote a key *)
(* at most one commits, with any keys, values, number of transactions and  *)
(* deleters, whatever is collected in between; every variable has its type. *)
THEOREM WritersAreExclusive == IsolationSpec => []WritersExclude
<1>1. MvccInv => WritersExclude
  BY DEF MvccInv, WritersExclude
<1> QED
  BY <1>1, MvccAlways, PTL

-----------------------------------------------------------------------------
(* What a transaction reads depends on the versions it sees alone.         *)
LEMMA SameReads ==
  ASSUME MV!TypeOK, MV!TypeOK', NEW t \in MV!Tx, NEW k \in MKey,
         Len(versions[k]) =< Len(versions'[k]),
         \A i \in 1..Len(versions[k]) :
           /\ MV!IsVisible(t, versions[k][i])' <=> MV!IsVisible(t, versions[k][i])
           /\ MV!IsVisible(t, versions[k][i]) => versions'[k][i].value = versions[k][i].value,
         \A i \in 1..Len(versions'[k]) :
           i \in 1..Len(versions[k]) \/ ~MV!IsVisible(t, versions[k][i])'
  PROVE  MV!ReadValue(t, k)' = MV!ReadValue(t, k)
<1> DEFINE I == {i \in 1..Len(versions[k]) : MV!IsVisible(t, versions[k][i])}
<1>1. /\ DOMAIN versions[k] = 1..Len(versions[k]) /\ Len(versions[k]) \in Nat
      /\ DOMAIN versions'[k] = 1..Len(versions'[k]) /\ Len(versions'[k]) \in Nat
  <2>1. versions[k] \in Seq(MV!Version) /\ versions'[k] \in Seq(MV!Version)
    BY DEF MV!TypeOK
  <2> QED
    BY <2>1, LenProperties
<1>2. MV!ReadValue(t, k) = MV!LastValue(versions[k], I)
  BY <1>1 DEF MV!ReadValue
<1>3. {i \in 1..Len(versions'[k]) : MV!IsVisible(t, versions[k][i])'} = I
  BY <1>1
<1>4. MV!ReadValue(t, k)' = MV!LastValue(versions'[k], I)
  BY <1>1, <1>3 DEF MV!ReadValue
<1>5. I # {} => MV!Max(I) \in I
  <2>1. I \in SUBSET (1..Len(versions[k]))
    OBVIOUS
  <2> HIDE DEF I
  <2> QED
    BY <2>1, LastType
<1>6. \A i \in I : versions'[k][i].value = versions[k][i].value
  OBVIOUS
<1> HIDE DEF I
<1> QED
  BY <1>2, <1>4, <1>5, <1>6 DEF MV!LastValue

(* The transactions whose writes and deletions t sees.                     *)
SeenBy(t) == {u \in MV!Tx : MV!Sees(t, u)}

LEMMA VisibleSeen ==
  ASSUME MV!TypeOK, MV!TypeOK', NEW t \in MV!Tx, NEW k \in MKey
  PROVE  /\ \A i \in 1..Len(versions[k]) :
              MV!IsVisible(t, versions[k][i]) <=>
                /\ versions[k][i].createdBy \in SeenBy(t)
                /\ versions[k][i].deletedBy \notin SeenBy(t)
         /\ \A i \in 1..Len(versions'[k]) :
              MV!IsVisible(t, versions[k][i])' <=>
                /\ versions'[k][i].createdBy \in SeenBy(t)'
                /\ versions'[k][i].deletedBy \notin SeenBy(t)'
<1>1. /\ \A i \in 1..Len(versions[k]) : versions[k][i] \in MV!Version
      /\ \A i \in 1..Len(versions'[k]) : versions'[k][i] \in MV!Version
  <2>1. versions[k] \in Seq(MV!Version) /\ versions'[k] \in Seq(MV!Version)
    BY DEF MV!TypeOK
  <2> QED
    BY <2>1, ElementOfSeq
<1>2. \A i \in 1..Len(versions[k]) :
        /\ versions[k][i].createdBy \in MV!Tx
        /\ versions[k][i].deletedBy \in MV!Tx \cup {0}
  BY <1>1 DEF MV!Version, MV!Nobody
<1>3. \A i \in 1..Len(versions'[k]) :
        /\ versions'[k][i].createdBy \in MV!Tx
        /\ versions'[k][i].deletedBy \in MV!Tx \cup {0}
  BY <1>1 DEF MV!Version, MV!Nobody
<1>4. \A i \in 1..Len(versions[k]) :
        MV!IsVisible(t, versions[k][i]) <=>
          /\ versions[k][i].createdBy \in SeenBy(t)
          /\ versions[k][i].deletedBy \notin SeenBy(t)
  BY <1>2, TxType DEF MV!IsVisible, SeenBy, MV!Nobody
<1>5. \A i \in 1..Len(versions'[k]) :
        MV!IsVisible(t, versions[k][i])' <=>
          /\ versions'[k][i].createdBy \in SeenBy(t)'
          /\ versions'[k][i].deletedBy \notin SeenBy(t)'
  BY <1>3, TxType DEF MV!IsVisible, SeenBy, MV!Nobody, MV!Sees
<1> QED
  BY <1>4, <1>5

(* An active transaction sees no other active one, and goes on not seeing  *)
(* it when it commits.                                                     *)
LEMMA SeenStays ==
  ASSUME MvccInv, MV!Next, NEW t \in MV!Active, t \in MV!Active'
  PROVE  /\ SeenBy(t)' = SeenBy(t)
         /\ \A u \in MV!Active \ {t} : u \notin SeenBy(t)
<1> USE TxType
<1>0. MV!TypeOK /\ t \in MV!Tx /\ mstatus[t] = "active" /\ mstatus'[t] = "active"
  BY DEF MvccInv, MV!Active
<1>1. activeAtStart'[t] = activeAtStart[t]
  BY <1>0 DEF MV!Next, MV!Begin, MV!Write, MV!Delete, MV!CommitSucceeds, MV!CommitFails,
              MV!Abort, MV!Aborts, MV!GarbageCollect, MV!txVars, MV!TypeOK
<1>2. /\ MV!Committed \subseteq MV!Committed'
      /\ \A u \in MV!Committed' : u \in MV!Committed \/ u \in MV!Active
  <2>1. \A u \in MV!Tx : \/ mstatus'[u] = mstatus[u]
                         \/ mstatus[u] = "none" /\ mstatus'[u] = "active"
                         \/ mstatus[u] = "active"
    BY <1>0 DEF MV!Next, MV!Begin, MV!Write, MV!Delete, MV!CommitSucceeds, MV!CommitFails,
                MV!Abort, MV!Aborts, MV!GarbageCollect, MV!txVars, MV!TypeOK, MV!Active
  <2> QED
    BY <2>1 DEF MV!Committed, MV!Active
<1>3. \A u \in MV!Active : u # t => u \in activeAtStart[t] \/ t < u
  BY <1>0 DEF MvccInv, Overlaps, MV!Active
<1>4. \A u \in MV!Active : u \in MV!Tx /\ u \notin MV!Committed
  BY DEF MV!Active, MV!Committed
<1> QED
  BY <1>0, <1>1, <1>2, <1>3, <1>4 DEF SeenBy, MV!Sees

LEMMA ReadsStep ==
  ASSUME \A c, d \in Deleter : c = d,
         MvccInv, MvccInv', MV!Next, ~collecting,
         NEW t \in MV!Active, t \in MV!Active', NEW k \in MKey, k \notin writeSet'[t]
  PROVE  MV!ReadValue(t, k)' = MV!ReadValue(t, k)
<1> USE TxType
<1>0. MV!TypeOK /\ MV!TypeOK' /\ t \in MV!Tx
  BY DEF MvccInv, MV!Active
<1> DEFINE S == SeenBy(t)
<1>1. SeenBy(t)' = S /\ \A u \in MV!Active \ {t} : u \notin S
  BY SeenStays
<1>2. 0 \notin S /\ Len(versions[k]) \in Nat
  BY <1>0, VersionFields DEF SeenBy
<1> HIDE DEF S
<1>3. SUFFICES
        /\ Len(versions[k]) =< Len(versions'[k])
        /\ \A i \in 1..Len(versions[k]) :
             /\ \/ versions'[k][i].createdBy = versions[k][i].createdBy
                   /\ versions'[k][i].deletedBy = versions[k][i].deletedBy
                \/ versions'[k][i].createdBy = versions[k][i].createdBy
                   /\ versions'[k][i].deletedBy \notin S /\ versions[k][i].deletedBy \notin S
             /\ versions[k][i].createdBy \in S => versions'[k][i].value = versions[k][i].value
        /\ \A i \in 1..Len(versions'[k]) :
             i \in 1..Len(versions[k]) \/ versions'[k][i].createdBy \notin S
  <2> SUFFICES /\ Len(versions[k]) =< Len(versions'[k])
               /\ \A i \in 1..Len(versions[k]) :
                    /\ MV!IsVisible(t, versions[k][i])' <=> MV!IsVisible(t, versions[k][i])
                    /\ MV!IsVisible(t, versions[k][i]) =>
                         versions'[k][i].value = versions[k][i].value
               /\ \A i \in 1..Len(versions'[k]) :
                    i \in 1..Len(versions[k]) \/ ~MV!IsVisible(t, versions[k][i])'
    BY <1>0, SameReads
  <2>1. \A i \in 1..Len(versions[k]) :
          MV!IsVisible(t, versions[k][i]) <=>
            versions[k][i].createdBy \in S /\ versions[k][i].deletedBy \notin S
    BY <1>0, VisibleSeen DEF S
  <2>2. \A i \in 1..Len(versions'[k]) :
          MV!IsVisible(t, versions[k][i])' <=>
            versions'[k][i].createdBy \in S /\ versions'[k][i].deletedBy \notin S
    BY <1>0, <1>1, VisibleSeen
  <2>3. \A i \in 1..Len(versions[k]) : i \in 1..Len(versions'[k])
    <3>1. Len(versions'[k]) \in Nat
      BY <1>0, LenProperties DEF MV!TypeOK
    <3> QED
      BY <1>2, <1>3, <3>1
  <2> QED
    BY <1>3, <2>1, <2>2, <2>3
<1>4. ASSUME UNCHANGED versions
      PROVE  /\ Len(versions'[k]) = Len(versions[k])
             /\ \A i \in 1..Len(versions[k]) : versions'[k][i] = versions[k][i]
  BY <1>4
<1>5. ASSUME NEW u \in MV!Tx, NEW j \in MKey, NEW val \in MValue, MV!Write(u, j, val)
      PROVE  /\ \A i \in 1..Len(versions[k]) :
                  versions[k][i].createdBy \in S => versions'[k][i].value = versions[k][i].value
             /\ \A i \in 1..Len(versions'[k]) :
                  i \in 1..Len(versions[k]) \/ versions'[k][i].createdBy \notin S
  <2>1. u \in MV!Active
    BY <1>5 DEF MV!Write, MV!CheckWritable
  <2>2. CASE u = t
    <3>1. \A i \in 1..Len(versions'[k]) : versions'[k][i].createdBy # t
      BY <2>2 DEF MvccInv, VersionsOwned
    <3>2. \A i \in 1..Len(versions[k]) : versions'[k][i].createdBy = versions[k][i].createdBy
          /\ i \in 1..Len(versions'[k])
      BY <1>0, <1>2, <1>5, WriteEffect, LenProperties DEF MV!TypeOK
    <3> QED
      BY <1>0, <1>5, <2>2, <3>1, <3>2, WriteEffect
  <2>3. CASE u # t
    BY <1>0, <1>1, <1>5, <2>1, <2>3, WriteEffect
  <2> QED
    BY <2>2, <2>3
<1>6. ASSUME NEW u \in MV!Tx, NEW j \in MKey, MV!Delete(u, j), NEW i \in 1..Len(versions[k])
      PROVE  \/ versions'[k][i].deletedBy = versions[k][i].deletedBy
             \/ versions'[k][i].deletedBy \notin S /\ versions[k][i].deletedBy \notin S
  <2>1. u \in MV!Active /\ u \in Deleter /\ j \in writeSet'[u]
    BY <1>0, <1>6 DEF MV!Delete, MV!CheckWritable, MV!TypeOK
  <2>2. ASSUME k = j, MV!IsVisible(u, versions[k][i])
        PROVE  u \notin S /\ versions[k][i].deletedBy \notin S
    <3>1. u # t
      BY <2>1, <2>2
    <3>2. versions[k][i].deletedBy # 0 => versions[k][i].deletedBy = u
      BY <2>1 DEF MvccInv, VersionsOwned
    <3> QED
      BY <1>1, <1>2, <2>1, <3>1, <3>2
  <2> QED
    BY <1>0, <1>6, <2>2, DeleteEffect
<1>7. ASSUME NEW u \in MV!Active, MV!Aborts(u), NEW i \in 1..Len(versions[k])
      PROVE  \/ versions'[k][i].deletedBy = versions[k][i].deletedBy
             \/ versions'[k][i].deletedBy \notin S /\ versions[k][i].deletedBy \notin S
  <2>1. u \in MV!Tx /\ u # t
    BY <1>0, <1>7 DEF MV!Aborts, MV!Active, MV!TypeOK
  <2> QED
    BY <1>0, <1>1, <1>2, <1>7, <2>1, AbortEffect
<1>8. CASE \E u \in MV!Tx, ro \in BOOLEAN : MV!Begin(u, ro)
  BY <1>2, <1>4, <1>8 DEF MV!Begin
<1>9. CASE \E u \in MV!Tx : MV!CommitSucceeds(u)
  BY <1>2, <1>4, <1>9 DEF MV!CommitSucceeds
<1>10. ASSUME NEW u \in MV!Tx, NEW j \in MKey, NEW val \in MValue, MV!Write(u, j, val)
       PROVE  /\ Len(versions[k]) =< Len(versions'[k])
              /\ \A i \in 1..Len(versions[k]) :
                   /\ versions'[k][i].createdBy = versions[k][i].createdBy
                   /\ versions'[k][i].deletedBy = versions[k][i].deletedBy
  BY <1>0, <1>10, WriteEffect
<1>11. ASSUME NEW u \in MV!Tx, NEW j \in MKey, MV!Delete(u, j)
       PROVE  /\ Len(versions[k]) = Len(versions'[k])
              /\ \A i \in 1..Len(versions[k]) :
                   /\ versions'[k][i].createdBy = versions[k][i].createdBy
                   /\ versions'[k][i].value = versions[k][i].value
  BY <1>0, <1>11, DeleteEffect
<1>12. ASSUME NEW u \in MV!Active, MV!Aborts(u)
       PROVE  /\ Len(versions[k]) = Len(versions'[k])
              /\ \A i \in 1..Len(versions[k]) :
                   /\ versions'[k][i].createdBy = versions[k][i].createdBy
                   /\ versions'[k][i].value = versions[k][i].value
  <2>1. u \in MV!Tx
    BY DEF MV!Active
  <2> QED
    BY <1>0, <1>12, <2>1, AbortEffect
<1>13. CASE \E u \in MV!Tx, j \in MKey, val \in MValue : MV!Write(u, j, val)
  BY <1>5, <1>10, <1>13
<1>14. CASE \E u \in MV!Tx, j \in MKey : MV!Delete(u, j)
  BY <1>2, <1>6, <1>11, <1>14
<1>15. CASE \E u \in MV!Active : MV!Aborts(u)
  BY <1>2, <1>7, <1>12, <1>15
<1>16. ~MV!GarbageCollect
  BY DEF MV!GarbageCollect
<1> QED
  BY <1>8, <1>9, <1>13, <1>14, <1>15, <1>16 DEF MV!Next, MV!CommitFails, MV!Abort

(* snapshot-isolation: what an active transaction reads of a key it did    *)
(* not write stays the same, whatever the others write, delete, commit or  *)
(* abort, if at most one transaction deletes (a second one takes back the  *)
(* mark of the first) and no garbage is collected.                         *)
THEOREM ReadsStay ==
  ASSUME \A c, d \in Deleter : c = d
  PROVE  IsolationSpec => ReadsStable
<1>1. MvccInv /\ MvccInv' /\ [IsolationNext]_isolationVars => [MV!KeepsReads]_mvccVars
  <2> SUFFICES ASSUME MvccInv, MvccInv', MV!Next PROVE MV!KeepsReads
    BY DEF IsolationNext, isolationVars
  <2> SUFFICES ASSUME ~collecting, NEW t \in MV!Active, t \in MV!Active', NEW k \in MKey,
                      k \notin writeSet'[t]
               PROVE  MV!ReadValue(t, k)' = MV!ReadValue(t, k)
    BY DEF MV!KeepsReads
  <2> QED
    BY ReadsStep
<1> QED
  BY <1>1, MvccAlways, PTL DEF IsolationSpec, ReadsStable

-----------------------------------------------------------------------------
(* The commits so far, in the lists of versions.                           *)

(* Of two versions the later was created by a later transaction, or by one *)
(* that overlapped the earlier's creator.                                  *)
ListedInOrder ==
  \A k \in MKey : \A i, j \in 1..Len(versions[k]) :
    i < j => \/ versions[k][i].createdBy =< versions[k][j].createdBy
             \/ versions[k][j].createdBy \in activeAtStart[versions[k][i].createdBy]

(* A deleter has marked all the versions that it sees.                     *)
MarkedAll ==
  \A k \in MKey : \A i, j \in 1..Len(versions[k]) :
    LET d == versions[k][i].deletedBy
    IN  d # 0 /\ versions[k][j].createdBy # d /\ versions[k][j].createdBy \in SeenBy(d)
          => versions[k][j].deletedBy = d

LiveAt(k) == {i \in 1..Len(versions[k]) : MV!Live(versions[k][i])}

CommitsInv == ListedInOrder /\ MarkedAll /\ MV!CommittedState

LEMMA FreshLive ==
  ASSUME MV!TypeOK, NEW k \in MKey
  PROVE  /\ MV!FreshValue(k) = MV!LastValue(versions[k], LiveAt(k))
         /\ LiveAt(k) \in SUBSET (1..Len(versions[k]))
BY VersionFields DEF MV!FreshValue, LiveAt

LEMMA LastIs ==
  ASSUME NEW s, NEW I \in SUBSET Int, NEW m \in I, \A i \in I : i =< m
  PROVE  MV!LastValue(s, I) = s[m].value /\ MV!Max(I) = m
<1>1. MV!Max(I) = m
  <2>1. m \in Int /\ \A i \in I : i \in Int /\ m >= i
    OBVIOUS
  <2>2. MV!Max(I) \in I /\ \A i \in I : MV!Max(I) >= i
    BY <2>1 DEF MV!Max
  <2>3. MV!Max(I) \in Int /\ MV!Max(I) >= m /\ m >= MV!Max(I)
    BY <2>1, <2>2
  <2> QED
    BY <2>1, <2>3
<1> QED
  BY <1>1 DEF MV!LastValue

(* Steps that leave the live versions of a key and their values alone.     *)
LEMMA SameFresh ==
  ASSUME MV!TypeOK, MV!TypeOK', NEW k \in MKey, LiveAt(k)' = LiveAt(k),
         \A i \in LiveAt(k) : versions'[k][i].value = versions[k][i].value
  PROVE  MV!FreshValue(k)' = MV!FreshValue(k)
<1>1. /\ MV!FreshValue(k) = MV!LastValue(versions[k], LiveAt(k))
      /\ LiveAt(k) \in SUBSET (1..Len(versions[k]))
  BY FreshLive
<1>2. MV!FreshValue(k)' = MV!LastValue(versions'[k], LiveAt(k)')
  <2>1. DOMAIN versions'[k] = 1..Len(versions'[k])
    BY LenProperties DEF MV!TypeOK
  <2> QED
    BY <2>1 DEF MV!FreshValue, LiveAt
<1>3. LiveAt(k) # {} => MV!Max(LiveAt(k)) \in LiveAt(k)
  BY <1>1, LastType
<1> HIDE DEF LiveAt
<1> QED
  BY <1>1, <1>2, <1>3 DEF MV!LastValue

(* garbage_collect keeps the order, and the last live version unless it is *)
(* superseded.                                                             *)
LEMMA CollectOrder ==
  ASSUME MV!TypeOK, MV!GarbageCollect, NEW k \in MKey
  PROVE  \E h \in [1..Len(versions'[k]) -> 1..Len(versions[k])] :
           /\ \A n \in 1..Len(versions'[k]) : versions'[k][n] = versions[k][h[n]]
           /\ \A n, m \in 1..Len(versions'[k]) : n < m => h[n] < h[m]
           /\ \A m \in LiveAt(k) :
                /\ \A i \in LiveAt(k) : i =< m
                /\ \/ MV!Active = {}
                   \/ \A i \in 1..Len(versions[k]) :
                        ~MV!Superseded(<<versions[k][i]>>, versions[k][m])
                => \E n \in 1..Len(versions'[k]) : h[n] = m
<1> DEFINE P == MV!NotAborted(versions[k])
           Q == MV!Collected(P)
<1>1. versions'[k] = Q
  BY DEF MV!GarbageCollect
<1>2. PICK f \in [1..Len(P) -> 1..Len(versions[k])] :
        /\ \A n \in 1..Len(P) : P[n] = versions[k][f[n]]
        /\ \A n, m \in 1..Len(P) : n < m => f[n] < f[m]
        /\ \A m \in LiveAt(k) : \E n \in 1..Len(P) : f[n] = m
  <2> DEFINE I == {i \in 1..Len(versions[k]) : versions[k][i].createdBy \notin MV!Aborted}
  <2>1. P = MV!AtPositions(versions[k], I)
    BY VersionFields DEF MV!NotAborted
  <2>2. versions[k] \in Seq(MV!Version) /\ I \in SUBSET (1..Len(versions[k]))
    BY VersionFields
  <2>3. LiveAt(k) \subseteq I
    BY DEF LiveAt, MV!Live, MV!Committed, MV!Aborted
  <2> HIDE DEF I, P
  <2>4. PICK f \in [1..Len(P) -> I] :
          /\ \A n \in 1..Len(P) : P[n] = versions[k][f[n]]
          /\ \A n, m \in 1..Len(P) : n < m => f[n] < f[m]
          /\ \A i \in I : \E n \in 1..Len(P) : f[n] = i
    <3>1. Picks(MV!AtPositions(versions[k], I), versions[k], I)
      BY <2>2, PositionsOnly
    <3>2. Picks(P, versions[k], I)
      BY <2>1, <3>1
    <3> QED
      BY <3>2 DEF Picks
  <2>5. f \in [1..Len(P) -> 1..Len(versions[k])]
    BY <2>2
  <2> QED
    BY <2>3, <2>4, <2>5
<1>3. P \in Seq(MV!Version) /\ DOMAIN P = 1..Len(P) /\ Len(P) \in Nat
  <2> DEFINE I == {i \in 1..Len(versions[k]) : versions[k][i].createdBy \notin MV!Aborted}
  <2>1. P = MV!AtPositions(versions[k], I)
    BY VersionFields DEF MV!NotAborted
  <2>2. versions[k] \in Seq(MV!Version) /\ I \in SUBSET (1..Len(versions[k]))
    BY VersionFields
  <2> HIDE DEF I, P
  <2>3. P \in Seq(MV!Version)
    BY <2>1, <2>2, PositionsOnly
  <2> QED
    BY <2>3, LenProperties
<1> HIDE DEF P
<1> DEFINE LiveP == {i \in 1..Len(P) : MV!Live(P[i])}
<1>4. PICK g \in [1..Len(Q) -> 1..Len(P)] :
        /\ \A n \in 1..Len(Q) : Q[n] = P[g[n]]
        /\ \A n, m \in 1..Len(Q) : n < m => g[n] < g[m]
        /\ \A m \in LiveP :
             /\ \A i \in LiveP : i =< m
             /\ MV!Active = {} \/ ~MV!Superseded(P, P[m])
             => \E n \in 1..Len(Q) : g[n] = m
  <2>1. CASE MV!Active = {}
    <3>1. Q = IF LiveP = {} THEN <<>> ELSE <<P[MV!Max(LiveP)]>>
      BY <1>3, <2>1 DEF MV!Collected, MV!LatestOnly
    <3>2. CASE LiveP = {}
      <4>1. Len(Q) = 0
        BY <3>1, <3>2
      <4> DEFINE g == [n \in 1..0 |-> 1]
      <4> HIDE DEF Q, LiveP
      <4>2. 1..Len(Q) = {} /\ g \in [1..Len(Q) -> 1..Len(P)]
        BY <4>1
      <4> HIDE DEF g
      <4> QED
        BY <3>2, <4>2
    <3>3. CASE LiveP # {}
      <4> DEFINE x0 == MV!Max(LiveP)
                 g == [n \in {1} |-> x0]
      <4>1. /\ x0 \in LiveP
            /\ \A m \in LiveP : (\A i \in LiveP : i =< m) => m = x0
        <5>1. LiveP \in SUBSET (1..Len(P)) /\ IsFiniteSet(1..Len(P))
          BY <1>3, FS_Interval
        <5>2. IsFiniteSet(LiveP) /\ LiveP \in SUBSET Int
          BY <1>3, <5>1, FS_Subset
        <5> HIDE DEF LiveP
        <5>3. \E m \in LiveP : \A i \in LiveP : i =< m
          BY <3>3, <5>2, GreatestElement
        <5> QED
          BY <5>2, <5>3, LastIs
      <4>2. Q = <<P[x0]>>
        BY <3>1, <3>3
      <4> HIDE DEF x0, Q
      <4>3. Len(Q) = 1 /\ 1..Len(Q) = {1} /\ Q[1] = P[x0]
        BY <4>2
      <4>4. g \in [1..Len(Q) -> 1..Len(P)] /\ g[1] = x0
        BY <4>1, <4>3
      <4> HIDE DEF g, LiveP
      <4>5. /\ \A n \in 1..Len(Q) : Q[n] = P[g[n]]
            /\ \A n, m \in 1..Len(Q) : n < m => g[n] < g[m]
            /\ \A m \in LiveP :
                 /\ \A i \in LiveP : i =< m
                 /\ MV!Active = {} \/ ~MV!Superseded(P, P[m])
                 => \E n \in 1..Len(Q) : g[n] = m
        BY <4>1, <4>3, <4>4
      <4> QED
        BY <4>4, <4>5
    <3> QED
      BY <3>2, <3>3
  <2>2. CASE MV!Active # {}
    <3> DEFINE I == {i \in 1..Len(P) : ~MV!Superseded(P, P[i])}
    <3>1. Q = MV!AtPositions(P, I)
      BY <1>3, <2>2 DEF MV!Collected
    <3>2. I \in SUBSET (1..Len(P)) /\ LiveP \in SUBSET (1..Len(P))
      OBVIOUS
    <3>3. \A m \in LiveP : ~MV!Superseded(P, P[m]) => m \in I
      OBVIOUS
    <3> HIDE DEF I, Q, LiveP
    <3>4. PICK g \in [1..Len(Q) -> I] :
            /\ \A n \in 1..Len(Q) : Q[n] = P[g[n]]
            /\ \A n, m \in 1..Len(Q) : n < m => g[n] < g[m]
            /\ \A i \in I : \E n \in 1..Len(Q) : g[n] = i
      <4>1. Picks(MV!AtPositions(P, I), P, I)
        BY <1>3, <3>2, PositionsOnly
      <4>2. Picks(Q, P, I)
        BY <3>1, <4>1
      <4> QED
        BY <4>2 DEF Picks
    <3>5. g \in [1..Len(Q) -> 1..Len(P)]
      BY <3>2
    <3> QED
      BY <2>2, <3>3, <3>4, <3>5
  <2> QED
    BY <2>1, <2>2
<1> HIDE DEF Q
<1> DEFINE h == [n \in 1..Len(Q) |-> f[g[n]]]
<1>5. h \in [1..Len(Q) -> 1..Len(versions[k])] /\ \A n \in 1..Len(Q) : h[n] = f[g[n]]
  OBVIOUS
<1> HIDE DEF h
<1>6. \A n \in 1..Len(Q) : Q[n] = versions[k][h[n]]
  BY <1>2, <1>4, <1>5
<1>7. \A n, m \in 1..Len(Q) : n < m => h[n] < h[m]
  <2> SUFFICES ASSUME NEW n \in 1..Len(Q), NEW m \in 1..Len(Q), n < m PROVE h[n] < h[m]
    OBVIOUS
  <2>1. g[n] \in 1..Len(P) /\ g[m] \in 1..Len(P) /\ g[n] < g[m]
    BY <1>4
  <2> QED
    BY <1>2, <1>5, <2>1
<1>8. ASSUME NEW m \in LiveAt(k), \A i \in LiveAt(k) : i =< m,
             \/ MV!Active = {}
             \/ \A i \in 1..Len(versions[k]) :
                  ~MV!Superseded(<<versions[k][i]>>, versions[k][m])
      PROVE  \E n \in 1..Len(Q) : h[n] = m
  <2>1. PICK p \in 1..Len(P) : f[p] = m
    BY <1>2
  <2>2. P[p] = versions[k][m] /\ p \in LiveP
    BY <1>2, <2>1 DEF LiveAt
  <2>3. \A i \in LiveP : i =< p
    <3> SUFFICES ASSUME NEW i \in LiveP, ~(i =< p) PROVE FALSE
      OBVIOUS
    <3>1. i \in 1..Len(P) /\ MV!Live(P[i]) /\ p < i
      BY <1>3
    <3>2. f[i] \in LiveAt(k) /\ f[p] < f[i]
      BY <1>2, <3>1 DEF LiveAt
    <3>3. f[i] \in Int /\ f[p] \in Int
      <4>1. f[i] \in 1..Len(versions[k]) /\ f[p] \in 1..Len(versions[k])
        BY <1>2, <3>1
      <4>2. Len(versions[k]) \in Nat
        BY VersionFields
      <4> QED
        BY <4>1, <4>2
    <3> QED
      BY <1>8, <2>1, <3>2, <3>3
  <2>4. MV!Active = {} \/ ~MV!Superseded(P, P[p])
    <3> SUFFICES ASSUME MV!Active # {}, MV!Superseded(P, P[p]) PROVE FALSE
      OBVIOUS
    <3> DEFINE v == P[p]
    <3>1. \/ v.deletedBy # MV!Nobody /\ MV!Old(v.deletedBy)
          \/ /\ v.deletedBy = MV!Nobody /\ MV!Old(v.createdBy)
             /\ \E n \in 1..Len(P) : /\ MV!Old(P[n].createdBy)
                                     /\ P[n].createdBy > v.createdBy
      BY <1>3 DEF MV!Superseded
    <3>2. \A w : DOMAIN <<w>> = {1} /\ <<w>>[1] = w
      OBVIOUS
    <3>3. \E n \in 1..Len(P) : MV!Superseded(<<P[n]>>, v)
      BY <3>1, <3>2 DEF MV!Superseded
    <3> QED
      BY <1>2, <1>8, <2>2, <3>3
  <2> HIDE DEF LiveP
  <2>5. PICK n \in 1..Len(Q) : g[n] = p
    BY <1>4, <2>2, <2>3, <2>4
  <2> QED
    BY <1>5, <2>1, <2>5
<1> QED
  BY <1>1, <1>5, <1>6, <1>7, <1>8

(* What a transaction that has begun sees is fixed at its beginning.       *)
LEMMA SeenFixed ==
  ASSUME MvccInv, MV!Next, NEW d \in MV!Tx, mstatus[d] # "none"
  PROVE  /\ SeenBy(d)' = SeenBy(d) /\ activeAtStart'[d] = activeAtStart[d]
         /\ mstatus'[d] # "none"
         /\ \A u \in MV!Active : u = d \/ u \in activeAtStart[d] \/ d < u
<1> USE TxType
<1>0. MV!TypeOK
  BY DEF MvccInv
<1>1. activeAtStart'[d] = activeAtStart[d]
  BY <1>0 DEF MV!Next, MV!Begin, MV!Write, MV!Delete, MV!CommitSucceeds, MV!CommitFails,
              MV!Abort, MV!Aborts, MV!GarbageCollect, MV!txVars, MV!TypeOK
<1>2. /\ MV!Committed \subseteq MV!Committed'
      /\ \A u \in MV!Committed' : u \in MV!Committed \/ u \in MV!Active
      /\ mstatus'[d] # "none"
  <2>1. \A u \in MV!Tx : \/ mstatus'[u] = mstatus[u]
                         \/ mstatus[u] = "none" /\ mstatus'[u] = "active"
                         \/ mstatus[u] = "active" /\ mstatus'[u] # "none"
    BY <1>0 DEF MV!Next, MV!Begin, MV!Write, MV!Delete, MV!CommitSucceeds, MV!CommitFails,
                MV!Abort, MV!Aborts, MV!GarbageCollect, MV!txVars, MV!TypeOK, MV!Active
  <2> QED
    BY <2>1 DEF MV!Committed, MV!Active
<1>3. \A u \in MV!Active : u = d \/ u \in activeAtStart[d] \/ d < u
  BY DEF MvccInv, Overlaps, MV!Active
<1>4. \A u \in MV!Active : u \in MV!Tx /\ u \notin MV!Committed
  BY DEF MV!Active, MV!Committed
<1> QED
  BY <1>1, <1>2, <1>3, <1>4 DEF SeenBy, MV!Sees

(* Only transactions that have begun create or mark versions.              *)
LEMMA BegunBy ==
  ASSUME MvccInv, NEW k \in MKey, NEW i \in 1..Len(versions[k])
  PROVE  /\ versions[k][i].createdBy \in MV!Tx /\ mstatus[versions[k][i].createdBy] # "none"
         /\ versions[k][i].deletedBy # 0 =>
              /\ versions[k][i].deletedBy \in MV!Tx
              /\ mstatus[versions[k][i].deletedBy] # "none"
<1>1. /\ versions[k][i].createdBy \in MV!Tx
      /\ versions[k][i].deletedBy \in MV!Tx \cup {0}
  BY VersionFields DEF MvccInv
<1> QED
  BY <1>1 DEF MvccInv, VersionsOwned, BeginsInOrder

(* The order of the creators in a list that keeps its creators.            *)
LEMMA OrderKept ==
  ASSUME MvccInv, MV!Next, ListedInOrder,
         \A k \in MKey : /\ Len(versions'[k]) = Len(versions[k])
                         /\ \A i \in 1..Len(versions[k]) :
                              versions'[k][i].createdBy = versions[k][i].createdBy
  PROVE  ListedInOrder'
<1> SUFFICES ASSUME NEW k \in MKey, NEW i \in 1..Len(versions[k]), NEW j \in 1..Len(versions[k]),
                    i < j
             PROVE  \/ versions[k][i].createdBy =< versions[k][j].createdBy
                    \/ versions[k][j].createdBy \in activeAtStart'[versions[k][i].createdBy]
  BY DEF ListedInOrder
<1>1. activeAtStart'[versions[k][i].createdBy] = activeAtStart[versions[k][i].createdBy]
  BY BegunBy, SeenFixed
<1> QED
  BY <1>1 DEF ListedInOrder

(* The marks in a list that keeps its creators and its marks.              *)
LEMMA MarksKept ==
  ASSUME MvccInv, MV!Next, MarkedAll,
         \A k \in MKey : /\ Len(versions'[k]) = Len(versions[k])
                         /\ \A i \in 1..Len(versions[k]) :
                              /\ versions'[k][i].createdBy = versions[k][i].createdBy
                              /\ versions'[k][i].deletedBy = versions[k][i].deletedBy
  PROVE  MarkedAll'
<1> SUFFICES ASSUME NEW k \in MKey, NEW i \in 1..Len(versions[k]), NEW j \in 1..Len(versions[k]),
                    versions[k][i].deletedBy # 0,
                    versions[k][j].createdBy # versions[k][i].deletedBy,
                    versions[k][j].createdBy \in SeenBy(versions[k][i].deletedBy)'
             PROVE  versions[k][j].deletedBy = versions[k][i].deletedBy
  BY DEF MarkedAll
<1>1. SeenBy(versions[k][i].deletedBy)' = SeenBy(versions[k][i].deletedBy)
  BY BegunBy, SeenFixed
<1> QED
  BY <1>1 DEF MarkedAll

LEMMA CommitsBegin ==
  ASSUME MvccInv, MvccInv', CommitsInv, NEW t \in MV!Tx, NEW ro \in BOOLEAN, MV!Begin(t, ro)
  PROVE  CommitsInv'
<1>1. MV!TypeOK /\ MV!TypeOK' /\ MV!Next
  BY DEF MvccInv, MV!Next
<1>2. versions' = versions /\ committedValue' = committedValue
  BY DEF MV!Begin
<1>3. MV!Committed' = MV!Committed
  BY <1>1 DEF MV!Begin, MV!Committed, MV!TypeOK
<1>4. ListedInOrder'
  BY <1>1, <1>2, OrderKept DEF CommitsInv
<1>5. MarkedAll'
  BY <1>1, <1>2, MarksKept DEF CommitsInv
<1>6. \A k \in MKey : MV!FreshValue(k)' = MV!FreshValue(k)
  BY <1>2, <1>3 DEF MV!FreshValue, MV!Live
<1> QED
  BY <1>2, <1>4, <1>5, <1>6 DEF CommitsInv, MV!CommittedState

(* The versions of an active transaction are not live.                     *)
LEMMA CommitsWrite ==
  ASSUME MvccInv, MvccInv', CommitsInv,
         NEW t \in MV!Tx, NEW k \in MKey, NEW val \in MValue, MV!Write(t, k, val)
  PROVE  CommitsInv'
<1> USE TxType
<1>1. MV!TypeOK /\ MV!TypeOK' /\ MV!Next
  BY DEF MvccInv, MV!Next
<1>2. /\ t \in MV!Active /\ t \notin MV!Committed /\ MV!Committed' = MV!Committed
      /\ committedValue' = committedValue /\ activeAtStart' = activeAtStart
  BY DEF MV!Write, MV!CheckWritable, MV!Active, MV!Committed
<1>3. ASSUME NEW j \in MKey
      PROVE  /\ Len(versions[j]) \in Nat /\ Len(versions'[j]) \in Nat
             /\ Len(versions[j]) =< Len(versions'[j])
             /\ \A i \in 1..Len(versions[j]) :
                  /\ i \in 1..Len(versions'[j])
                  /\ versions'[j][i].createdBy = versions[j][i].createdBy
                  /\ versions'[j][i].deletedBy = versions[j][i].deletedBy
                  /\ \/ versions'[j][i].value = versions[j][i].value
                     \/ versions[j][i].createdBy = t
             /\ \A i \in 1..Len(versions'[j]) :
                  \/ i \in 1..Len(versions[j])
                  \/ /\ Len(versions[j]) < i
                     /\ versions'[j][i].createdBy = t /\ versions'[j][i].deletedBy = 0
  <2>1. Len(versions[j]) \in Nat /\ Len(versions'[j]) \in Nat
    BY <1>1, LenProperties DEF MV!TypeOK
  <2>2. /\ Len(versions[j]) =< Len(versions'[j])
        /\ \A i \in 1..Len(versions[j]) :
             /\ versions'[j][i].createdBy = versions[j][i].createdBy
             /\ versions'[j][i].deletedBy = versions[j][i].deletedBy
             /\ \/ versions'[j][i].value = versions[j][i].value
                \/ versions[j][i].createdBy = t
        /\ \A i \in 1..Len(versions'[j]) :
             \/ i \in 1..Len(versions[j])
             \/ versions'[j][i].createdBy = t /\ versions'[j][i].deletedBy = 0
    BY <1>1, WriteEffect
  <2>3. /\ \A i \in 1..Len(versions[j]) : i \in 1..Len(versions'[j])
        /\ \A i \in 1..Len(versions'[j]) :
             i \in 1..Len(versions[j]) \/ Len(versions[j]) < i
    BY <2>1, <2>2
  <2> QED
    BY <2>1, <2>2, <2>3
<1>4. ListedInOrder'
  <2> SUFFICES ASSUME NEW j \in MKey, NEW m \in 1..Len(versions'[j]),
                      NEW n \in 1..Len(versions'[j]), m < n
               PROVE  \/ versions'[j][m].createdBy =< versions'[j][n].createdBy
                      \/ versions'[j][n].createdBy \in activeAtStart[versions'[j][m].createdBy]
    BY <1>2 DEF ListedInOrder
  <2>1. CASE n \in 1..Len(versions[j])
    <3>1. m \in 1..Len(versions[j])
      BY <1>3, <2>1
    <3> QED
      BY <1>3, <2>1, <3>1 DEF CommitsInv, ListedInOrder
  <2>2. CASE n \notin 1..Len(versions[j]) /\ m \in 1..Len(versions[j])
    <3>1. versions'[j][n].createdBy = t
      BY <1>3, <2>2
    <3>2. /\ versions[j][m].createdBy \in MV!Tx /\ mstatus[versions[j][m].createdBy] # "none"
          /\ versions'[j][m].createdBy = versions[j][m].createdBy
      BY <1>3, <2>2, BegunBy
    <3>3. t = versions[j][m].createdBy \/ t \in activeAtStart[versions[j][m].createdBy]
          \/ versions[j][m].createdBy < t
      BY <1>1, <1>2, <3>2, SeenFixed
    <3> QED
      BY <3>1, <3>2, <3>3
  <2>3. CASE n \notin 1..Len(versions[j]) /\ m \notin 1..Len(versions[j])
    <3>1. versions'[j][n].createdBy = t /\ versions'[j][m].createdBy = t
      BY <1>3, <2>3
    <3> QED
      BY <3>1
  <2> QED
    BY <2>1, <2>2, <2>3
<1>5. MarkedAll'
  <2> SUFFICES ASSUME NEW j \in MKey, NEW m \in 1..Len(versions'[j]),
                      NEW n \in 1..Len(versions'[j]),
                      NEW d, d = versions'[j][m].deletedBy,
                      d # 0, versions'[j][n].createdBy # d,
                      versions'[j][n].createdBy \in SeenBy(d)'
               PROVE  versions'[j][n].deletedBy = d
    BY DEF MarkedAll
  <2>1. m \in 1..Len(versions[j]) /\ d = versions[j][m].deletedBy
    BY <1>3
  <2>2. d \in MV!Tx /\ mstatus[d] # "none"
    BY <2>1, BegunBy
  <2>3. SeenBy(d)' = SeenBy(d)
    BY <1>1, <2>2, SeenFixed
  <2>4. t = d \/ t \notin SeenBy(d)
    BY <1>2 DEF SeenBy, MV!Sees
  <2>5. n \in 1..Len(versions[j])
    BY <1>3, <2>3, <2>4
  <2> QED
    BY <1>3, <2>1, <2>3, <2>5 DEF CommitsInv, MarkedAll
<1>6. ASSUME NEW j \in MKey PROVE MV!FreshValue(j)' = MV!FreshValue(j)
  <2>1. \A i \in 1..Len(versions[j]) : MV!Live(versions[j][i])' <=> MV!Live(versions[j][i])
    BY <1>2, <1>3 DEF MV!Live
  <2>2. \A i \in 1..Len(versions'[j]) : MV!Live(versions[j][i])' => i \in 1..Len(versions[j])
    BY <1>2, <1>3 DEF MV!Live
  <2>3. LiveAt(j)' = LiveAt(j)
    BY <1>3, <2>1, <2>2 DEF LiveAt
  <2>4. \A i \in LiveAt(j) : versions'[j][i].value = versions[j][i].value
    BY <1>2, <1>3 DEF LiveAt, MV!Live
  <2> QED
    BY <1>1, <2>3, <2>4, SameFresh
<1> QED
  BY <1>2, <1>4, <1>5, <1>6 DEF CommitsInv, MV!CommittedState

(* A deletion marks all the versions that it sees; no mark of another      *)
(* deleter is there, and it is not committed yet.                          *)
LEMMA CommitsDelete ==
  ASSUME \A c, d \in Deleter : c = d, MvccInv, MvccInv', CommitsInv,
         NEW t \in MV!Tx, NEW k \in MKey, MV!Delete(t, k)
  PROVE  CommitsInv'
<1> USE TxType
<1>1. MV!TypeOK /\ MV!TypeOK' /\ MV!Next
  BY DEF MvccInv, MV!Next
<1>2. /\ t \in MV!Active /\ t \notin MV!Committed /\ MV!Committed' = MV!Committed
      /\ committedValue' = committedValue /\ t \in Deleter /\ mstatus[t] # "none"
  BY DEF MV!Delete, MV!CheckWritable, MV!Active, MV!Committed
<1>3. \A j \in MKey :
        /\ Len(versions'[j]) = Len(versions[j])
        /\ \A i \in 1..Len(versions[j]) :
             /\ versions'[j][i].createdBy = versions[j][i].createdBy
             /\ versions'[j][i].value = versions[j][i].value
             /\ \/ versions'[j][i].deletedBy = versions[j][i].deletedBy
                \/ j = k /\ versions'[j][i].deletedBy = t
             /\ j = k /\ MV!IsVisible(t, versions[j][i]) => versions'[j][i].deletedBy = t
  BY <1>1, DeleteEffect
<1>4. ListedInOrder'
  BY <1>1, <1>3, OrderKept DEF CommitsInv
<1>5. \A j \in MKey : \A i \in 1..Len(versions[j]) : versions[j][i].deletedBy \in {0, t}
  BY <1>2 DEF MvccInv, VersionsOwned
<1>6. MarkedAll'
  <2> SUFFICES ASSUME NEW j \in MKey, NEW m \in 1..Len(versions[j]),
                      NEW n \in 1..Len(versions[j]),
                      versions'[j][m].deletedBy # 0,
                      versions'[j][n].createdBy # versions'[j][m].deletedBy,
                      versions'[j][n].createdBy \in SeenBy(versions[j][m].deletedBy)'
               PROVE  versions'[j][n].deletedBy = versions'[j][m].deletedBy
    BY <1>3 DEF MarkedAll
  <2>1. versions'[j][m].deletedBy = t
    BY <1>3, <1>5
  <2>2. versions[j][n].createdBy \in SeenBy(t)
    <3>1. SeenBy(t)' = SeenBy(t)
      BY <1>1, <1>2, SeenFixed
    <3> QED
      BY <1>3, <2>1, <3>1
  <2>3. CASE j = k
    <3>1. MV!IsVisible(t, versions[j][n]) \/ versions[j][n].deletedBy \in SeenBy(t)
      BY <1>1, <2>2, VisibleSeen
    <3>2. versions[j][n].deletedBy \in SeenBy(t) => versions[j][n].deletedBy = t
      BY <1>5 DEF SeenBy
    <3> QED
      BY <1>3, <2>1, <2>3, <3>1, <3>2
  <2>4. CASE j # k
    <3>1. versions[j][m].deletedBy = t /\ versions[j][n].createdBy # t
      BY <1>3, <2>1, <2>4
    <3>2. versions[j][n].deletedBy = t
      BY <1>2, <2>2, <3>1 DEF CommitsInv, MarkedAll
    <3> QED
      BY <1>3, <2>1, <2>4, <3>2
  <2> QED
    BY <2>3, <2>4
<1>7. ASSUME NEW j \in MKey PROVE MV!FreshValue(j)' = MV!FreshValue(j)
  <2>1. \A i \in 1..Len(versions[j]) : MV!Live(versions[j][i])' <=> MV!Live(versions[j][i])
    <3>1. 0 \notin MV!Committed
      BY DEF MV!Committed
    <3> QED
      BY <1>2, <1>3, <1>5, <3>1 DEF MV!Live
  <2>2. LiveAt(j)' = LiveAt(j)
    BY <1>3, <2>1 DEF LiveAt
  <2> QED
    BY <1>1, <1>3, <2>2, SameFresh DEF LiveAt
<1> QED
  BY <1>2, <1>4, <1>6, <1>7 DEF CommitsInv, MV!CommittedState

(* An abort takes back marks that were not committed.                      *)
LEMMA CommitsAborts ==
  ASSUME MvccInv, MvccInv', CommitsInv, NEW t \in MV!Active, MV!Aborts(t), MV!Next
  PROVE  CommitsInv'
<1> USE TxType
<1>1. MV!TypeOK /\ MV!TypeOK' /\ t \in MV!Tx
  BY DEF MvccInv, MV!Active
<1>2. /\ t \notin MV!Committed /\ MV!Committed' = MV!Committed
      /\ committedValue' = committedValue
  BY <1>1 DEF MV!Aborts, MV!Active, MV!Committed, MV!TypeOK
<1>3. \A j \in MKey :
        /\ Len(versions'[j]) = Len(versions[j])
        /\ \A i \in 1..Len(versions[j]) :
             /\ versions'[j][i].createdBy = versions[j][i].createdBy
             /\ versions'[j][i].value = versions[j][i].value
             /\ \/ versions'[j][i].deletedBy = versions[j][i].deletedBy
                \/ versions[j][i].deletedBy = t /\ versions'[j][i].deletedBy = 0
             /\ j \in writeSet[t] => versions'[j][i].deletedBy # t
  BY <1>1, AbortEffect
<1>4. ListedInOrder'
  BY <1>3, OrderKept DEF CommitsInv
<1>5. MarkedAll'
  <2> SUFFICES ASSUME NEW j \in MKey, NEW m \in 1..Len(versions[j]),
                      NEW n \in 1..Len(versions[j]),
                      NEW d, d = versions'[j][m].deletedBy,
                      d # 0, versions[j][n].createdBy # d,
                      versions[j][n].createdBy \in SeenBy(d)'
               PROVE  versions'[j][n].deletedBy = d
    BY <1>3 DEF MarkedAll
  <2>1. d = versions[j][m].deletedBy
    BY <1>3
  <2>2. d \in MV!Tx /\ mstatus[d] # "none" /\ j \in writeSet[d]
    BY <2>1, BegunBy DEF MvccInv, VersionsOwned
  <2>3. d # t
    BY <1>3, <2>2
  <2>4. SeenBy(d)' = SeenBy(d)
    BY <2>2, SeenFixed
  <2>5. versions[j][n].deletedBy = d
    BY <2>1, <2>4 DEF CommitsInv, MarkedAll
  <2> QED
    BY <1>3, <2>3, <2>5
<1>6. ASSUME NEW j \in MKey PROVE MV!FreshValue(j)' = MV!FreshValue(j)
  <2>1. \A i \in 1..Len(versions[j]) : MV!Live(versions[j][i])' <=> MV!Live(versions[j][i])
    <3>1. 0 \notin MV!Committed
      BY DEF MV!Committed
    <3> QED
      BY <1>2, <1>3, <3>1 DEF MV!Live
  <2>2. LiveAt(j)' = LiveAt(j)
    BY <1>3, <2>1 DEF LiveAt
  <2> QED
    BY <1>1, <1>3, <2>2, SameFresh DEF LiveAt
<1> QED
  BY <1>2, <1>4, <1>5, <1>6 DEF CommitsInv, MV!CommittedState

(* A commit: without a conflict the transaction sees the committed         *)
(* versions of the keys it wrote, so what it reads of them is what the     *)
(* next transactions will read.                                            *)
LEMMA CommitsCommit ==
  ASSUME \A c, d \in Deleter : c = d, MvccInv, MvccInv', CommitsInv,
         NEW t \in MV!Tx, MV!CommitSucceeds(t)
  PROVE  CommitsInv'
<1> USE TxType
<1>1. MV!TypeOK /\ MV!TypeOK' /\ MV!Next
  BY DEF MvccInv, MV!Next
<1>2. /\ t \in MV!Active /\ t \notin MV!Committed /\ MV!Committed' = MV!Committed \cup {t}
      /\ versions' = versions /\ mstatus[t] # "none"
      /\ \A k \in MKey : committedValue'[k] = IF k \in writeSet[t] THEN MV!ReadValue(t, k)
                                                                 ELSE committedValue[k]
  BY <1>1 DEF MV!CommitSucceeds, MV!Active, MV!Committed, MV!TypeOK
<1>3. ListedInOrder'
  BY <1>1, <1>2, OrderKept DEF CommitsInv
<1>4. MarkedAll'
  BY <1>1, <1>2, MarksKept DEF CommitsInv
<1>5. ASSUME NEW k \in MKey, k \notin writeSet[t] PROVE MV!FreshValue(k)' = MV!FreshValue(k)
  <2>1. \A i \in 1..Len(versions[k]) :
          versions[k][i].createdBy # t /\ versions[k][i].deletedBy # t
    BY <1>5 DEF MvccInv, VersionsOwned
  <2>2. LiveAt(k)' = LiveAt(k)
    BY <1>2, <2>1 DEF LiveAt, MV!Live
  <2> QED
    BY <1>1, <1>2, <2>2, SameFresh
<1>6. ASSUME NEW k \in writeSet[t] PROVE MV!FreshValue(k)' = MV!ReadValue(t, k)
  <2> DEFINE Vis == {i \in 1..Len(versions[k]) : MV!IsVisible(t, versions[k][i])}
             Fresh == LiveAt(k)'
  <2>0. k \in MKey
    BY <1>1 DEF MV!TypeOK
  <2>1. /\ MV!ReadValue(t, k) = MV!LastValue(versions[k], Vis)
        /\ MV!FreshValue(k)' = MV!LastValue(versions[k], Fresh)
        /\ Vis \in SUBSET (1..Len(versions[k])) /\ Fresh \in SUBSET (1..Len(versions[k]))
        /\ Len(versions[k]) \in Nat
    <3>1. DOMAIN versions[k] = 1..Len(versions[k]) /\ Len(versions[k]) \in Nat
      BY <1>1, <2>0, VersionFields
    <3> QED
      BY <1>2, <3>1 DEF MV!ReadValue, MV!FreshValue, LiveAt
  <2>2. ~readOnly[t] /\ ~MV!Conflict(t)
    BY <1>6 DEF MvccInv, BeginsInOrder, MV!CommitSucceeds
  <2>3. \A i \in 1..Len(versions[k]) :
          /\ versions[k][i].createdBy \in MV!Tx
          /\ versions[k][i].deletedBy \in MV!Tx \cup {0}
          /\ versions[k][i].createdBy \in SeenBy(t) <=> versions[k][i].createdBy \in MV!Committed'
    <3>1. \A i \in 1..Len(versions[k]) :
            /\ versions[k][i].createdBy \in MV!Tx
            /\ versions[k][i].deletedBy \in MV!Tx \cup {0}
      BY <1>1, <2>0, VersionFields
    <3>2. \A i \in 1..Len(versions[k]) :
            \/ versions[k][i].createdBy = t \/ versions[k][i].createdBy \notin MV!Committed
            \/ /\ versions[k][i].createdBy \notin activeAtStart[t]
               /\ ~(versions[k][i].createdBy >= t)
      BY <1>1, <2>0, <2>2, VersionFields DEF MV!Conflict
    <3>3. \A a \in MV!Tx : ~(a >= t) => a < t
      OBVIOUS
    <3> QED
      BY <1>2, <3>1, <3>2, <3>3 DEF SeenBy, MV!Sees
  <2>4. \A i \in 1..Len(versions[k]) :
          /\ i \in Vis <=> /\ versions[k][i].createdBy \in MV!Committed'
                           /\ versions[k][i].deletedBy \notin SeenBy(t)
          /\ i \in Fresh <=> /\ versions[k][i].createdBy \in MV!Committed'
                             /\ versions[k][i].deletedBy \notin MV!Committed'
    <3>1. \A i \in 1..Len(versions[k]) :
            MV!IsVisible(t, versions[k][i]) <=> /\ versions[k][i].createdBy \in SeenBy(t)
                                                /\ versions[k][i].deletedBy \notin SeenBy(t)
      BY <1>1, <2>0, VisibleSeen
    <3> QED
      BY <1>2, <2>3, <3>1 DEF LiveAt, MV!Live
  <2>5. Fresh \subseteq Vis
    BY <1>2, <2>1, <2>4 DEF SeenBy, MV!Sees
  <2>6. CASE t \in Deleter
    <3>1. \A i \in 1..Len(versions[k]) : versions[k][i].deletedBy \in {0, t}
      BY <2>0, <2>6 DEF MvccInv, VersionsOwned
    <3>2. t \in SeenBy(t) /\ t \in MV!Committed' /\ 0 \notin SeenBy(t) /\ 0 \notin MV!Committed'
      BY <1>2 DEF SeenBy, MV!Sees, MV!Committed
    <3>3. Fresh = Vis
      BY <2>1, <2>4, <3>1, <3>2
    <3> QED
      BY <2>1, <3>3
  <2>7. CASE t \notin Deleter
    <3>1. PICK m \in 1..Len(versions[k]) : versions[k][m].createdBy = t
      BY <1>2, <1>6, <2>7 DEF MvccInv, WritesKept, Needed
    <3>2. \A i \in 1..Len(versions[k]) : versions[k][i].createdBy = t =>
            versions[k][i].deletedBy = 0
      <4> SUFFICES ASSUME NEW i \in 1..Len(versions[k]), versions[k][i].createdBy = t,
                          versions[k][i].deletedBy # 0
                   PROVE  FALSE
        OBVIOUS
      <4> QED
        BY <1>2, <2>0, <2>7 DEF MvccInv, VersionsOwned
    <3>3. \A i \in 1..Len(versions[k]) : versions[k][i].createdBy = t => i \in Fresh
      BY <1>2, <2>4, <3>2 DEF MV!Committed
    <3>4. \A i \in Vis : m < i => versions[k][i].createdBy = t
      <4> SUFFICES ASSUME NEW i \in Vis, m < i, versions[k][i].createdBy # t PROVE FALSE
        OBVIOUS
      <4>1. i \in 1..Len(versions[k])
        BY <2>1
      <4>2. versions[k][i].createdBy \in SeenBy(t)
        BY <2>3, <2>4, <4>1
      <4>3. versions[k][i].createdBy < t /\ versions[k][i].createdBy \notin activeAtStart[t]
        BY <4>2 DEF SeenBy, MV!Sees
      <4>4. \/ t =< versions[k][i].createdBy
            \/ versions[k][i].createdBy \in activeAtStart[t]
        BY <2>0, <3>1, <4>1 DEF CommitsInv, ListedInOrder
      <4> QED
        BY <2>3, <4>1, <4>3, <4>4
    <3>5. m \in Vis /\ IsFiniteSet(Vis) /\ Vis \in SUBSET Int
      <4>1. m \in Vis
        BY <2>5, <3>1, <3>3
      <4>2. IsFiniteSet(1..Len(versions[k]))
        BY <2>1, FS_Interval
      <4> QED
        BY <2>1, <4>1, <4>2, FS_Subset
    <3> HIDE DEF Vis, Fresh
    <3>6. PICK x1 \in Vis : \A i \in Vis : i =< x1
      BY <3>5, GreatestElement
    <3>7. x1 \in Fresh
      <4>1. x1 = m \/ m < x1
        BY <3>5, <3>6
      <4> QED
        BY <2>1, <3>1, <3>3, <3>4, <4>1
    <3>8. MV!LastValue(versions[k], Vis) = versions[k][x1].value
      BY <3>5, <3>6, LastIs
    <3>9. MV!LastValue(versions[k], Fresh) = versions[k][x1].value
      BY <2>5, <3>5, <3>6, <3>7, LastIs
    <3> QED
      BY <2>1, <3>8, <3>9
  <2> QED
    BY <2>6, <2>7
<1>7. ASSUME NEW k \in MKey PROVE MV!FreshValue(k)' = committedValue'[k]
  <2>1. MV!FreshValue(k) = committedValue[k]
    BY DEF CommitsInv, MV!CommittedState
  <2> QED
    BY <1>2, <1>5, <1>6, <2>1
<1> QED
  BY <1>3, <1>4, <1>7 DEF CommitsInv, MV!CommittedState

(* The last live version of a key is not superseded: a committed version   *)
(* of a later transaction is listed after it and deleted, and whoever      *)
(* deleted that one would have deleted it as well.                         *)
LEMMA LastLiveStays ==
  ASSUME MvccInv, CommitsInv, NEW k \in MKey, NEW m \in LiveAt(k),
         \A i \in LiveAt(k) : i =< m, NEW i \in 1..Len(versions[k])
  PROVE  ~MV!Superseded(<<versions[k][i]>>, versions[k][m])
<1> USE TxType
<1> DEFINE a == versions[k][m].createdBy
           b == versions[k][i].createdBy
           d == versions[k][i].deletedBy
<1> SUFFICES ASSUME MV!Superseded(<<versions[k][i]>>, versions[k][m]) PROVE FALSE
  OBVIOUS
<1>1. /\ MV!TypeOK /\ m \in 1..Len(versions[k]) /\ m \in Int /\ i \in Int
      /\ a \in MV!Committed /\ versions[k][m].deletedBy \notin MV!Committed
  <2>1. MV!TypeOK /\ m \in 1..Len(versions[k]) /\ MV!Live(versions[k][m])
    BY DEF MvccInv, LiveAt
  <2>2. Len(versions[k]) \in Nat
    BY <2>1, VersionFields
  <2> QED
    BY <2>1, <2>2 DEF MV!Live
<1>2. a \in MV!Tx /\ b \in MV!Tx /\ d \in MV!Tx \cup {0}
  BY <1>1, VersionFields
<1>3. b \in MV!Committed /\ a < b
  <2>1. \A w : DOMAIN <<w>> = {1} /\ <<w>>[1] = w
    OBVIOUS
  <2>2. MV!Old(b) /\ b > a
    BY <1>1, <2>1 DEF MV!Superseded, MV!Old
  <2> QED
    BY <1>2, <2>2 DEF MV!Old
<1>4. a \notin activeAtStart[b]
  BY <1>1, <1>3 DEF MvccInv, CreatorsApart
<1>5. m < i
  <2>1. ~(i < m)
    <3> SUFFICES ASSUME i < m PROVE FALSE
      OBVIOUS
    <3>1. b =< a \/ a \in activeAtStart[b]
      BY <1>1 DEF CommitsInv, ListedInOrder
    <3> QED
      BY <1>2, <1>3, <1>4, <3>1
  <2>2. i # m
    BY <1>2, <1>3
  <2> QED
    BY <1>1, <2>1, <2>2
<1>6. d \in MV!Committed
  <2>1. i \notin LiveAt(k)
    BY <1>1, <1>5
  <2> QED
    BY <1>3, <2>1 DEF LiveAt, MV!Live
<1>7. d \in MV!Tx /\ d # 0
  BY <1>6 DEF MV!Committed
<1>8. d = b \/ (b < d /\ b \notin activeAtStart[d])
  BY <1>7 DEF MvccInv, VersionsOwned
<1>9. a < d /\ a \notin activeAtStart[d]
  <2>1. CASE d = b
    BY <1>3, <1>4, <2>1
  <2>2. CASE b < d
    <3>1. a < d
      BY <1>2, <1>3, <1>7, <2>2
    <3>2. a \in activeAtStart[d] => a \in activeAtStart[b]
      BY <1>2, <1>3, <1>7, <2>2 DEF MvccInv, Overlaps
    <3> QED
      BY <1>4, <3>1, <3>2
  <2> QED
    BY <1>8, <2>1, <2>2
<1>10. a \in SeenBy(d) /\ a # d
  BY <1>1, <1>2, <1>7, <1>9 DEF SeenBy, MV!Sees
<1>11. versions[k][m].deletedBy = d
  BY <1>1, <1>7, <1>10 DEF CommitsInv, MarkedAll
<1> QED
  BY <1>1, <1>6, <1>11

LEMMA CommitsCollect ==
  ASSUME MvccInv, MvccInv', CommitsInv, MV!GarbageCollect
  PROVE  CommitsInv'
<1> USE TxType
<1>1. MV!TypeOK /\ MV!TypeOK'
  BY DEF MvccInv
<1>2. mstatus' = mstatus /\ activeAtStart' = activeAtStart /\ committedValue' = committedValue
  BY DEF MV!GarbageCollect, MV!txVars
<1>3. ASSUME NEW k \in MKey
      PROVE  /\ \A i, j \in 1..Len(versions'[k]) :
                  i < j => \/ versions'[k][i].createdBy =< versions'[k][j].createdBy
                           \/ versions'[k][j].createdBy
                                \in activeAtStart[versions'[k][i].createdBy]
             /\ \A i, j \in 1..Len(versions'[k]) :
                  /\ versions'[k][i].deletedBy # 0
                  /\ versions'[k][j].createdBy # versions'[k][i].deletedBy
                  /\ versions'[k][j].createdBy \in SeenBy(versions[k][i].deletedBy)'
                  => versions'[k][j].deletedBy = versions'[k][i].deletedBy
             /\ MV!FreshValue(k)' = MV!FreshValue(k)
  <2>1. PICK h \in [1..Len(versions'[k]) -> 1..Len(versions[k])] :
          /\ \A n \in 1..Len(versions'[k]) : versions'[k][n] = versions[k][h[n]]
          /\ \A n, m \in 1..Len(versions'[k]) : n < m => h[n] < h[m]
          /\ \A m \in LiveAt(k) :
               /\ \A i \in LiveAt(k) : i =< m
               /\ \/ MV!Active = {}
                  \/ \A i \in 1..Len(versions[k]) :
                       ~MV!Superseded(<<versions[k][i]>>, versions[k][m])
               => \E n \in 1..Len(versions'[k]) : h[n] = m
    BY <1>1, CollectOrder
  <2>2. \A i, j \in 1..Len(versions'[k]) :
          i < j => \/ versions'[k][i].createdBy =< versions'[k][j].createdBy
                   \/ versions'[k][j].createdBy \in activeAtStart[versions'[k][i].createdBy]
    <3> SUFFICES ASSUME NEW i \in 1..Len(versions'[k]), NEW j \in 1..Len(versions'[k]), i < j
                 PROVE  \/ versions'[k][i].createdBy =< versions'[k][j].createdBy
                        \/ versions'[k][j].createdBy
                             \in activeAtStart[versions'[k][i].createdBy]
      OBVIOUS
    <3>1. /\ h[i] \in 1..Len(versions[k]) /\ h[j] \in 1..Len(versions[k]) /\ h[i] < h[j]
          /\ versions'[k][i] = versions[k][h[i]] /\ versions'[k][j] = versions[k][h[j]]
      BY <2>1
    <3>2. \/ versions[k][h[i]].createdBy =< versions[k][h[j]].createdBy
          \/ versions[k][h[j]].createdBy \in activeAtStart[versions[k][h[i]].createdBy]
      BY <3>1 DEF CommitsInv, ListedInOrder
    <3> QED
      BY <3>1, <3>2
  <2>3. ASSUME NEW i \in 1..Len(versions'[k]), NEW j \in 1..Len(versions'[k]),
               versions'[k][i].deletedBy # 0,
               versions'[k][j].createdBy # versions'[k][i].deletedBy,
               versions'[k][j].createdBy \in SeenBy(versions[k][i].deletedBy)'
        PROVE  versions'[k][j].deletedBy = versions'[k][i].deletedBy
    <3>1. /\ h[i] \in 1..Len(versions[k]) /\ h[j] \in 1..Len(versions[k])
          /\ versions'[k][i] = versions[k][h[i]] /\ versions'[k][j] = versions[k][h[j]]
      BY <2>1
    <3>2. versions'[k][j].createdBy \in SeenBy(versions[k][h[i]].deletedBy)
      BY <1>2, <2>3, <3>1 DEF SeenBy, MV!Sees, MV!Committed
    <3>3. /\ versions[k][h[i]].deletedBy # 0
          /\ versions[k][h[j]].createdBy # versions[k][h[i]].deletedBy
          /\ versions[k][h[j]].createdBy \in SeenBy(versions[k][h[i]].deletedBy)
      BY <2>3, <3>1, <3>2
    <3>4. versions[k][h[j]].deletedBy = versions[k][h[i]].deletedBy
      BY <3>1, <3>3 DEF CommitsInv, MarkedAll
    <3> QED
      BY <3>1, <3>4
  <2>4. \A n \in 1..Len(versions'[k]) : n \in LiveAt(k)' <=> h[n] \in LiveAt(k)
    BY <1>2, <2>1 DEF LiveAt, MV!Live, MV!Committed
  <2>5. MV!FreshValue(k)' = MV!FreshValue(k)
    <3>1. /\ MV!FreshValue(k) = MV!LastValue(versions[k], LiveAt(k))
          /\ LiveAt(k) \in SUBSET (1..Len(versions[k]))
      BY <1>1, FreshLive
    <3>2. /\ MV!FreshValue(k)' = MV!LastValue(versions'[k], LiveAt(k)')
          /\ LiveAt(k)' \in SUBSET (1..Len(versions'[k]))
          /\ Len(versions'[k]) \in Nat /\ Len(versions[k]) \in Nat
      <4>1. /\ DOMAIN versions'[k] = 1..Len(versions'[k])
            /\ Len(versions'[k]) \in Nat /\ Len(versions[k]) \in Nat
        BY <1>1, LenProperties DEF MV!TypeOK
      <4>2. LiveAt(k)' = {n \in DOMAIN versions'[k] : MV!Live(versions[k][n])'}
        BY <4>1 DEF LiveAt
      <4>3. LiveAt(k)' \in SUBSET (1..Len(versions'[k]))
        BY DEF LiveAt
      <4> QED
        BY <4>1, <4>2, <4>3 DEF MV!FreshValue
    <3>3. LiveAt(k) \in SUBSET Int /\ LiveAt(k)' \in SUBSET Int /\ IsFiniteSet(LiveAt(k))
      <4>1. 1 \in Int /\ Len(versions[k]) \in Int
        BY <3>2
      <4>2. IsFiniteSet(1..Len(versions[k]))
        BY <4>1, FS_Interval
      <4>3. IsFiniteSet(LiveAt(k))
        BY <3>1, <4>2, FS_Subset
      <4> QED
        BY <3>1, <3>2, <4>3
    <3>4. CASE LiveAt(k) = {}
      <4>1. LiveAt(k)' = {}
        BY <2>4, <3>2, <3>4
      <4> QED
        BY <3>1, <3>2, <3>4, <4>1 DEF MV!LastValue
    <3>5. CASE LiveAt(k) # {}
      <4>1. PICK m \in LiveAt(k) : \A i \in LiveAt(k) : i =< m
        BY <3>3, <3>5, GreatestElement
      <4>2. \A i \in 1..Len(versions[k]) :
              ~MV!Superseded(<<versions[k][i]>>, versions[k][m])
        BY <4>1, LastLiveStays
      <4>3. PICK n \in 1..Len(versions'[k]) : h[n] = m
        BY <2>1, <4>1, <4>2
      <4>4. n \in LiveAt(k)' /\ versions'[k][n] = versions[k][m]
        BY <2>1, <2>4, <4>3
      <4>5. \A p \in LiveAt(k)' : p =< n
        <5> SUFFICES ASSUME NEW p \in LiveAt(k)', ~(p =< n) PROVE FALSE
          OBVIOUS
        <5>1. p \in 1..Len(versions'[k]) /\ n < p
          BY <3>2, <3>3
        <5>2. h[p] \in LiveAt(k) /\ m < h[p]
          BY <2>1, <2>4, <4>3, <5>1
        <5> QED
          BY <3>3, <4>1, <5>2
      <4>6. MV!LastValue(versions[k], LiveAt(k)) = versions[k][m].value
        BY <3>3, <4>1, LastIs
      <4>7. MV!LastValue(versions'[k], LiveAt(k)') = versions'[k][n].value
        <5> DEFINE J == LiveAt(k)'
        <5>1. J \in SUBSET Int /\ n \in J /\ \A p \in J : p =< n
          BY <3>3, <4>4, <4>5
        <5> HIDE DEF J
        <5>2. MV!LastValue(versions'[k], J) = versions'[k][n].value
          BY <5>1, LastIs
        <5> QED
          BY <5>2 DEF J
      <4> QED
        BY <3>1, <3>2, <4>4, <4>6, <4>7
    <3> QED
      BY <3>4, <3>5
  <2> QED
    BY <2>2, <2>3, <2>5
<1>4. ListedInOrder'
  BY <1>2, <1>3 DEF ListedInOrder
<1>5. MarkedAll'
  BY <1>3 DEF MarkedAll
<1>6. MV!CommittedState'
  BY <1>2, <1>3 DEF CommitsInv, MV!CommittedState
<1> QED
  BY <1>4, <1>5, <1>6 DEF CommitsInv

LEMMA CommitsStep ==
  ASSUME \A c, d \in Deleter : c = d
  PROVE  MvccInv /\ MvccInv' /\ CommitsInv /\ [IsolationNext]_isolationVars => CommitsInv'
<1> SUFFICES ASSUME MvccInv, MvccInv', CommitsInv, [IsolationNext]_isolationVars
             PROVE  CommitsInv'
  OBVIOUS
<1>1. CASE UNCHANGED mvccVars
  <2>1. UNCHANGED <<versions, mstatus, activeAtStart, committedValue>>
    BY <1>1 DEF mvccVars
  <2>2. ListedInOrder'
    BY <2>1 DEF CommitsInv, ListedInOrder
  <2>3. \A d \in MV!Tx : SeenBy(d)' = SeenBy(d)
    BY <2>1 DEF SeenBy, MV!Sees, MV!Committed
  <2>4. MarkedAll'
    <3>1. \A k \in MKey : \A i \in 1..Len(versions[k]) :
            versions[k][i].deletedBy # 0 => versions[k][i].deletedBy \in MV!Tx
      BY BegunBy
    <3> QED
      BY <2>1, <2>3, <3>1 DEF CommitsInv, MarkedAll
  <2>5. MV!CommittedState'
    BY <2>1 DEF CommitsInv, MV!CommittedState, MV!FreshValue, MV!Live, MV!Committed
  <2> QED
    BY <2>2, <2>4, <2>5 DEF CommitsInv
<1>2. CASE MV!Next
  <2>1. ASSUME NEW t \in MV!Tx, MV!CommitFails(t) \/ MV!Abort(t) PROVE CommitsInv'
    BY <1>2, <2>1, CommitsAborts DEF MV!CommitFails, MV!Abort
  <2> QED
    BY <1>2, <2>1, CommitsBegin, CommitsWrite, CommitsDelete, CommitsCommit, CommitsCollect
       DEF MV!Next
<1> QED
  BY <1>1, <1>2 DEF IsolationNext, isolationVars

(* snapshot-isolation: a transaction that begins reads of every key what   *)
(* the commits so far made of it, whatever ran concurrently and whatever   *)
(* garbage was collected in between, if at most one transaction deletes.   *)
THEOREM CommitsAreRead ==
  ASSUME \A c, d \in Deleter : c = d
  PROVE  IsolationSpec => []CommitsInOrder
<1>1. IsolationInit => CommitsInv
  <2> SUFFICES ASSUME IsolationInit PROVE CommitsInv
    OBVIOUS
  <2>1. MV!Init
    BY DEF IsolationInit
  <2>2. \A k \in MKey : versions[k] = <<>> /\ committedValue[k] = None
    BY <2>1 DEF MV!Init
  <2>3. \A k \in MKey : 1..Len(versions[k]) = {} /\ DOMAIN versions[k] = {}
    BY <2>2
  <2>4. ListedInOrder /\ MarkedAll
    BY <2>3 DEF ListedInOrder, MarkedAll
  <2>5. MV!CommittedState
    BY <2>2, <2>3 DEF MV!CommittedState, MV!FreshValue, MV!LastValue
  <2> QED
    BY <2>4, <2>5 DEF CommitsInv
<1>2. CommitsInv => CommitsInOrder
  BY DEF CommitsInv, CommitsInOrder
<1>3. MvccInv /\ MvccInv' /\ CommitsInv /\ [IsolationNext]_isolationVars => CommitsInv'
  BY CommitsStep
<1> QED
  BY <1>1, <1>2, <1>3, MvccAlways, PTL DEF IsolationSpec
=============================================================================
