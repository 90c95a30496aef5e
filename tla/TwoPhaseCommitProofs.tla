------------------------ MODULE TwoPhaseCommitProofs ------------------------
(***************************************************************************)
(* Type correctness, atomicity and locks of two-phase commit, and that it  *)
(* implements AtomicCommit, for any number of participants, keys and       *)
(* transactions.                                                           *)
(***************************************************************************)
EXTENDS TwoPhaseCommit, TLAPS

LEMMA TxFacts == None \notin Tx /\ Tx \subseteq Nat
BY MaxTxAssumption DEF Tx, None

LEMMA TypeInit == Init => TypeOK
BY DEF Init, TypeOK, NoOp, OpKind

(* A decision on t keeps the participants well typed. *)
LEMMA DecideType ==
  ASSUME TypeOK, NEW t \in Tx, NEW S \in SUBSET Participant,
         NEW d \in {"committed", "aborted"}, Decide(t, S, d)
  PROVE  /\ partLog' \in [Participant -> [Tx -> {"none", "prepared", "committed", "aborted"}]]
         /\ pending' \in [Participant -> SUBSET Tx]
         /\ locks' \in [Participant -> [Key -> Tx \cup {None}]]
         /\ store' \in [Participant -> [Key -> Tx \cup {None}]]
<1>1. partLog' \in [Participant -> [Tx -> {"none", "prepared", "committed", "aborted"}]]
  BY DEF Decide, TypeOK
<1>2. pending' \in [Participant -> SUBSET Tx]
  BY DEF Decide, TypeOK
<1>3. \A p \in Participant : LocksAfterCommit(t, p) \in [Key -> Tx \cup {None}]
                             /\ LocksAfterAbort(t, p) \in [Key -> Tx \cup {None}]
  BY DEF LocksAfterCommit, LocksAfterAbort, TypeOK
<1>4. locks' \in [Participant -> [Key -> Tx \cup {None}]]
  BY <1>3 DEF Decide, TypeOK
<1>5. \A p \in Participant : StoreAfterCommit(t, p) \in [Key -> Tx \cup {None}]
  BY DEF StoreAfterCommit, TypeOK
<1>6. store' \in [Participant -> [Key -> Tx \cup {None}]]
  BY <1>5 DEF Decide, TypeOK
<1> QED
  BY <1>1, <1>2, <1>4, <1>6

LEMMA TypeStep == TypeOK /\ [Next]_vars => TypeOK'
<1> SUFFICES ASSUME TypeOK, [Next]_vars PROVE TypeOK'
  OBVIOUS
<1> USE TxFacts
<1>1. ASSUME NEW t \in Tx, BeginTransaction(t) PROVE TypeOK'
  BY <1>1 DEF BeginTransaction, TypeOK, partVars
<1>2. ASSUME NEW t \in Tx, NEW o \in Workload, Execute(t, o) PROVE TypeOK'
  <2>1. DOMAIN o \in SUBSET Participant /\ \A p \in DOMAIN o : o[p] \in [Key -> OpKind]
    BY DEF Workload
  <2>2. NoOp \in [Key -> OpKind]
    BY DEF NoOp, OpKind
  <2>3. [p \in Participant |-> IF p \in DOMAIN o THEN o[p] ELSE NoOp]
          \in [Participant -> [Key -> OpKind]]
    BY <2>1, <2>2
  <2>4. ops' \in [Tx -> [Participant -> [Key -> OpKind]]]
    BY <1>2, <2>3 DEF Execute, TypeOK
  <2> QED
    BY <1>2, <2>1, <2>4 DEF Execute, TypeOK, partVars
<1>3. ASSUME NEW p \in Participant, PrepareUnavailable(p) PROVE TypeOK'
  BY <1>3 DEF PrepareUnavailable, TypeOK, partVars
<1>4. ASSUME NEW p \in Participant, PrepareNo(p) PROVE TypeOK'
  BY <1>4 DEF PrepareNo, TypeOK
<1>5. ASSUME NEW p \in Participant, PrepareYes(p) PROVE TypeOK'
  <2>1. running \in Tx
    BY <1>5 DEF PrepareYes, TypeOK
  <2>2. [k \in Key |-> IF k \in OpKeys(running, p) THEN running ELSE locks[p][k]]
          \in [Key -> Tx \cup {None}]
    BY <2>1 DEF TypeOK
  <2>3. locks' \in [Participant -> [Key -> Tx \cup {None}]]
    BY <1>5, <2>2 DEF PrepareYes, TypeOK
  <2>4. pending' \in [Participant -> SUBSET Tx]
    BY <1>5, <2>1 DEF PrepareYes, TypeOK
  <2> QED
    BY <1>5, <2>3, <2>4 DEF PrepareYes, TypeOK
<1>6. CASE LogDecision
  BY <1>6 DEF LogDecision, TypeOK, partVars
<1>7. ASSUME NEW p \in Participant, SendDecision(p) PROVE TypeOK'
  <2>1. running \in Tx /\ {p} \cap up \in SUBSET Participant
        /\ Decision(running) \in {"committed", "aborted"}
    BY <1>7 DEF SendDecision, TypeOK, Decision
  <2>2. Decide(running, {p} \cap up, Decision(running))
    BY <1>7 DEF SendDecision
  <2> QED
    BY <1>7, <2>1, <2>2, DecideType DEF SendDecision, TypeOK
<1>8. CASE Finish
  BY <1>8 DEF Finish, TypeOK, partVars, Decision
<1>9. CASE Crash
  BY <1>9 DEF Crash, TypeOK, partVars
<1>10. ASSUME NEW t \in Tx, Recover(t) PROVE TypeOK'
  <2>1. InDoubt(t) \in SUBSET Participant /\ Decision(t) \in {"committed", "aborted"}
    BY DEF InDoubt, TypeOK, Decision
  <2>2. Decide(t, InDoubt(t), Decision(t))
    BY <1>10 DEF Recover
  <2> QED
    BY <1>10, <2>1, <2>2, DecideType DEF Recover, TypeOK
<1>11. ASSUME NEW p \in Participant, SetAvailable(p) PROVE TypeOK'
  BY <1>11 DEF SetAvailable, TypeOK, partVars
<1>12. CASE SetCoordinatorAvailable
  BY <1>12 DEF SetCoordinatorAvailable, TypeOK, partVars
<1>13. CASE UNCHANGED vars
  BY <1>13 DEF vars, TypeOK
<1> QED
  BY <1>1, <1>2, <1>3, <1>4, <1>5, <1>6, <1>7, <1>8, <1>9, <1>10, <1>11, <1>12, <1>13
  DEF Next

\* Every reachable state of coordinator and participants is well typed.
THEOREM TypeCorrect == Spec => []TypeOK
<1>1. Init => TypeOK
  BY TypeInit
<1>2. TypeOK /\ [Next]_vars => TypeOK'
  BY TypeStep
<1> QED
  BY <1>1, <1>2, PTL DEF Spec

-----------------------------------------------------------------------------
LEMMA DecisionInit == Init => DecisionFirst
BY TxFacts DEF Init, DecisionFirst, LogsAgree

(* What Decide does to the log of a participant. *)
LEMMA DecideLog ==
  ASSUME TypeOK, NEW t \in Tx, NEW S \in SUBSET Participant, NEW d,
         Decide(t, S, d)
  PROVE  \A u \in Tx, p \in Participant :
           partLog'[p][u] = IF u = t /\ p \in S THEN d ELSE partLog[p][u]
BY DEF Decide, TypeOK

LEMMA DecisionStep == TypeOK /\ DecisionFirst /\ [Next]_vars => DecisionFirst'
<1> SUFFICES ASSUME TypeOK, DecisionFirst, [Next]_vars PROVE DecisionFirst'
  OBVIOUS
<1> USE TxFacts
<1>1. ASSUME NEW t \in Tx, BeginTransaction(t) PROVE DecisionFirst'
  BY <1>1 DEF BeginTransaction, TypeOK, partVars, DecisionFirst, LogsAgree
<1>2. ASSUME NEW t \in Tx, NEW o \in Workload, Execute(t, o) PROVE DecisionFirst'
  BY <1>2 DEF Execute, TypeOK, partVars, DecisionFirst, LogsAgree
<1>3. ASSUME NEW p \in Participant, PrepareUnavailable(p) PROVE DecisionFirst'
  BY <1>3 DEF PrepareUnavailable, TypeOK, partVars, DecisionFirst, LogsAgree
<1>4. ASSUME NEW p \in Participant, PrepareNo(p) PROVE DecisionFirst'
  <2>1. running \in Tx /\ coordLog[running] = "preparing"
    BY <1>4 DEF PrepareNo, TypeOK
  <2>2. \A u \in Tx, q \in Participant :
          partLog'[q][u] = IF u = running /\ q = p THEN "aborted" ELSE partLog[q][u]
    BY <1>4, <2>1 DEF PrepareNo, TypeOK
  <2>3. /\ UNCHANGED <<coordLog, involved, running>> /\ todo' \subseteq todo
        /\ \A q \in Participant : votes'[q] = IF q = p THEN "no" ELSE votes[q]
        /\ p \in involved[running]
    BY <1>4 DEF PrepareNo, TypeOK, DecisionFirst
  <2> SUFFICES ASSUME NEW u \in Tx, NEW q \in Participant PROVE LogsAgree(u, q)'
    BY <2>3 DEF DecisionFirst
  <2>4. LogsAgree(u, q)
    BY DEF DecisionFirst
  <2> QED
    BY <2>1, <2>2, <2>3, <2>4 DEF LogsAgree
<1>5. ASSUME NEW p \in Participant, PrepareYes(p) PROVE DecisionFirst'
  <2>1. running \in Tx /\ coordLog[running] = "preparing"
    BY <1>5 DEF PrepareYes, TypeOK
  <2>2. \A u \in Tx, q \in Participant :
          partLog'[q][u] = IF u = running /\ q = p THEN "prepared" ELSE partLog[q][u]
    BY <1>5, <2>1 DEF PrepareYes, TypeOK
  <2>3. /\ UNCHANGED <<coordLog, involved, running>> /\ todo' \subseteq todo
        /\ \A q \in Participant : q # p => votes'[q] = votes[q]
    BY <1>5 DEF PrepareYes, TypeOK
  <2> SUFFICES ASSUME NEW u \in Tx, NEW q \in Participant PROVE LogsAgree(u, q)'
    BY <2>3 DEF DecisionFirst
  <2>4. LogsAgree(u, q)
    BY DEF DecisionFirst
  <2> QED
    BY <2>1, <2>2, <2>3, <2>4 DEF LogsAgree
<1>6. CASE LogDecision
  BY <1>6 DEF LogDecision, AllYes, TypeOK, partVars, DecisionFirst, LogsAgree
<1>7. ASSUME NEW p \in Participant, SendDecision(p) PROVE DecisionFirst'
  <2>1. running \in Tx /\ coordLog[running] \in {"committing", "aborting"}
    BY <1>7 DEF SendDecision, TypeOK
  <2> DEFINE S == {p} \cap up
  <2>2. \A u \in Tx, q \in Participant :
          partLog'[q][u] = IF u = running /\ q \in S
                           THEN Decision(running) ELSE partLog[q][u]
    BY <1>7, <2>1 DEF SendDecision, Decide, TypeOK
  <2>3. UNCHANGED <<coordLog, involved, running, votes>> /\ todo' \subseteq todo
    BY <1>7 DEF SendDecision
  <2> SUFFICES ASSUME NEW u \in Tx, NEW q \in Participant PROVE LogsAgree(u, q)'
    BY <2>3 DEF DecisionFirst
  <2>4. LogsAgree(u, q)
    BY DEF DecisionFirst
  <2> QED
    BY <2>1, <2>2, <2>3, <2>4 DEF LogsAgree, Decision
<1>8. CASE Finish
  BY <1>8 DEF Finish, TypeOK, partVars, Decision, DecisionFirst, LogsAgree
<1>9. CASE Crash
  BY <1>9 DEF Crash, TypeOK, partVars, DecisionFirst, LogsAgree
<1>10. ASSUME NEW t \in Tx, Recover(t) PROVE DecisionFirst'
  <2>1. coordLog[t] \in {"committing", "aborting"} /\ InDoubt(t) \in SUBSET Participant
    BY <1>10 DEF Recover, InDoubt, TypeOK
  <2>2. \A u \in Tx, q \in Participant :
          partLog'[q][u] = IF u = t /\ q \in InDoubt(t) THEN Decision(t) ELSE partLog[q][u]
    BY <1>10, <2>1, DecideLog DEF Recover
  <2>3. /\ UNCHANGED <<involved, running, votes, todo>>
        /\ \A u \in Tx : coordLog'[u] = IF u = t THEN Decision(t) ELSE coordLog[u]
    BY <1>10 DEF Recover, TypeOK
  <2> SUFFICES ASSUME NEW u \in Tx, NEW q \in Participant PROVE LogsAgree(u, q)'
    BY <2>3 DEF DecisionFirst
  <2>4. LogsAgree(u, q)
    BY DEF DecisionFirst
  <2> QED
    BY <2>1, <2>2, <2>3, <2>4 DEF LogsAgree, Decision
<1>11. ASSUME NEW p \in Participant, SetAvailable(p) PROVE DecisionFirst'
  BY <1>11 DEF SetAvailable, TypeOK, partVars, DecisionFirst, LogsAgree
<1>12. CASE SetCoordinatorAvailable
  BY <1>12 DEF SetCoordinatorAvailable, TypeOK, partVars, DecisionFirst, LogsAgree
<1>13. CASE UNCHANGED vars
  BY <1>13 DEF vars, DecisionFirst, LogsAgree
<1> QED
  BY <1>1, <1>2, <1>3, <1>4, <1>5, <1>6, <1>7, <1>8, <1>9, <1>10, <1>11, <1>12, <1>13
  DEF Next

\* No participant commits a transaction that another one aborts, for any
\* number of participants and with crashes of the coordinator anywhere.
THEOREM Atomic == Spec => []Atomicity
<1>1. Init => DecisionFirst
  BY DecisionInit
<1>2. TypeOK /\ DecisionFirst /\ [Next]_vars => DecisionFirst'
  BY DecisionStep
<1>3. DecisionFirst => Atomicity
  BY DEF DecisionFirst, LogsAgree, Atomicity
<1> QED
  BY <1>1, <1>2, <1>3, TypeCorrect, PTL DEF Spec

-----------------------------------------------------------------------------
LEMMA PhaseOneInit == Init => PhaseOne
BY TxFacts DEF Init, PhaseOne

LEMMA PhaseOneStep == TypeOK /\ DecisionFirst /\ PhaseOne /\ [Next]_vars => PhaseOne'
<1> SUFFICES ASSUME TypeOK, DecisionFirst, PhaseOne, [Next]_vars PROVE PhaseOne'
  OBVIOUS
<1> USE TxFacts
<1>1. ASSUME NEW t \in Tx, BeginTransaction(t) PROVE PhaseOne'
  BY <1>1 DEF BeginTransaction, TypeOK, partVars, PhaseOne
<1>2. ASSUME NEW t \in Tx, NEW o \in Workload, Execute(t, o) PROVE PhaseOne'
  <2>1. DOMAIN o \in SUBSET Participant
    BY DEF Workload
  <2>2. \A p \in Participant : partLog[p][t] = "none"
    BY <1>2 DEF Execute, DecisionFirst, LogsAgree
  <2> QED
    BY <1>2, <2>1, <2>2 DEF Execute, TypeOK, partVars, PhaseOne
<1>3. ASSUME NEW p \in Participant, PrepareUnavailable(p) PROVE PhaseOne'
  BY <1>3 DEF PrepareUnavailable, TypeOK, partVars, PhaseOne
<1>4. ASSUME NEW p \in Participant, PrepareNo(p) PROVE PhaseOne'
  <2>1. running \in Tx /\ coordLog[running] = "preparing"
    BY <1>4 DEF PrepareNo, TypeOK
  <2>2. \A u \in Tx, q \in Participant :
          partLog'[q][u] = IF u = running /\ q = p THEN "aborted" ELSE partLog[q][u]
    BY <1>4, <2>1 DEF PrepareNo, TypeOK
  <2>3. /\ UNCHANGED <<coordLog, involved, running>> /\ todo' = todo \ {p}
        /\ \A q \in Participant : votes'[q] = IF q = p THEN "no" ELSE votes[q]
    BY <1>4 DEF PrepareNo, TypeOK
  <2>4. ASSUME NEW q \in involved[running]
        PROVE  IF q \in todo' THEN partLog'[q][running] = "none"
               ELSE votes'[q] = "yes" => partLog'[q][running] = "prepared"
    BY <2>1, <2>2, <2>3 DEF PhaseOne, TypeOK
  <2>5. ASSUME NEW u \in Tx, coordLog[u] \in {"committing", "committed"},
               NEW q \in involved[u]
        PROVE  partLog'[q][u] \in {"prepared", "committed"}
    BY <2>1, <2>2, <2>5 DEF PhaseOne, TypeOK
  <2> QED
    BY <2>1, <2>3, <2>4, <2>5 DEF PhaseOne
<1>5. ASSUME NEW p \in Participant, PrepareYes(p) PROVE PhaseOne'
  <2>1. running \in Tx /\ coordLog[running] = "preparing"
    BY <1>5 DEF PrepareYes, TypeOK
  <2>2. \A u \in Tx, q \in Participant :
          partLog'[q][u] = IF u = running /\ q = p THEN "prepared" ELSE partLog[q][u]
    BY <1>5, <2>1 DEF PrepareYes, TypeOK
  <2>3. /\ UNCHANGED <<coordLog, involved, running>> /\ todo' = todo \ {p}
        /\ \A q \in Participant : votes'[q] = IF q = p THEN "yes" ELSE votes[q]
    BY <1>5 DEF PrepareYes, TypeOK
  <2>4. ASSUME NEW q \in involved[running]
        PROVE  IF q \in todo' THEN partLog'[q][running] = "none"
               ELSE votes'[q] = "yes" => partLog'[q][running] = "prepared"
    BY <2>1, <2>2, <2>3 DEF PhaseOne, TypeOK
  <2>5. ASSUME NEW u \in Tx, coordLog[u] \in {"committing", "committed"},
               NEW q \in involved[u]
        PROVE  partLog'[q][u] \in {"prepared", "committed"}
    BY <2>1, <2>2, <2>5 DEF PhaseOne, TypeOK
  <2> QED
    BY <2>1, <2>3, <2>4, <2>5 DEF PhaseOne
<1>6. CASE LogDecision
  BY <1>6 DEF LogDecision, AllYes, TypeOK, partVars, PhaseOne
<1>7. ASSUME NEW p \in Participant, SendDecision(p) PROVE PhaseOne'
  <2>1. running \in Tx /\ coordLog[running] \in {"committing", "aborting"}
    BY <1>7 DEF SendDecision, TypeOK
  <2>2. \A u \in Tx, q \in Participant :
          partLog'[q][u] = IF u = running /\ q \in {p} \cap up
                           THEN Decision(running) ELSE partLog[q][u]
    BY <1>7, <2>1 DEF SendDecision, Decide, TypeOK
  <2>3. UNCHANGED <<coordLog, involved, running, votes>>
    BY <1>7 DEF SendDecision
  <2> QED
    BY <2>1, <2>2, <2>3 DEF PhaseOne, Decision, TypeOK
<1>8. CASE Finish
  BY <1>8 DEF Finish, TypeOK, partVars, Decision, PhaseOne
<1>9. CASE Crash
  BY <1>9 DEF Crash, TypeOK, partVars, PhaseOne
<1>10. ASSUME NEW t \in Tx, Recover(t) PROVE PhaseOne'
  <2>1. coordLog[t] \in {"committing", "aborting"} /\ InDoubt(t) \in SUBSET Participant
    BY <1>10 DEF Recover, InDoubt, TypeOK
  <2>2. \A u \in Tx, q \in Participant :
          partLog'[q][u] = IF u = t /\ q \in InDoubt(t) THEN Decision(t) ELSE partLog[q][u]
    BY <1>10, <2>1, DecideLog DEF Recover
  <2>3. /\ UNCHANGED <<involved, running, votes, todo>> /\ running = None
        /\ \A u \in Tx : coordLog'[u] = IF u = t THEN Decision(t) ELSE coordLog[u]
    BY <1>10 DEF Recover, TypeOK
  <2>4. Decision(t) = IF coordLog[t] = "committing" THEN "committed" ELSE "aborted"
    BY <2>1 DEF Decision
  <2>5. ASSUME NEW u \in Tx, coordLog'[u] \in {"committing", "committed"},
               NEW q \in involved[u]
        PROVE  partLog'[q][u] \in {"prepared", "committed"}
    <3>1. q \in Participant /\ coordLog[u] \in {"committing", "committed"}
      BY <2>1, <2>3, <2>4, <2>5 DEF TypeOK
    <3>2. partLog[q][u] \in {"prepared", "committed"}
      BY <3>1 DEF PhaseOne
    <3> QED
      BY <2>2, <2>3, <2>4, <2>5, <3>1, <3>2
  <2>6. ASSUME NEW u \in Tx, coordLog'[u] \in {"none", "initiated"} PROVE involved[u] = {}
    BY <2>3, <2>4, <2>6 DEF PhaseOne
  <2> QED
    BY <2>3, <2>5, <2>6 DEF PhaseOne
<1>11. ASSUME NEW p \in Participant, SetAvailable(p) PROVE PhaseOne'
  BY <1>11 DEF SetAvailable, TypeOK, partVars, PhaseOne
<1>12. CASE SetCoordinatorAvailable
  BY <1>12 DEF SetCoordinatorAvailable, TypeOK, partVars, PhaseOne
<1>13. CASE UNCHANGED vars
  BY <1>13 DEF vars, PhaseOne
<1> QED
  BY <1>1, <1>2, <1>3, <1>4, <1>5, <1>6, <1>7, <1>8, <1>9, <1>10, <1>11, <1>12, <1>13
  DEF Next

-----------------------------------------------------------------------------
LEMMA LocksInit == Init => LocksInDoubt
BY TxFacts DEF Init, LocksInDoubt, InDoubtHoldsLocks, NoOrphanLock, OpKeys, NoOp, None

(* A decision on t frees exactly the keys that t holds: commit frees all keys *)
(* of t, but no other transaction can have locked one of them.                *)
LEMMA DecideLocks ==
  ASSUME TypeOK, LocksInDoubt, NEW t \in Tx, NEW S \in SUBSET Participant,
         NEW d \in {"committed", "aborted"}, Decide(t, S, d), UNCHANGED ops
  PROVE  LocksInDoubt'
<1> USE TxFacts
<1>1. \A p \in Participant, u \in Tx :
        /\ partLog'[p][u] = IF u = t /\ p \in S THEN d ELSE partLog[p][u]
        /\ u \in pending'[p] <=> (u \in pending[p] /\ ~(u = t /\ p \in S))
  BY DecideLog DEF Decide, TypeOK
<1>2. \A p \in Participant, k \in Key :
        locks'[p][k] = IF p \in S /\ t \in pending[p] /\ locks[p][k] = t
                       THEN None ELSE locks[p][k]
  <2> SUFFICES ASSUME NEW p \in Participant, NEW k \in Key
               PROVE  locks'[p][k] = IF p \in S /\ t \in pending[p] /\ locks[p][k] = t
                                     THEN None ELSE locks[p][k]
    OBVIOUS
  <2>1. t \in pending[p] => (k \in OpKeys(t, p) <=> locks[p][k] = t)
    BY DEF LocksInDoubt, InDoubtHoldsLocks, NoOrphanLock, TypeOK, OpKeys
  <2> QED
    BY <2>1 DEF Decide, LocksAfterCommit, LocksAfterAbort
<1>3. \A p \in Participant, u \in Tx : OpKeys(u, p)' = OpKeys(u, p)
                                      /\ OpKeys(u, p) \subseteq Key
  BY DEF OpKeys
<1>4. InDoubtHoldsLocks'
  <2> SUFFICES ASSUME NEW p \in Participant, NEW u \in Tx
               PROVE  /\ u \in pending'[p] <=> partLog'[p][u] = "prepared"
                      /\ u \in pending'[p] => \A k \in OpKeys(u, p)' : locks'[p][k] = u
    BY DEF InDoubtHoldsLocks
  <2>1. /\ u \in pending[p] <=> partLog[p][u] = "prepared"
        /\ u \in pending[p] => \A k \in OpKeys(u, p) : locks[p][k] = u
    BY DEF LocksInDoubt, InDoubtHoldsLocks
  <2>2. u \in pending'[p] <=> partLog'[p][u] = "prepared"
    BY <2>1, <1>1
  <2>3. ASSUME u \in pending'[p], NEW k \in OpKeys(u, p) PROVE locks'[p][k] = u
    BY <2>1, <2>3, <1>1, <1>2, <1>3
  <2> QED
    BY <2>2, <2>3, <1>3
<1>5. NoOrphanLock'
  <2> SUFFICES ASSUME NEW p \in Participant, NEW k \in Key, locks'[p][k] # None
               PROVE  locks'[p][k] \in pending'[p] /\ ops[locks'[p][k]][p][k] # "none"
    BY DEF NoOrphanLock, OpKeys
  <2>1. locks'[p][k] = locks[p][k] /\ ~(p \in S /\ t \in pending[p] /\ locks[p][k] = t)
    BY <1>2
  <2>2. /\ locks[p][k] \in Tx /\ locks[p][k] \in pending[p]
        /\ ops[locks[p][k]][p][k] # "none"
    BY <2>1 DEF LocksInDoubt, NoOrphanLock, TypeOK, OpKeys
  <2> QED
    BY <2>1, <2>2, <1>1
<1> QED
  BY <1>4, <1>5 DEF LocksInDoubt

(* A step that leaves the participants and the operations alone. *)
LEMMA LocksUntouched ==
  ASSUME LocksInDoubt, UNCHANGED <<partVars, ops>>
  PROVE  LocksInDoubt'
BY DEF LocksInDoubt, InDoubtHoldsLocks, NoOrphanLock, OpKeys, partVars

LEMMA LocksStep ==
  TypeOK /\ DecisionFirst /\ PhaseOne /\ LocksInDoubt /\ [Next]_vars => LocksInDoubt'
<1> SUFFICES ASSUME TypeOK, DecisionFirst, PhaseOne, LocksInDoubt, [Next]_vars
             PROVE  LocksInDoubt'
  OBVIOUS
<1> USE TxFacts
<1>1. ASSUME NEW t \in Tx, BeginTransaction(t) PROVE LocksInDoubt'
  BY <1>1, LocksUntouched DEF BeginTransaction
<1>2. ASSUME NEW t \in Tx, NEW o \in Workload, Execute(t, o) PROVE LocksInDoubt'
  <2>1. \A p \in Participant : partLog[p][t] = "none" /\ t \notin pending[p]
    BY <1>2 DEF Execute, DecisionFirst, LogsAgree, LocksInDoubt, InDoubtHoldsLocks
  <2>2. \A p \in Participant, u \in Tx : u # t => OpKeys(u, p)' = OpKeys(u, p)
    BY <1>2 DEF Execute, OpKeys, TypeOK
  <2>3. UNCHANGED <<partLog, pending, locks>>
    BY <1>2 DEF Execute, partVars
  <2>4. InDoubtHoldsLocks'
    <3> SUFFICES ASSUME NEW p \in Participant, NEW u \in Tx
                 PROVE  /\ u \in pending[p] <=> partLog[p][u] = "prepared"
                        /\ u \in pending[p] => \A k \in OpKeys(u, p)' : locks[p][k] = u
      BY <2>3 DEF InDoubtHoldsLocks
    <3>1. /\ u \in pending[p] <=> partLog[p][u] = "prepared"
          /\ u \in pending[p] => \A k \in OpKeys(u, p) : locks[p][k] = u
      BY DEF LocksInDoubt, InDoubtHoldsLocks
    <3>2. u \in pending[p] => OpKeys(u, p)' = OpKeys(u, p)
      BY <2>1, <2>2
    <3> QED
      BY <3>1, <3>2
  <2>5. NoOrphanLock'
    <3> SUFFICES ASSUME NEW p \in Participant, NEW k \in Key, locks[p][k] # None
                 PROVE  locks[p][k] \in pending[p] /\ ops'[locks[p][k]][p][k] # "none"
      BY <2>3 DEF NoOrphanLock, OpKeys
    <3>1. /\ locks[p][k] \in Tx /\ locks[p][k] \in pending[p]
          /\ ops[locks[p][k]][p][k] # "none"
      BY DEF LocksInDoubt, NoOrphanLock, TypeOK, OpKeys
    <3>2. locks[p][k] # t
      BY <3>1, <2>1
    <3>3. \A u \in Tx : u # t => ops'[u] = ops[u]
      BY <1>2 DEF Execute, TypeOK
    <3> QED
      BY <3>1, <3>2, <3>3
  <2> QED
    BY <2>4, <2>5 DEF LocksInDoubt
<1>3. ASSUME NEW p \in Participant, PrepareUnavailable(p) PROVE LocksInDoubt'
  BY <1>3, LocksUntouched DEF PrepareUnavailable
<1>4. ASSUME NEW p \in Participant, PrepareNo(p) PROVE LocksInDoubt'
  <2>1. running \in Tx /\ p \in involved[running] /\ partLog[p][running] = "none"
    BY <1>4 DEF PrepareNo, TypeOK, DecisionFirst, PhaseOne
  <2>2. running \notin pending[p]
    BY <2>1 DEF LocksInDoubt, InDoubtHoldsLocks
  <2>3. \A u \in Tx, q \in Participant :
          partLog'[q][u] = IF u = running /\ q = p THEN "aborted" ELSE partLog[q][u]
    BY <1>4, <2>1 DEF PrepareNo, TypeOK
  <2>4. UNCHANGED <<pending, locks, ops>>
    BY <1>4 DEF PrepareNo
  <2> QED
    BY <2>2, <2>3, <2>4 DEF LocksInDoubt, InDoubtHoldsLocks, NoOrphanLock, OpKeys
<1>5. ASSUME NEW p \in Participant, PrepareYes(p) PROVE LocksInDoubt'
  <2>1. running \in Tx
    BY <1>5 DEF PrepareYes, TypeOK
  <2>2. \A u \in Tx, q \in Participant :
          /\ partLog'[q][u] = IF u = running /\ q = p THEN "prepared" ELSE partLog[q][u]
          /\ u \in pending'[q] <=> (u \in pending[q] \/ (u = running /\ q = p))
          /\ OpKeys(u, q)' = OpKeys(u, q) /\ OpKeys(u, q) \subseteq Key
    BY <1>5, <2>1 DEF PrepareYes, TypeOK, OpKeys
  <2>3. \A q \in Participant, k \in Key :
          locks'[q][k] = IF q = p /\ k \in OpKeys(running, p) THEN running ELSE locks[q][k]
    BY <1>5 DEF PrepareYes, TypeOK
  <2>4. \A k \in OpKeys(running, p) : locks[p][k] \in {None, running}
    BY <1>5 DEF PrepareYes, LockConflict
  <2>5. ASSUME NEW q \in Participant, NEW u \in Tx, u \in pending'[q],
               NEW k \in OpKeys(u, q)
        PROVE  locks'[q][k] = u
    <3>1. CASE q = p /\ u = running
      BY <3>1, <2>2, <2>3
    <3>2. CASE ~(q = p /\ u = running)
      <4>1. locks[q][k] = u
        BY <3>2, <2>2, <2>5 DEF LocksInDoubt, InDoubtHoldsLocks
      <4> QED
        BY <4>1, <3>2, <2>2, <2>3, <2>4
    <3> QED
      BY <3>1, <3>2
  <2>6. InDoubtHoldsLocks'
    BY <2>2, <2>5 DEF LocksInDoubt, InDoubtHoldsLocks
  <2>7. NoOrphanLock'
    <3> SUFFICES ASSUME NEW q \in Participant, NEW k \in Key, locks'[q][k] # None
                 PROVE  locks'[q][k] \in pending'[q] /\ ops[locks'[q][k]][q][k] # "none"
      BY <1>5 DEF NoOrphanLock, OpKeys, PrepareYes
    <3>1. CASE q = p /\ k \in OpKeys(running, p)
      <4>1. locks'[q][k] = running
        BY <3>1, <2>3
      <4> QED
        BY <4>1, <3>1, <2>1, <2>2 DEF OpKeys
    <3>2. CASE ~(q = p /\ k \in OpKeys(running, p))
      <4>1. locks'[q][k] = locks[q][k] /\ locks[q][k] \in Tx
        BY <3>2, <2>3 DEF TypeOK
      <4>2. locks[q][k] \in pending[q] /\ ops[locks[q][k]][q][k] # "none"
        BY <4>1 DEF LocksInDoubt, NoOrphanLock, OpKeys
      <4> QED
        BY <4>1, <4>2, <2>2
    <3> QED
      BY <3>1, <3>2
  <2> QED
    BY <2>6, <2>7 DEF LocksInDoubt
<1>6. CASE LogDecision
  BY <1>6, LocksUntouched DEF LogDecision
<1>7. ASSUME NEW p \in Participant, SendDecision(p) PROVE LocksInDoubt'
  <2>1. running \in Tx /\ {p} \cap up \in SUBSET Participant
    BY <1>7 DEF SendDecision, TypeOK
  <2>2. Decide(running, {p} \cap up, Decision(running)) /\ UNCHANGED ops
    BY <1>7 DEF SendDecision
  <2> QED
    BY <2>1, <2>2, DecideLocks DEF Decision
<1>8. CASE Finish
  BY <1>8, LocksUntouched DEF Finish
<1>9. CASE Crash
  BY <1>9, LocksUntouched DEF Crash
<1>10. ASSUME NEW t \in Tx, Recover(t) PROVE LocksInDoubt'
  <2>1. InDoubt(t) \in SUBSET Participant
    BY DEF InDoubt, TypeOK
  <2>2. Decide(t, InDoubt(t), Decision(t)) /\ UNCHANGED ops
    BY <1>10 DEF Recover
  <2> QED
    BY <2>1, <2>2, DecideLocks DEF Decision
<1>11. ASSUME NEW p \in Participant, SetAvailable(p) PROVE LocksInDoubt'
  BY <1>11, LocksUntouched DEF SetAvailable
<1>12. CASE SetCoordinatorAvailable
  BY <1>12, LocksUntouched DEF SetCoordinatorAvailable
<1>13. CASE UNCHANGED vars
  BY <1>13, LocksUntouched DEF vars, partVars
<1> QED
  BY <1>1, <1>2, <1>3, <1>4, <1>5, <1>6, <1>7, <1>8, <1>9, <1>10, <1>11, <1>12, <1>13
  DEF Next

(* The three invariants together; each needs the ones before it. *)
LEMMA CommitInvariant == Spec => [](TypeOK /\ DecisionFirst /\ PhaseOne /\ LocksInDoubt)
<1> USE DecisionInit, DecisionStep, PhaseOneInit, PhaseOneStep, LocksInit, LocksStep
<1>1. Init => DecisionFirst /\ PhaseOne /\ LocksInDoubt
  OBVIOUS
<1>2. TypeOK /\ DecisionFirst /\ PhaseOne /\ LocksInDoubt /\ [Next]_vars
        => DecisionFirst' /\ PhaseOne' /\ LocksInDoubt'
  OBVIOUS
<1> QED
  BY <1>1, <1>2, TypeCorrect, PTL DEF Spec

\* Locks and in-doubt transactions belong to each other at every participant,
\* for any number of transactions and keys: commit, which frees the keys of a
\* transaction without looking at their owner, never frees another's lock.
THEOREM LocksOwned == Spec => []LocksInDoubt
<1> QED
  BY CommitInvariant, PTL

-----------------------------------------------------------------------------
(* The refinement: the first transaction is an atomic commitment. *)

(* A step that leaves the log of the participants alone, and the participants *)
(* of the first transaction, is a stuttering step of atomic commitment.       *)
LEMMA FirstStutters ==
  ASSUME UNCHANGED partLog, involved'[1] = involved[1]
  PROVE  UNCHANGED First!vars
BY DEF First!vars

(* A decision on t is a commit or an abort of the first transaction, or a     *)
(* stuttering step when t is another one.                                     *)
LEMMA FirstDecides ==
  ASSUME TypeOK, DecisionFirst, PhaseOne, NEW t \in Tx,
         NEW S \in SUBSET involved[t], Decide(t, S, Decision(t)),
         coordLog[t] \in {"committing", "aborting"}, UNCHANGED involved
  PROVE  [First!Next]_(First!vars)
<1> USE TxFacts
<1>0. 1 \in Tx /\ S \in SUBSET Participant
  BY MaxTxAssumption DEF Tx, TypeOK
<1>1. \A u \in Tx, p \in Participant :
        partLog'[p][u] = IF u = t /\ p \in S THEN Decision(t) ELSE partLog[p][u]
  BY <1>0, DecideLog
<1>2. CASE t # 1
  BY <1>0, <1>1, <1>2 DEF First!vars
<1>3. CASE t = 1 /\ coordLog[t] = "committing"
  <2>1. \A p \in involved[1] : partLog[p][1] \in {"prepared", "committed"}
    BY <1>0, <1>3 DEF PhaseOne
  <2>2. [p \in Participant |-> partLog'[p][1]]
          = [p \in Participant |-> IF p \in S THEN "committed"
                                   ELSE [q \in Participant |-> partLog[q][1]][p]]
    BY <1>0, <1>1, <1>3 DEF Decision
  <2>3. First!Commit(S)
    BY <1>0, <1>3, <2>1, <2>2 DEF First!Commit, TypeOK
  <2> QED
    BY <1>0, <2>3 DEF First!Next
<1>4. CASE t = 1 /\ coordLog[t] = "aborting"
  <2>1. \A p \in Participant : partLog[p][1] # "committed"
    BY <1>0, <1>4 DEF DecisionFirst, LogsAgree
  <2>2. [p \in Participant |-> partLog'[p][1]]
          = [p \in Participant |-> IF p \in S THEN "aborted"
                                   ELSE [q \in Participant |-> partLog[q][1]][p]]
    BY <1>0, <1>1, <1>4 DEF Decision
  <2>3. First!Abort(S)
    BY <1>0, <1>4, <2>1, <2>2 DEF First!Abort, TypeOK
  <2> QED
    BY <1>0, <2>3 DEF First!Next
<1> QED
  BY <1>2, <1>3, <1>4

LEMMA FirstStep ==
  TypeOK /\ DecisionFirst /\ PhaseOne /\ [Next]_vars => [First!Next]_(First!vars)
<1> SUFFICES ASSUME TypeOK, DecisionFirst, PhaseOne, [Next]_vars
             PROVE  [First!Next]_(First!vars)
  OBVIOUS
<1> USE TxFacts
<1>0. 1 \in Tx
  BY MaxTxAssumption DEF Tx
<1>1. ASSUME NEW t \in Tx, BeginTransaction(t) PROVE [First!Next]_(First!vars)
  BY <1>1, FirstStutters DEF BeginTransaction, partVars
<1>2. ASSUME NEW t \in Tx, NEW o \in Workload, Execute(t, o)
      PROVE  [First!Next]_(First!vars)
  <2>1. UNCHANGED partLog
    BY <1>2 DEF Execute, partVars
  <2>2. CASE t # 1
    <3>1. involved'[1] = involved[1]
      BY <1>0, <1>2, <2>2 DEF Execute, TypeOK
    <3> QED
      BY <3>1, <2>1, FirstStutters
  <2>3. CASE t = 1
    <3>1. involved[1] = {} /\ involved'[1] = DOMAIN o /\ DOMAIN o \in SUBSET Participant
      BY <1>0, <1>2, <2>3 DEF Execute, TypeOK, PhaseOne, Workload
    <3>2. First!Start
      BY <3>1, <2>1 DEF First!Start
    <3> QED
      BY <3>2 DEF First!Next
  <2> QED
    BY <2>2, <2>3
<1>3. ASSUME NEW p \in Participant, PrepareUnavailable(p) PROVE [First!Next]_(First!vars)
  BY <1>3, FirstStutters DEF PrepareUnavailable, partVars
<1>4. ASSUME NEW p \in Participant, PrepareNo(p) PROVE [First!Next]_(First!vars)
  <2>1. /\ running \in Tx /\ coordLog[running] = "preparing" /\ p \in involved[running]
        /\ UNCHANGED involved
    BY <1>4 DEF PrepareNo, TypeOK, DecisionFirst
  <2>2. \A u \in Tx, q \in Participant :
          partLog'[q][u] = IF u = running /\ q = p THEN "aborted" ELSE partLog[q][u]
    BY <1>4, <2>1 DEF PrepareNo, TypeOK
  <2>3. CASE running # 1
    BY <1>0, <2>1, <2>2, <2>3 DEF First!vars
  <2>4. CASE running = 1
    <3>1. \A q \in Participant : partLog[q][1] # "committed"
      BY <1>0, <2>1, <2>4 DEF DecisionFirst, LogsAgree
    <3>2. [q \in Participant |-> partLog'[q][1]]
            = [q \in Participant |-> IF q \in {p} THEN "aborted"
                                     ELSE [r \in Participant |-> partLog[r][1]][q]]
      BY <1>0, <2>2, <2>4
    <3>3. First!Abort({p})
      BY <1>0, <2>1, <2>4, <3>1, <3>2 DEF First!Abort, TypeOK
    <3> QED
      BY <3>3 DEF First!Next
  <2> QED
    BY <2>3, <2>4
<1>5. ASSUME NEW p \in Participant, PrepareYes(p) PROVE [First!Next]_(First!vars)
  <2>1. /\ running \in Tx /\ coordLog[running] = "preparing" /\ p \in involved[running]
        /\ UNCHANGED involved /\ partLog[p][running] = "none"
    BY <1>5 DEF PrepareYes, TypeOK, DecisionFirst, PhaseOne
  <2>2. \A u \in Tx, q \in Participant :
          partLog'[q][u] = IF u = running /\ q = p THEN "prepared" ELSE partLog[q][u]
    BY <1>5, <2>1 DEF PrepareYes, TypeOK
  <2>3. CASE running # 1
    BY <1>0, <2>1, <2>2, <2>3 DEF First!vars
  <2>4. CASE running = 1
    <3>1. [q \in Participant |-> partLog'[q][1]]
            = [[r \in Participant |-> partLog[r][1]] EXCEPT ![p] = "prepared"]
      BY <1>0, <2>2, <2>4
    <3>2. First!Prepare(p)
      BY <1>0, <2>1, <2>4, <3>1 DEF First!Prepare
    <3> QED
      BY <3>2 DEF First!Next
  <2> QED
    BY <2>3, <2>4
<1>6. CASE LogDecision
  BY <1>6, FirstStutters DEF LogDecision, partVars
<1>7. ASSUME NEW p \in Participant, SendDecision(p) PROVE [First!Next]_(First!vars)
  <2>1. /\ running \in Tx /\ coordLog[running] \in {"committing", "aborting"}
        /\ {p} \cap up \in SUBSET involved[running] /\ UNCHANGED involved
    BY <1>7 DEF SendDecision, TypeOK, DecisionFirst
  <2>2. Decide(running, {p} \cap up, Decision(running))
    BY <1>7 DEF SendDecision
  <2> QED
    BY <2>1, <2>2, FirstDecides
<1>8. CASE Finish
  BY <1>8, FirstStutters DEF Finish, partVars
<1>9. CASE Crash
  BY <1>9, FirstStutters DEF Crash, partVars
<1>10. ASSUME NEW t \in Tx, Recover(t) PROVE [First!Next]_(First!vars)
  <2>1. /\ coordLog[t] \in {"committing", "aborting"} /\ InDoubt(t) \in SUBSET involved[t]
        /\ UNCHANGED involved
    BY <1>10 DEF Recover, InDoubt
  <2>2. Decide(t, InDoubt(t), Decision(t))
    BY <1>10 DEF Recover
  <2> QED
    BY <2>1, <2>2, FirstDecides
<1>11. ASSUME NEW p \in Participant, SetAvailable(p) PROVE [First!Next]_(First!vars)
  BY <1>11, FirstStutters DEF SetAvailable, partVars
<1>12. CASE SetCoordinatorAvailable
  BY <1>12, FirstStutters DEF SetCoordinatorAvailable, partVars
<1>13. CASE UNCHANGED vars
  BY <1>13, FirstStutters DEF vars
<1> QED
  BY <1>1, <1>2, <1>3, <1>4, <1>5, <1>6, <1>7, <1>8, <1>9, <1>10, <1>11, <1>12, <1>13
  DEF Next

\* Two-phase commit, with unavailable participants and crashes of the
\* coordinator anywhere, implements atomic commitment of its first transaction.
THEOREM ImplementsAtomicCommit == Spec => FirstIsAtomic
<1>1. Init => First!Init
  BY MaxTxAssumption DEF Init, First!Init, Tx
<1>2. TypeOK /\ DecisionFirst /\ PhaseOne /\ [Next]_vars => [First!Next]_(First!vars)
  BY FirstStep
<1> QED
  BY <1>1, <1>2, CommitInvariant, PTL DEF Spec, FirstIsAtomic, First!Spec
=============================================================================
