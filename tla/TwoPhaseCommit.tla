--------------------------- MODULE TwoPhaseCommit ---------------------------
(***************************************************************************)
(* two-phase-commit/two_phase_commit.py: Participant and Coordinator.      *)
(*                                                                         *)
(* execute_transaction is cut at its calls: a participant may become       *)
(* unavailable, and the coordinator may crash, between any two of them.  A *)
(* crash abandons the call; the logs, locks and pending operations stay,   *)
(* and recover() works from the coordinator's log.  A log is kept as the   *)
(* last state it records for each transaction, all that the code reads.    *)
(***************************************************************************)
EXTENDS Naturals, FiniteSets

CONSTANTS Participant, Key,
          MaxTx       \* bound: number of transactions

ASSUME MaxTxAssumption == MaxTx \in Nat \ {0}

Tx == 1..MaxTx
None == 0             \* no transaction, and the value of an absent key
OpKind == {"none", "set", "delete"}
NoOp == [k \in Key |-> "none"]

VARIABLES
  coordLog,           \* Coordinator.log: last state of each transaction
  involved,           \* participants recorded in the "preparing" entry
  ops,                \* participant_operations of each transaction
  running,            \* transaction whose execute_transaction is under way
  todo,               \* participants the current loop has still to visit
  votes,              \* votes of the running transaction
  partLog,            \* Participant.log: last state of each transaction
  pending,            \* Participant._pending: keys of the dict
  locks,              \* Participant.locks
  store,              \* Participant.store: the transaction that wrote a key
  up,                 \* participants that are available
  coordUp             \* the coordinator is available

partVars == <<partLog, pending, locks, store>>
vars == <<coordLog, involved, ops, running, todo, votes, partLog, pending,
          locks, store, up, coordUp>>

Init ==
  /\ coordLog = [t \in Tx |-> "none"]
  /\ involved = [t \in Tx |-> {}]
  /\ ops = [t \in Tx |-> [p \in Participant |-> NoOp]]
  /\ running = None
  /\ todo = {}
  /\ votes = [p \in Participant |-> "none"]
  /\ partLog = [p \in Participant |-> [t \in Tx |-> "none"]]
  /\ pending = [p \in Participant |-> {}]
  /\ locks = [p \in Participant |-> [k \in Key |-> None]]
  /\ store = [p \in Participant |-> [k \in Key |-> None]]
  /\ up = Participant
  /\ coordUp = TRUE

-----------------------------------------------------------------------------
(* What a decision does to participant p, as Participant.commit and abort. *)

OpKeys(t, p) == {k \in Key : ops[t][p][k] # "none"}

\* commit: the pending operations applied, their keys unlocked whoever holds them
StoreAfterCommit(t, p) ==
  [k \in Key |-> IF t \in pending[p] /\ ops[t][p][k] = "set" THEN t
                 ELSE IF t \in pending[p] /\ ops[t][p][k] = "delete" THEN None
                 ELSE store[p][k]]

LocksAfterCommit(t, p) ==
  [k \in Key |-> IF t \in pending[p] /\ k \in OpKeys(t, p) THEN None ELSE locks[p][k]]

\* abort: only the locks the transaction holds itself are released
LocksAfterAbort_KeepsLocks(t, p) == locks[p]
LocksAfterAbort(t, p) ==
  [k \in Key |-> IF t \in pending[p] /\ k \in OpKeys(t, p) /\ locks[p][k] = t
                 THEN None ELSE locks[p][k]]

\* Participants in S learn the decision on t
Decide(t, S, decision) ==
  /\ partLog' = [p \in Participant |->
       IF p \in S THEN [partLog[p] EXCEPT ![t] = decision] ELSE partLog[p]]
  /\ pending' = [p \in Participant |-> IF p \in S THEN pending[p] \ {t} ELSE pending[p]]
  /\ store' = [p \in Participant |->
       IF p \in S /\ decision = "committed" THEN StoreAfterCommit(t, p) ELSE store[p]]
  /\ locks' = [p \in Participant |->
       IF p \notin S THEN locks[p]
       ELSE IF decision = "committed" THEN LocksAfterCommit(t, p)
       ELSE LocksAfterAbort(t, p)]

-----------------------------------------------------------------------------
(* Coordinator.begin_transaction and execute_transaction.                  *)

BeginTransaction(t) ==
  /\ running = None
  /\ coordLog[t] = "none"
  /\ \A u \in Tx : u < t => coordLog[u] # "none"      \* _tx_counter
  /\ coordLog' = [coordLog EXCEPT ![t] = "initiated"]
  /\ UNCHANGED <<involved, ops, running, todo, votes, partVars, up, coordUp>>

\* participant_operations: a mapping from some participants to operations
Workload == UNION {[S -> [Key -> OpKind]] : S \in SUBSET Participant}

Execute(t, o) ==
  /\ running = None
  /\ coordUp
  /\ coordLog[t] = "initiated"
  /\ coordLog' = [coordLog EXCEPT ![t] = "preparing"]
  /\ involved' = [involved EXCEPT ![t] = DOMAIN o]
  /\ ops' = [ops EXCEPT ![t] =
       [p \in Participant |-> IF p \in DOMAIN o THEN o[p] ELSE NoOp]]
  /\ running' = t
  /\ todo' = DOMAIN o
  /\ votes' = [p \in Participant |-> "none"]
  /\ UNCHANGED <<partVars, up, coordUp>>

\* Participant.prepare finds a key locked by another transaction
LockConflict_Ignored(t, p) == FALSE
LockConflict(t, p) == \E k \in OpKeys(t, p) : locks[p][k] \notin {None, t}

PrepareUnavailable(p) ==
  /\ running # None
  /\ coordLog[running] = "preparing"
  /\ p \in todo \ up
  /\ votes' = [votes EXCEPT ![p] = "no"]
  /\ todo' = todo \ {p}
  /\ UNCHANGED <<coordLog, involved, ops, running, partVars, up, coordUp>>

PrepareNo(p) ==
  /\ running # None
  /\ coordLog[running] = "preparing"
  /\ p \in todo \cap up
  /\ LockConflict(running, p)
  /\ partLog' = [partLog EXCEPT ![p][running] = "aborted"]
  /\ votes' = [votes EXCEPT ![p] = "no"]
  /\ todo' = todo \ {p}
  /\ UNCHANGED <<coordLog, involved, ops, running, pending, locks, store, up, coordUp>>

PrepareYes(p) ==
  /\ running # None
  /\ coordLog[running] = "preparing"
  /\ p \in todo \cap up
  /\ ~LockConflict(running, p)
  /\ locks' = [locks EXCEPT ![p] =
       [k \in Key |-> IF k \in OpKeys(running, p) THEN running ELSE locks[p][k]]]
  /\ pending' = [pending EXCEPT ![p] = @ \cup {running}]
  /\ partLog' = [partLog EXCEPT ![p][running] = "prepared"]
  /\ votes' = [votes EXCEPT ![p] = "yes"]
  /\ todo' = todo \ {p}
  /\ UNCHANGED <<coordLog, involved, ops, running, store, up, coordUp>>

\* all_yes
AllYes_AnyYes(t) == \E p \in involved[t] : votes[p] = "yes"
AllYes(t) == \A p \in involved[t] : votes[p] = "yes"

\* The "prepared" entry, then the decision and its "committing" or "aborting"
\* entry; nothing else happens in between
LogDecision ==
  /\ running # None
  /\ coordLog[running] = "preparing"
  /\ todo = {}
  /\ coordLog' = [coordLog EXCEPT
       ![running] = IF AllYes(running) THEN "committing" ELSE "aborting"]
  /\ todo' = involved[running]
  /\ UNCHANGED <<involved, ops, running, votes, partVars, up, coordUp>>

Decision(t) == IF coordLog[t] = "committing" THEN "committed" ELSE "aborted"

\* Phase 2 skips a participant that is unavailable
SendDecision(p) ==
  /\ running # None
  /\ coordLog[running] \in {"committing", "aborting"}
  /\ p \in todo
  /\ Decide(running, {p} \cap up, Decision(running))
  /\ todo' = todo \ {p}
  /\ UNCHANGED <<coordLog, involved, ops, running, votes, up, coordUp>>

Finish ==
  /\ running # None
  /\ coordLog[running] \in {"committing", "aborting"}
  /\ todo = {}
  /\ coordLog' = [coordLog EXCEPT ![running] = Decision(running)]
  /\ running' = None
  /\ UNCHANGED <<involved, ops, todo, votes, partVars, up, coordUp>>

\* The coordinator dies inside execute_transaction
Crash ==
  /\ running # None
  /\ running' = None
  /\ todo' = {}
  /\ UNCHANGED <<coordLog, involved, ops, votes, partVars, up, coordUp>>

-----------------------------------------------------------------------------
(* Coordinator.recover: for a transaction whose last entry is "committing" *)
(* or "aborting", resend the decision to the participants still prepared.  *)
(* The loop is cut after each transaction.                                 *)

InDoubt(t) == {p \in involved[t] : p \in up /\ partLog[p][t] = "prepared"}

Recover(t) ==
  /\ running = None
  /\ coordLog[t] \in {"committing", "aborting"}
  /\ Decide(t, InDoubt(t), Decision(t))
  /\ coordLog' = [coordLog EXCEPT ![t] = Decision(t)]
  /\ UNCHANGED <<involved, ops, running, todo, votes, up, coordUp>>

SetAvailable(p) ==
  /\ up' = IF p \in up THEN up \ {p} ELSE up \cup {p}
  /\ UNCHANGED <<coordLog, involved, ops, running, todo, votes, partVars, coordUp>>

SetCoordinatorAvailable ==
  /\ running = None
  /\ coordUp' = ~coordUp
  /\ UNCHANGED <<coordLog, involved, ops, running, todo, votes, partVars, up>>

Next ==
  \/ \E t \in Tx : BeginTransaction(t)
  \/ \E t \in Tx, o \in Workload : Execute(t, o)
  \/ \E p \in Participant : PrepareUnavailable(p)
  \/ \E p \in Participant : PrepareNo(p)
  \/ \E p \in Participant : PrepareYes(p)
  \/ LogDecision
  \/ \E p \in Participant : SendDecision(p)
  \/ Finish
  \/ Crash
  \/ \E t \in Tx : Recover(t)
  \/ \E p \in Participant : SetAvailable(p)
  \/ SetCoordinatorAvailable

Spec == Init /\ [][Next]_vars

-----------------------------------------------------------------------------
(* Properties.                                                             *)

\* Logs, votes, locks and stores have their types.
TypeOK ==
  /\ coordLog \in [Tx -> {"none", "initiated", "preparing", "committing",
                          "committed", "aborting", "aborted"}]
  /\ involved \in [Tx -> SUBSET Participant]
  /\ ops \in [Tx -> [Participant -> [Key -> OpKind]]]
  /\ running \in Tx \cup {None}
  /\ todo \in SUBSET Participant
  /\ votes \in [Participant -> {"none", "yes", "no"}]
  /\ partLog \in [Participant -> [Tx -> {"none", "prepared", "committed", "aborted"}]]
  /\ pending \in [Participant -> SUBSET Tx]
  /\ locks \in [Participant -> [Key -> Tx \cup {None}]]
  /\ store \in [Participant -> [Key -> Tx \cup {None}]]
  /\ up \in SUBSET Participant
  /\ coordUp \in BOOLEAN

\* No two participants end a transaction differently, whatever participants
\* are unavailable in either phase and wherever the coordinator crashes.
Atomicity ==
  \A t \in Tx, p, q \in Participant :
    ~(partLog[p][t] = "committed" /\ partLog[q][t] = "aborted")

\* What the log of one participant tells about the log of the coordinator.
LogsAgree(t, p) ==
  /\ coordLog[t] \in {"none", "initiated"} => partLog[p][t] = "none"
  /\ partLog[p][t] = "committed" => coordLog[t] \in {"committing", "committed"}
  /\ partLog[p][t] = "aborted" => coordLog[t] \in {"preparing", "aborting", "aborted"}
  /\ (partLog[p][t] = "aborted" /\ running = t /\ coordLog[t] = "preparing")
       => p \in involved[t] /\ votes[p] = "no"

\* The inductive invariant behind Atomicity: a participant commits or aborts
\* only after the coordinator logged that decision, except for a refusal in
\* phase 1, which the coordinator has as a "no" vote while it still decides.
DecisionFirst ==
  /\ running # None => todo \subseteq involved[running]
  /\ \A t \in Tx, p \in Participant : LogsAgree(t, p)

\* Participant.recover reads the log, commit and abort read _pending: the two
\* agree on which transactions are in doubt, and these hold all their locks,
\* so commit never frees a key that another transaction has locked.
InDoubtHoldsLocks ==
  \A p \in Participant, t \in Tx :
    /\ t \in pending[p] <=> partLog[p][t] = "prepared"
    /\ t \in pending[p] => \A k \in OpKeys(t, p) : locks[p][k] = t

\* A lock belongs to a transaction that is still in doubt at the participant:
\* no lock outlives its transaction.
NoOrphanLock ==
  \A p \in Participant, k \in Key :
    locks[p][k] # None => /\ locks[p][k] \in pending[p]
                          /\ k \in OpKeys(locks[p][k], p)

\* The two together: locks and in-doubt transactions belong to each other, so a
\* commit or abort that frees keys without looking at their owner frees its own.
LocksInDoubt == InDoubtHoldsLocks /\ NoOrphanLock

\* What the first phase leaves behind, on which LocksInDoubt and the refinement
\* below rest: a participant that has still to vote knows nothing of the running
\* transaction, one that voted "yes" is prepared, and all that a committed
\* transaction involves were prepared.
PhaseOne ==
  /\ \A t \in Tx : coordLog[t] \in {"none", "initiated"} => involved[t] = {}
  /\ (running # None /\ coordLog[running] = "preparing") =>
       \A p \in involved[running] :
         IF p \in todo THEN partLog[p][running] = "none"
         ELSE votes[p] = "yes" => partLog[p][running] = "prepared"
  /\ \A t \in Tx : coordLog[t] \in {"committing", "committed"} =>
       \A p \in involved[t] : partLog[p][t] \in {"prepared", "committed"}

\* The first transaction as an atomic commitment.
First == INSTANCE AtomicCommit
           WITH involved <- involved[1],
                outcome <- [p \in Participant |-> partLog[p][1]]

\* Two-phase commit, with crashes and recovery, implements atomic commitment.
FirstIsAtomic == First!Spec
=============================================================================
