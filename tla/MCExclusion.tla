----------------------------- MODULE MCExclusion -----------------------------
(***************************************************************************)
(* Three services that let one process at a time do something: the lock    *)
(* service with fencing tokens, Lamport's mutual exclusion, the election   *)
(* of a leader.  They share nothing: a behaviour runs one of them.         *)
(***************************************************************************)
EXTENDS FencingTokens, Integers, FiniteSets

CONSTANTS LNode, MaxCalls,
          BullyNode, HeartbeatInterval, ElectionTimeout, MaxFaults, SettleTime

VARIABLES
    service,                                    \* the service in use
    clock, events, queue, acks, calls,          \* Lamport
    bn, mail, ticking, faults, calm             \* Bully

\* The ids of the nodes are compared: the mutex breaks ties of timestamps by them.
ASSUME MutexAssumption == LNode \in SUBSET Int /\ IsFiniteSet(LNode)

LM == INSTANCE Lamport WITH counter <- clock
BU == INSTANCE Bully

mutexVars == <<clock, events, queue, acks, calls>>
electionVars == <<bn, mail, ticking, faults, calm>>
exclusionVars == <<service, vars, mutexVars, electionVars>>

ExclusionInit ==
    /\ service \in {"lock service", "mutex", "election"}
    /\ Init /\ LM!LamportInit /\ BU!BullyInit

ExclusionNext ==
    /\ UNCHANGED service
    /\ \/ service = "lock service" /\ Next /\ UNCHANGED <<mutexVars, electionVars>>
       \/ service = "mutex" /\ LM!LamportNext /\ UNCHANGED <<vars, electionVars>>
       \/ service = "election" /\ BU!BullyNext /\ UNCHANGED <<vars, mutexVars>>

ExclusionSpec == ExclusionInit /\ [][ExclusionNext]_exclusionVars

(***************************************************************************)
(* Properties                                                              *)
(***************************************************************************)

\* The clock condition, which total_order needs to respect happens_before: an
\* event that happens before another has the smaller timestamp.
ClockCondition == LM!ClockCondition

\* LamportMutex: a node that may enter the critical section may do so until it
\* releases; no later request gets in front of it.
NoOvertaking == [][LM!KeepsEntry]_mutexVars

\* BullyElectionCluster: when a tick's messages are delivered at most one available
\* node takes itself for the leader, and within SettleTime ticks of the last failure
\* or recovery the highest available node leads and all available nodes follow it.
HighestLeads == BU!OneLeader /\ BU!HighestLeads
=============================================================================
