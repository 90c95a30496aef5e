------------------------------- MODULE Lamport -------------------------------
(***************************************************************************)
(* lamport-clocks/lamport.py: LamportClock, the event logs of the nodes,   *)
(* happens_before, and LamportMutex.                                       *)
(*                                                                         *)
(* Messages are delivered inside the call that sends them.  _reaches       *)
(* follows the links to the previous event of the node and to the sending  *)
(* event; the events it reaches are, node by node, a prefix of the log, so *)
(* an event keeps how many events of each node it reaches (itself too).    *)
(***************************************************************************)
EXTENDS Integers, Sequences, FiniteSets, SequencesExt, FiniteSetsExt

CONSTANTS
    LNode,          \* node ids, a set of integers (the code compares them as strings)
    MaxCalls        \* bound: calls

VARIABLES
    counter,        \* _counter of each node's clock
    events,         \* _event_log of each node
    queue,          \* _request_queue: pairs of timestamp and node
    acks,           \* _acks: the nodes that have acked, by requester
    calls           \* calls so far

lamportVars == <<counter, events, queue, acks, calls>>

(***************************************************************************)
(* Clocks and events                                                       *)
(***************************************************************************)

\* Clock and log of all nodes, as an operation changes them event by event.
World == [counter |-> counter, events |-> events]

Reach0 == [n \in LNode |-> 0]
LastReach(w, n) == IF w.events[n] = <<>> THEN Reach0 ELSE Last(w.events[n]).reach
Joined(v, u) == [n \in LNode |-> Max({v[n], u[n]})]
Recorded(w, n, ts, reach) ==
    [counter |-> [w.counter EXCEPT ![n] = ts],
     events |-> [w.events EXCEPT
                   ![n] = Append(@, [ts |-> ts, reach |-> [reach EXCEPT ![n] = @ + 1]])]]

\* tick and send_tick
Tick(w, n) == Recorded(w, n, w.counter[n] + 1, LastReach(w, n))

ReceiveTick_Own(own, received) == own + 1
ReceiveTick(own, received) == Max({own, received}) + 1

\* send_message: the sending event, and the receiving one at the other node.
SendMessage(w, a, b) ==
    LET w1 == Tick(w, a)
    IN  Recorded(w1, b, ReceiveTick(w1.counter[b], w1.counter[a]),
                 Joined(LastReach(w1, b), LastReach(w1, a)))

(***************************************************************************)
(* LamportMutex                                                            *)
(***************************************************************************)

\* The other nodes in the order of the dictionary of nodes.
Others(n) == Cardinality(LNode \ {n})
Other(n, i) == CHOOSE o \in LNode \ {n} : Cardinality({x \in LNode \ {n} : x < o}) = i - 1

\* Every other node is asked, and acks, before the next one is asked.
Requested(w, n) ==
    LET after[i \in 0..Others(n)] ==
            IF i = 0 THEN Tick(w, n)
            ELSE SendMessage(SendMessage(after[i - 1], n, Other(n, i)), Other(n, i), n)
    IN  after[Others(n)]
Released(w, n) ==
    LET after[i \in 0..Others(n)] == IF i = 0 THEN w ELSE SendMessage(after[i - 1], n, Other(n, i))
    IN  after[Others(n)]

\* can_enter: the first request of the queue is the node's, and all have acked.
Before_ByNode(r, q) == r[2] < q[2]
Before(r, q) == r[1] < q[1] \/ (r[1] = q[1] /\ r[2] < q[2])
CanEnter(n) ==
    /\ \E r \in queue : r[2] = n /\ \A q \in queue \ {r} : Before(r, q)
    /\ LNode \ {n} \subseteq acks[n]

(***************************************************************************)
(* Calls                                                                   *)
(***************************************************************************)

Becomes(w) ==
    /\ calls < MaxCalls
    /\ calls' = calls + 1
    /\ counter' = w.counter
    /\ events' = w.events

LocalEvent(n) == Becomes(Tick(World, n)) /\ UNCHANGED <<queue, acks>>
Send(a, b) == a # b /\ Becomes(SendMessage(World, a, b)) /\ UNCHANGED <<queue, acks>>

MutexRequest(n) ==
    /\ Becomes(Requested(World, n))
    /\ queue' = queue \cup {<<counter[n] + 1, n>>}
    /\ acks' = [acks EXCEPT ![n] = LNode \ {n}]

MutexRelease(n) ==
    /\ Becomes(Released(World, n))
    /\ queue' = {r \in queue : r[2] # n}
    /\ acks' = [acks EXCEPT ![n] = {}]

LamportInit ==
    /\ counter = [n \in LNode |-> 0]
    /\ events = [n \in LNode |-> <<>>]
    /\ queue = {} /\ acks = [n \in LNode |-> {}]
    /\ calls = 0

LamportNext ==
    \/ \E n \in LNode : LocalEvent(n) \/ MutexRequest(n) \/ MutexRelease(n)
    \/ \E a, b \in LNode : Send(a, b)

LamportSpec == LamportInit /\ [][LamportNext]_lamportVars

(***************************************************************************)
(* The inductive invariant                                                 *)
(***************************************************************************)

EventType == [ts : Nat, reach : [LNode -> Nat]]
Worlds == [counter : [LNode -> Nat], events : [LNode -> Seq(EventType)]]

\* The timestamps of a log increase, up to the node's clock.
LogsOrdered(w) ==
    \A n \in LNode : \A j \in 1..Len(w.events[n]) :
        /\ w.events[n][j].ts =< w.counter[n]
        /\ \A i \in 1..(j - 1) : w.events[n][i].ts < w.events[n][j].ts

\* An event reaches all of its own log up to itself; the last event it reaches
\* in another log exists and has a smaller timestamp.
ReachIsPast(w) ==
    \A n \in LNode : \A j \in 1..Len(w.events[n]) :
        /\ w.events[n][j].reach[n] = j
        /\ \A a \in LNode \ {n} :
              /\ w.events[n][j].reach[a] =< Len(w.events[a])
              /\ w.events[n][j].reach[a] # 0 =>
                    w.events[a][w.events[n][j].reach[a]].ts < w.events[n][j].ts

\* Every clock has passed every request in the queue: the next request of any
\* node comes after them.
RequestsKnown ==
    /\ queue \in SUBSET (Nat \X LNode)
    /\ \A r \in queue : \A n \in LNode : r[1] =< counter[n]

MutexInv ==
    /\ World \in Worlds /\ acks \in [LNode -> SUBSET LNode]
    /\ LogsOrdered(World) /\ ReachIsPast(World)
    /\ RequestsKnown

(***************************************************************************)
(* Properties                                                              *)
(***************************************************************************)

\* happens_before(a, b): b reaches a, and a is not b.
HappensBefore(a, i, b, j) == events[b][j].reach[a] >= i /\ <<a, i>> # <<b, j>>

\* The clock condition, which total_order needs to respect happens_before: an
\* event that happens before another has the smaller timestamp.
ClockCondition ==
    \A a, b \in LNode : \A i \in DOMAIN events[a], j \in DOMAIN events[b] :
        HappensBefore(a, i, b, j) => events[a][i].ts < events[b][j].ts

\* A node that may enter the critical section may do so until it releases: no
\* later request, of another node or of its own, gets in front of it.
KeepsEntry == \A n \in LNode : CanEnter(n) => CanEnter(n)' \/ n \notin {r[2] : r \in queue'}
=============================================================================
