------------------------- MODULE TotalOrderBroadcast -------------------------
(***************************************************************************)
(* total-order-broadcast/total_order_broadcast.py: ConsensusInstance,      *)
(* TOBNode and TOBCluster.  Every slot is decided by single-decree Paxos;  *)
(* a node delivers the decided slots in order.                             *)
(*                                                                         *)
(* _route_messages delivers level by level, which is the order of one      *)
(* queue: net.  run_until_delivered ticks all alive nodes and then routes  *)
(* until nothing is left, so broadcast, crash and recover only happen      *)
(* while net is empty.  The acceptor state survives a crash.               *)
(***************************************************************************)
EXTENDS Integers, Sequences, FiniteSets

CONSTANTS N,          \* number of nodes
          Value,      \* messages that are broadcast
          None,       \* no value
          MaxSlot,    \* bound: slots, and broadcasts
          MaxRound,   \* bound: rounds of a proposal
          Crashable   \* nodes that may crash

ASSUME SizeAssumption == N \in Nat \ {0} /\ MaxSlot \in Nat /\ MaxRound \in Nat
ASSUME NoneAssumption == None \notin Value
ASSUME CrashableAssumption == Crashable \subseteq 0..(N - 1)

Node == 0..(N - 1)
Slot == 1..MaxSlot    \* slot s of the model is slot s - 1 of the code

VARIABLES
  promised, acceptedNum, acceptedVal,  \* ConsensusInstance: acceptor state
  decided,            \* _decided_value; None while the slot is undecided
  delivered,          \* _delivered; _next_slot is the slot after its last
  pending,            \* _pending
  prop,               \* _proposals: per slot a set of at most one proposal
  alive,              \* nodes that are alive
  net,                \* messages on their way, oldest first
  turn,               \* node whose tick is next; N while messages are routed
  sent                \* history: values each node broadcast

acceptorVars == <<promised, acceptedNum, acceptedVal>>
learnerVars == <<decided, delivered, pending, prop>>
vars == <<acceptorVars, learnerVars, alive, net, turn, sent>>

MajoritySize_Half == N \div 2
MajoritySize == N \div 2 + 1

\* _make_proposal_number
Number(round, n) == round * N + n

Init ==
  /\ promised = [n \in Node |-> [s \in Slot |-> -1]]
  /\ acceptedNum = [n \in Node |-> [s \in Slot |-> -1]]
  /\ acceptedVal = [n \in Node |-> [s \in Slot |-> None]]
  /\ decided = [n \in Node |-> [s \in Slot |-> None]]
  /\ delivered = [n \in Node |-> << >>]
  /\ pending = [n \in Node |-> << >>]
  /\ prop = [n \in Node |-> [s \in Slot |-> {}]]
  /\ alive = Node
  /\ net = << >>
  /\ turn = 0
  /\ sent = [n \in Node |-> {}]

-----------------------------------------------------------------------------
\* _deliver_decided_slots: d with the decided values of the slots that follow
DeliveredAfter(dec, d) ==
  LET last == CHOOSE m \in Len(d)..MaxSlot :
                /\ \A s \in (Len(d) + 1)..m : dec[s] # None
                /\ m = MaxSlot \/ dec[m + 1] = None
  IN  [s \in 1..last |-> IF s =< Len(d) THEN d[s] ELSE dec[s]]

\* The messages of one broadcast, to every node including the sender
ToAll(m) == [i \in 1..N |-> [m EXCEPT !.to = i - 1]]

Prepare(n, s, round) ==
  [type |-> "prepare", slot |-> s, num |-> Number(round, n), from |-> n, to |-> n]

NewProposal(v) ==
  [round |-> 0, phase |-> "prepare", value |-> v, original |-> v,
   promises |-> {}, accepts |-> {}, high |-> -1, highVal |-> None, rejections |-> 0]

\* _find_proposal_slot, for the i-th pending message: the free slots are taken
\* in order
FreeSlots(n) ==
  {s \in Slot : s > Len(delivered[n]) /\ decided[n][s] = None /\ prop[n][s] = {}}
SlotFor(n, i) ==
  CHOOSE s \in FreeSlots(n) : Cardinality({r \in FreeSlots(n) : r < s}) = i - 1

\* What node n sends in tick: a prepare to all for each pending message
TickMessages(n) ==
  [j \in 1..(N * Len(pending[n])) |->
     [Prepare(n, SlotFor(n, (j - 1) \div N + 1), 0) EXCEPT !.to = (j - 1) % N]]

\* TOBNode.tick of the node whose turn it is.  The pending messages become
\* proposals.  tick also re-proposes for proposals whose slot is decided;
\* NoDecidedProposal shows that there are none.
Tick(n) ==
  /\ turn = n
  /\ turn' = turn + 1
  /\ IF n \in alive
     THEN /\ Len(pending[n]) =< Cardinality(FreeSlots(n))    \* bound: MaxSlot
          /\ prop' = [prop EXCEPT ![n] = [s \in Slot |-> @[s] \cup
               {NewProposal(pending[n][i]) : i \in {j \in 1..Len(pending[n]) : SlotFor(n, j) = s}}]]
          /\ pending' = [pending EXCEPT ![n] = << >>]
          /\ net' = net \o TickMessages(n)
     ELSE UNCHANGED <<prop, pending, net>>
  /\ UNCHANGED <<acceptorVars, decided, delivered, alive, sent>>

\* Every node has ticked and every message was routed
Quiet == net = << >> /\ turn = 0

-----------------------------------------------------------------------------
(* TOBNode.receive, on the message that is next.                           *)

Msg == Head(net)

\* The next message is of the given type and goes to n, which is alive
Receives(n, type) ==
  /\ turn = N
  /\ net # << >>
  /\ Msg.to = n /\ Msg.type = type
  /\ n \in alive

\* The message is consumed, and `out` queued behind the others
Reply(out) == net' = Tail(net) \o out /\ UNCHANGED turn

DropMessage ==
  /\ turn = N
  /\ net # << >>
  /\ Msg.to \notin alive
  /\ Reply(<< >>)
  /\ UNCHANGED <<acceptorVars, learnerVars, alive, sent>>

EndRound ==
  /\ turn = N
  /\ net = << >>
  /\ turn' = 0
  /\ UNCHANGED <<acceptorVars, learnerVars, alive, net, sent>>

\* ConsensusInstance.prepare
MayPromise(num, promise) == num > promise

HandlePrepare(n) ==
  LET s == Msg.slot
      ok == MayPromise(Msg.num, promised[n][s])
  IN
  /\ Receives(n, "prepare")
  /\ promised' = [promised EXCEPT ![n][s] = IF ok THEN Msg.num ELSE @]
  /\ Reply(<<[type |-> "prepare_response", slot |-> s, num |-> Msg.num, from |-> n,
              to |-> Msg.from, ok |-> ok, accNum |-> acceptedNum[n][s],
              accVal |-> acceptedVal[n][s]]>>)
  /\ UNCHANGED <<acceptedNum, acceptedVal, learnerVars, alive, sent>>

\* ConsensusInstance.accept
MayAccept_Always(num, promise) == TRUE
MayAccept(num, promise) == num >= promise

HandleAcceptRequest(n) ==
  LET s == Msg.slot
      ok == MayAccept(Msg.num, promised[n][s])
  IN
  /\ Receives(n, "accept_request")
  /\ promised' = [promised EXCEPT ![n][s] = IF ok THEN Msg.num ELSE @]
  /\ acceptedNum' = [acceptedNum EXCEPT ![n][s] = IF ok THEN Msg.num ELSE @]
  /\ acceptedVal' = [acceptedVal EXCEPT ![n][s] = IF ok THEN Msg.val ELSE @]
  /\ Reply(<<[type |-> "accept_response", slot |-> s, num |-> Msg.num, from |-> n,
              to |-> Msg.from, ok |-> ok, val |-> Msg.val]>>)
  /\ UNCHANGED <<learnerVars, alive, sent>>

\* The node's proposal p that the response in Msg is about
Awaits(n, p, phase) ==
  /\ p \in prop[n][Msg.slot]
  /\ p.phase = phase
  /\ Number(p.round, n) = Msg.num

\* A response to a proposal that was withdrawn, or to another phase or round
IgnoreResponse(n) ==
  /\ \/ /\ Receives(n, "prepare_response")
        /\ ~\E p \in prop[n][Msg.slot] : Awaits(n, p, "prepare")
     \/ /\ Receives(n, "accept_response")
        /\ ~\E p \in prop[n][Msg.slot] : Awaits(n, p, "accept")
  /\ Reply(<< >>)
  /\ UNCHANGED <<acceptorVars, learnerVars, alive, sent>>

SetProposal(n, p) == prop' = [prop EXCEPT ![n][Msg.slot] = {p}]

\* Of the accepted values in the promises, the one of the highest number
Higher(p) == Msg.accNum > p.high

\* A promise; the majority of them starts phase 2
HandlePromise(n, p) ==
  LET q == [p EXCEPT !.promises = @ \cup {Msg.from},
                     !.high = IF Higher(p) THEN Msg.accNum ELSE @,
                     !.highVal = IF Higher(p) THEN Msg.accVal ELSE @]
      v == IF q.highVal # None THEN q.highVal ELSE q.value
  IN
  /\ Receives(n, "prepare_response")
  /\ Awaits(n, p, "prepare")
  /\ Msg.ok
  /\ IF Cardinality(q.promises) < MajoritySize
     THEN SetProposal(n, q) /\ Reply(<< >>)
     ELSE /\ SetProposal(n, [q EXCEPT !.phase = "accept", !.value = v, !.rejections = 0])
          /\ Reply(ToAll([type |-> "accept_request", slot |-> Msg.slot, num |-> Msg.num,
                          val |-> v, from |-> n, to |-> n]))
  /\ UNCHANGED <<acceptorVars, decided, delivered, pending, alive, sent>>

\* The value goes back to the queue when the slot was decided for another one
Requeued_Never(q, val, original) == q
Requeued_Always(q, val, original) == Append(q, original)
Requeued(q, val, original) == IF val # original THEN Append(q, original) ELSE q

\* A rejection in either phase; _bump_and_retry once no majority is possible
HandleRejection(n, p) ==
  LET q == [p EXCEPT !.rejections = @ + 1]
      s == Msg.slot
  IN
  /\ \/ Receives(n, "prepare_response") /\ Awaits(n, p, "prepare")
     \/ Receives(n, "accept_response") /\ Awaits(n, p, "accept")
  /\ ~Msg.ok
  /\ \/ /\ q.rejections =< N - MajoritySize
        /\ SetProposal(n, q) /\ Reply(<< >>)
     \/ /\ q.rejections > N - MajoritySize
        /\ p.round < MaxRound
        /\ SetProposal(n, [NewProposal(p.value) EXCEPT !.round = p.round + 1,
                                                       !.original = p.original])
        /\ Reply(ToAll(Prepare(n, s, p.round + 1)))
  /\ UNCHANGED <<acceptorVars, decided, delivered, pending, alive, sent>>

\* The node's proposals once the slot is decided
Withdrawn_Kept(n, s) == prop
Withdrawn(n, s) == [prop EXCEPT ![n][s] = {}]

\* Node n learns that the slot s was decided for v, and drops its proposal for
\* the slot if it has one
Learn(n, s, v) ==
  LET dec == [decided[n] EXCEPT ![s] = IF @ = None THEN v ELSE @]
  IN
  /\ decided' = [decided EXCEPT ![n] = dec]
  /\ delivered' = [delivered EXCEPT ![n] = DeliveredAfter(dec, @)]
  /\ prop' = Withdrawn(n, s)
  /\ pending' = [pending EXCEPT ![n] =
       IF prop[n][s] = {} THEN @
       ELSE Requeued(@, dec[s], (CHOOSE p \in prop[n][s] : TRUE).original)]

\* An acceptance; the majority of them decides the slot
HandleAccepted(n, p) ==
  LET q == [p EXCEPT !.accepts = @ \cup {Msg.from}]
  IN
  /\ Receives(n, "accept_response")
  /\ Awaits(n, p, "accept")
  /\ Msg.ok
  /\ IF Cardinality(q.accepts) < MajoritySize
     THEN /\ SetProposal(n, q) /\ Reply(<< >>)
          /\ UNCHANGED <<decided, delivered, pending>>
     ELSE /\ Learn(n, Msg.slot, Msg.val)
          /\ Reply(ToAll([type |-> "decided", slot |-> Msg.slot, val |-> Msg.val,
                          from |-> n, to |-> n]))
  /\ UNCHANGED <<acceptorVars, alive, sent>>

HandleDecided(n) ==
  /\ Receives(n, "decided")
  /\ Learn(n, Msg.slot, Msg.val)
  /\ Reply(<< >>)
  /\ UNCHANGED <<acceptorVars, alive, sent>>

-----------------------------------------------------------------------------
(* TOBCluster.broadcast, crash_node and recover_node.                      *)

Broadcast(n, v) ==
  /\ Quiet
  /\ v \notin sent[n]                                 \* bounds: once per node,
  /\ Cardinality({x \in Node \X Value : x[2] \in sent[x[1]]}) < MaxSlot
  /\ pending' = [pending EXCEPT ![n] = Append(@, v)]
  /\ sent' = [sent EXCEPT ![n] = @ \cup {v}]
  /\ UNCHANGED <<acceptorVars, decided, delivered, prop, alive, net, turn>>

Crash(n) ==
  /\ Quiet
  /\ n \in alive \cap Crashable
  /\ alive' = alive \ {n}
  /\ UNCHANGED <<acceptorVars, learnerVars, net, turn, sent>>

\* What recover_node hands over: the delivered messages of the first alive node
CatchUp ==
  IF alive = {} THEN << >>
  ELSE delivered[CHOOSE m \in alive : \A k \in alive : m =< k]

Recover(n) ==
  LET dec == [s \in Slot |-> IF decided[n][s] = None /\ s =< Len(CatchUp)
                             THEN CatchUp[s] ELSE decided[n][s]]
  IN
  /\ Quiet
  /\ n \notin alive
  /\ alive' = alive \cup {n}
  /\ pending' = [pending EXCEPT ![n] = << >>]
  /\ prop' = [prop EXCEPT ![n] = [s \in Slot |-> {}]]
  /\ decided' = [decided EXCEPT ![n] = dec]
  /\ delivered' = [delivered EXCEPT ![n] = DeliveredAfter(dec, @)]
  /\ UNCHANGED <<acceptorVars, net, turn, sent>>

Receive ==
  \E n \in Node :
    \/ HandlePrepare(n)
    \/ HandleAcceptRequest(n)
    \/ IgnoreResponse(n)
    \/ HandleDecided(n)
    \/ \E s \in Slot : \E p \in prop[n][s] :
         \/ HandlePromise(n, p)
         \/ HandleRejection(n, p)
         \/ HandleAccepted(n, p)

Next ==
  \/ \E n \in Node : Tick(n)
  \/ Receive
  \/ DropMessage
  \/ EndRound
  \/ \E n \in Node, v \in Value : Broadcast(n, v)
  \/ \E n \in Node : Crash(n)
  \/ \E n \in Node : Recover(n)

Spec == Init /\ [][Next]_vars

\* run_until_delivered keeps ticking and routing
FairSpec == /\ Spec
            /\ WF_vars(\E n \in Node : Tick(n))
            /\ WF_vars(Receive)
            /\ WF_vars(DropMessage)
            /\ WF_vars(EndRound)

-----------------------------------------------------------------------------
(* Properties.                                                             *)

Number0 == Nat \cup {-1}
Proposal == [round : Nat, phase : {"prepare", "accept"}, value : Value, original : Value,
             promises : SUBSET Node, accepts : SUBSET Node, high : Number0,
             highVal : Value \cup {None}, rejections : Nat]

\* Acceptors, learners and proposals have their types, and a node has at most
\* one proposal for a slot.
TypeOK ==
  /\ promised \in [Node -> [Slot -> Number0]]
  /\ acceptedNum \in [Node -> [Slot -> Number0]]
  /\ acceptedVal \in [Node -> [Slot -> Value \cup {None}]]
  /\ decided \in [Node -> [Slot -> Value \cup {None}]]
  /\ delivered \in [Node -> Seq(Value)]
  /\ pending \in [Node -> Seq(Value)]
  /\ \A n \in Node, s \in Slot :
       prop[n][s] \subseteq Proposal /\ Cardinality(prop[n][s]) =< 1
  /\ alive \subseteq Node
  /\ turn \in 0..N
  /\ sent \in [Node -> SUBSET Value]

\* Two nodes never decide a slot differently, although a recovered node starts
\* again at round 0 and so uses proposal numbers that it used before the crash.
Agreement ==
  \A m, n \in Node, s \in Slot :
    decided[m][s] # None /\ decided[n][s] # None => decided[m][s] = decided[n][s]

\* verify_total_order: of the sequences two nodes delivered, one is a prefix of
\* the other; slots are delivered without gaps.
TotalOrder ==
  \A m, n \in Node : \A i \in 1..Len(delivered[m]) :
    i =< Len(delivered[n]) => delivered[m][i] = delivered[n][i]

\* No message is delivered more often than it was broadcast: a proposer whose
\* value another node carried through does not queue it again.
NoDuplication ==
  \A n \in Node, v \in Value :
    Cardinality({i \in 1..Len(delivered[n]) : delivered[n][i] = v})
      =< Cardinality({m \in Node : v \in sent[m]})

\* A node's proposals are for undecided slots, so the branches for decided
\* slots in tick and _bump_and_retry are never taken.
NoDecidedProposal ==
  \A n \in Node, s \in Slot : prop[n][s] # {} => decided[n][s] = None

\* As long as no node crashes, what is broadcast is delivered by every node.
EventuallyDelivered ==
  \A n \in Node, v \in Value : v \in sent[n] ~>
    \A m \in Node : \E i \in 1..Len(delivered[m]) : delivered[m][i] = v
=============================================================================
