---------------------- MODULE TotalOrderBroadcastProofs ----------------------
(***************************************************************************)
(* Agreement, total order and no duplication of TotalOrderBroadcast, for   *)
(* any number of nodes, slots, rounds and crashes.                         *)
(*                                                                         *)
(* Messages are consumed, acceptors keep only their last acceptance and a  *)
(* recovered node forgets its proposals.  So the invariant says that there *)
(* are sets V of all acceptances and P of all proposals that reached phase *)
(* 2, of which the state shows a part; and, for no duplication, a set O of *)
(* the slots that every broadcast value was proposed for.                  *)
(***************************************************************************)
EXTENDS TotalOrderBroadcast, NumberLemmas, FiniteSetTheorems, TLAPS

Message ==
  [type : {"prepare"}, slot : Slot, num : Nat, from : Node, to : Node]
    \cup [type : {"prepare_response"}, slot : Slot, num : Nat, from : Node, to : Node,
          ok : BOOLEAN, accNum : Number0, accVal : Value \cup {None}]
    \cup [type : {"accept_request"}, slot : Slot, num : Nat, val : Value, from : Node, to : Node]
    \cup [type : {"accept_response"}, slot : Slot, num : Nat, from : Node, to : Node,
          ok : BOOLEAN, val : Value]
    \cup [type : {"decided"}, slot : Slot, val : Value, from : Node, to : Node]

InNet == {net[i] : i \in 1..Len(net)}

Majority == {Q \in SUBSET Node : Cardinality(Q) >= MajoritySize}

Votes == Node \X Slot \X Nat \X Value
Proposals == Slot \X Nat \X Value

Voted(V, a, s, b) == \E v \in Value : <<a, s, b, v>> \in V
WontVote(V, a, s, c) == promised[a][s] > c /\ ~Voted(V, a, s, c)

\* No value but v was or will be chosen for slot s with a number below b.
SafeAt(V, s, b, v) ==
  \A c \in Nat : c < b =>
    \E Q \in Majority : \A a \in Q : <<a, s, c, v>> \in V \/ WontVote(V, a, s, c)

ChosenAt(V, s, b, v) == \E Q \in Majority : \A a \in Q : <<a, s, b, v>> \in V
Chosen(V, s, v) == \E b \in Nat : ChosenAt(V, s, b, v)

\* Acceptor a promised b, and accepted nothing between k and b.
Promise(V, s, b, a, k) ==
  /\ promised[a][s] >= b
  /\ \A c \in Nat : k < c /\ c < b => ~Voted(V, a, s, c)

\* w, if there is a value, was proposed with the number k.
Highest(P, s, b, k, w) ==
  /\ k \in Number0 /\ k < b
  /\ k = -1 => w = None
  /\ k # -1 => w \in Value /\ <<s, k, w>> \in P

TypesOK ==
  /\ TypeOK
  /\ prop \in [Node -> [Slot -> SUBSET Proposal]]
  /\ \A n \in Node, s \in Slot : \A p, q \in prop[n][s] : p = q
  /\ net \in Seq(Message)

AcceptorsOK(V, P) ==
  /\ V \in SUBSET Votes /\ P \in SUBSET Proposals
  /\ \A a \in Node, s \in Slot :
       /\ acceptedNum[a][s] <= promised[a][s]
       /\ acceptedNum[a][s] = -1 => acceptedVal[a][s] = None
       /\ acceptedNum[a][s] # -1 => <<a, s, acceptedNum[a][s], acceptedVal[a][s]>> \in V
  /\ \A a \in Node, s \in Slot, b \in Nat, v \in Value :
       <<a, s, b, v>> \in V => b <= acceptedNum[a][s] /\ <<s, b, v>> \in P

\* One value per number and slot, safe, and some majority promised the number.
ProposedOK(V, P) ==
  \A s \in Slot, b \in Nat, v \in Value : <<s, b, v>> \in P =>
    /\ SafeAt(V, s, b, v)
    /\ \A w \in Value : <<s, b, w>> \in P => w = v
    /\ \E Q \in Majority : \A a \in Q : promised[a][s] >= b

MessageOK(V, P, m) ==
  /\ m.type = "prepare_response" /\ m.ok =>
       /\ Promise(V, m.slot, m.num, m.from, m.accNum)
       /\ Highest(P, m.slot, m.num, m.accNum, m.accVal)
  /\ m.type = "accept_request" => <<m.slot, m.num, m.val>> \in P
  /\ m.type = "accept_response" /\ m.ok => <<m.from, m.slot, m.num, m.val>> \in V
  /\ m.type = "decided" => Chosen(V, m.slot, m.val)
MessagesOK(V, P) == \A m \in InNet : MessageOK(V, P, m)

\* A promise of acceptor a for the number b of n is on its way.
Promises(n, s, b, a) ==
  \E m \in InNet : /\ m.type = "prepare_response" /\ m.ok
                   /\ m.to = n /\ m.slot = s /\ m.num = b /\ m.from = a

\* A number that reached phase 2 before, when its node had not yet crashed, is
\* promised by too few acceptors to do so again.
Spent(n, s, b, promises) ==
  \E Q \in Majority : \A a \in Q :
    promised[a][s] >= b /\ a \notin promises /\ ~Promises(n, s, b, a)

ProposalOK(V, P, n, s, b, p) ==
  /\ p.phase = "prepare" =>
       /\ p.accepts = {} /\ Highest(P, s, b, p.high, p.highVal)
       /\ \A a \in p.promises : Promise(V, s, b, a, p.high)
       /\ \A w \in Value : <<s, b, w>> \in P => Spent(n, s, b, p.promises)
  /\ p.phase = "accept" =>
       /\ <<s, b, p.value>> \in P
       /\ \A a \in p.accepts : <<a, s, b, p.value>> \in V
ProposalsOK(V, P) ==
  \A n \in Node, s \in Slot : \A p \in prop[n][s] :
    ProposalOK(V, P, n, s, Number(p.round, n), p)

\* What is under way in phase 1 has no higher number than the proposal, unless
\* that was withdrawn because the slot is decided.
Asked(n, s, b) ==
  decided[n][s] # None \/ \E p \in prop[n][s] : b <= Number(p.round, n)
Outstanding ==
  \A m \in InNet :
    /\ m.type = "prepare" => Asked(m.from, m.slot, m.num)
    /\ m.type = "prepare_response" => Asked(m.to, m.slot, m.num)

DecisionsOK(V) ==
  \A n \in Node :
    /\ \A s \in Slot : decided[n][s] # None => Chosen(V, s, decided[n][s])
    /\ Len(delivered[n]) <= MaxSlot
    /\ \A i \in 1..Len(delivered[n]) : delivered[n][i] = decided[n][i]

PaxosInv(V, P) ==
  /\ TypesOK /\ Outstanding /\ NoDecidedProposal
  /\ AcceptorsOK(V, P) /\ ProposedOK(V, P)
  /\ MessagesOK(V, P) /\ ProposalsOK(V, P) /\ DecisionsOK(V)

-----------------------------------------------------------------------------
LEMMA NodesFinite ==
  /\ IsFiniteSet(Node) /\ Cardinality(Node) = N
  /\ \A S \in SUBSET Node : IsFiniteSet(S) /\ Cardinality(S) \in Nat
<1>1. IsFiniteSet(Node) /\ Cardinality(Node) = N
  <2>1. N - 1 \in Int /\ 0 \in Int /\ ~(0 > N - 1)
    BY SizeAssumption
  <2> QED
    BY <2>1, SizeAssumption, FS_Interval DEF Node
<1> QED
  BY <1>1, FS_Subset, FS_CardinalityType

LEMMA MajoritiesMeet ==
  ASSUME NEW Q \in Majority, NEW R \in Majority
  PROVE  \E a \in Q : a \in R
<1>1. Q \in SUBSET Node /\ R \in SUBSET Node
      /\ Cardinality(Q) >= MajoritySize /\ Cardinality(R) >= MajoritySize
  BY DEF Majority
<1>2. Cardinality(Q) \in Nat /\ Cardinality(R) \in Nat
  BY <1>1, NodesFinite
<1>3. N \in Nat /\ MajoritySize + MajoritySize > N /\ MajoritySize \in Nat
  BY SizeAssumption DEF MajoritySize
<1>4. Cardinality(Q) + Cardinality(R) > Cardinality(Node)
  BY <1>1, <1>2, <1>3, NodesFinite
<1>5. Q \cap R # {}
  BY <1>1, <1>4, NodesFinite, FS_MajoritiesIntersect
<1> QED
  BY <1>5

LEMMA MajorityHas == ASSUME NEW Q \in Majority PROVE Q \in SUBSET Node /\ \E a \in Q : a \in Node
BY MajoritiesMeet DEF Majority

(* Numbers grow with the round, and no two nodes share one. *)
LEMMA NumberNat ==
  ASSUME NEW n \in Node, NEW r \in Nat
  PROVE  Number(r, n) \in Nat /\ Number(r + 1, n) > Number(r, n)
<1>1. N \in Nat \ {0} /\ n \in Nat
  BY SizeAssumption DEF Node
<1>2. r * N \in Nat
  BY <1>1
<1>3. (r + 1) * N = r * N + N
  BY <1>1
<1> QED
  BY <1>1, <1>2, <1>3 DEF Number

LEMMA NumberOwner ==
  ASSUME NEW m \in Node, NEW n \in Node, NEW q \in Nat, NEW r \in Nat,
         Number(q, m) = Number(r, n)
  PROVE  m = n
<1>1. N \in Nat \ {0} /\ m \in 0..(N - 1) /\ n \in 0..(N - 1)
  BY SizeAssumption DEF Node
<1>2. q * N + m = r * N + n
  BY DEF Number
<1>3. ASSUME NEW x \in Nat, NEW y \in Nat, x < y
      PROVE  x * N + N <= y * N /\ x * N \in Nat /\ y * N \in Nat
  <2>1. PICK k \in Nat : y = x + 1 + k
    <3>1. y - x - 1 \in Nat /\ y = x + 1 + (y - x - 1)
      BY <1>3
    <3> QED
      BY <3>1
  <2>2. y * N = x * N + N + k * N
    BY <1>1, <2>1
  <2>3. k * N \in Nat /\ x * N \in Nat /\ y * N \in Nat
    BY <1>1
  <2> QED
    BY <1>1, <2>2, <2>3
<1>4. CASE q < r
  BY <1>1, <1>2, <1>3, <1>4
<1>5. CASE r < q
  BY <1>1, <1>2, <1>3, <1>5
<1>6. CASE q = r
  <2>1. r * N \in Nat
    BY <1>1
  <2> QED
    BY <1>1, <1>2, <1>6, <2>1
<1> QED
  BY <1>4, <1>5, <1>6

-----------------------------------------------------------------------------
(* The queue.                                                              *)

LEMMA HeadInNet ==
  ASSUME TypesOK, net # << >>
  PROVE  Msg \in InNet /\ Msg \in Message
<1>1. net \in Seq(Message) /\ Len(net) \in Nat /\ Len(net) > 0
  BY DEF TypesOK
<1>2. Msg = net[1] /\ 1 \in 1..Len(net)
  BY <1>1 DEF Msg
<1> QED
  BY <1>1, <1>2 DEF InNet

LEMMA ReplyNet ==
  ASSUME TypesOK, net # << >>, NEW out \in Seq(Message), Reply(out)
  PROVE  /\ net' \in Seq(Message)
         /\ \A m \in InNet' : m \in InNet \/ \E i \in 1..Len(out) : m = out[i]
<1>1. net \in Seq(Message) /\ Len(net) \in Nat /\ Len(net) > 0
  BY DEF TypesOK
<1>2. net' = Tail(net) \o out
  BY DEF Reply
<1>3. Tail(net) \in Seq(Message) /\ Len(Tail(net)) = Len(net) - 1
      /\ \A i \in 1..(Len(net) - 1) : Tail(net)[i] = net[i + 1]
  BY <1>1
<1>4. net' \in Seq(Message) /\ Len(net') = Len(net) - 1 + Len(out) /\ Len(out) \in Nat
  BY <1>1, <1>2, <1>3
<1>5. ASSUME NEW i \in 1..Len(net')
      PROVE  net'[i] \in InNet \/ \E j \in 1..Len(out) : net'[i] = out[j]
  <2>1. CASE i <= Len(net) - 1
    <3>1. net'[i] = net[i + 1] /\ i + 1 \in 1..Len(net)
      BY <1>1, <1>2, <1>3, <1>4, <2>1
    <3> QED
      BY <3>1 DEF InNet
  <2>2. CASE i > Len(net) - 1
    <3>1. net'[i] = out[i - (Len(net) - 1)] /\ i - (Len(net) - 1) \in 1..Len(out)
      BY <1>1, <1>2, <1>3, <1>4, <2>2
    <3> QED
      BY <3>1
  <2> QED
    BY <1>1, <1>4, <2>1, <2>2
<1>6. \A m \in InNet' : \E i \in 1..Len(net') : m = net'[i]
  BY DEF InNet
<1> QED
  BY <1>4, <1>5, <1>6

LEMMA DropNet ==
  ASSUME TypesOK, net # << >>, Reply(<< >>)
  PROVE  net' \in Seq(Message) /\ InNet' \subseteq InNet
<1>1. PICK out \in Seq(Message) : out = << >> /\ Len(out) = 0
  BY << >> \in Seq(Message) /\ Len(<< >>) = 0
<1>2. Reply(out)
  BY <1>1
<1>3. \A i \in 1..Len(out) : FALSE
  BY <1>1
<1> QED
  BY <1>2, <1>3, ReplyNet

-----------------------------------------------------------------------------
(* What acceptors did.                                                     *)

(* The invariant makes two choices for a slot equal: the later of the two    *)
(* numbers was proposed when nothing else could be chosen with the earlier.  *)
LEMMA ChosenAtMost ==
  ASSUME NEW V, NEW P, AcceptorsOK(V, P), ProposedOK(V, P),
         NEW s \in Slot, NEW b \in Nat, NEW c \in Nat, b <= c,
         NEW v \in Value, NEW w \in Value,
         ChosenAt(V, s, b, v), ChosenAt(V, s, c, w)
  PROVE  v = w
<1> PICK Q \in Majority : \A a \in Q : <<a, s, b, v>> \in V
  BY DEF ChosenAt
<1> PICK R \in Majority : \A a \in R : <<a, s, c, w>> \in V
  BY DEF ChosenAt
<1>1. <<s, b, v>> \in P /\ <<s, c, w>> \in P
  BY MajorityHas DEF AcceptorsOK
<1>2. CASE b = c
  BY <1>1, <1>2 DEF ProposedOK
<1>3. CASE b < c
  <2>1. SafeAt(V, s, c, w)
    BY <1>1 DEF ProposedOK
  <2>2. PICK T \in Majority : \A a \in T : <<a, s, b, w>> \in V \/ WontVote(V, a, s, b)
    BY <1>3, <2>1 DEF SafeAt
  <2>3. PICK a \in Q : a \in T
    BY MajoritiesMeet
  <2>4. <<a, s, b, v>> \in V /\ a \in Node
    BY <2>3, MajorityHas
  <2>5. <<a, s, b, w>> \in V
    BY <2>2, <2>3, <2>4 DEF WontVote, Voted
  <2>6. <<s, b, w>> \in P
    BY <2>4, <2>5 DEF AcceptorsOK
  <2> QED
    BY <1>1, <2>6 DEF ProposedOK
<1> QED
  BY <1>2, <1>3

LEMMA ChosenOnce ==
  ASSUME NEW V, NEW P, AcceptorsOK(V, P), ProposedOK(V, P), NEW s \in Slot,
         NEW v \in Value, NEW w \in Value, Chosen(V, s, v), Chosen(V, s, w)
  PROVE  v = w
<1>1. PICK b \in Nat : ChosenAt(V, s, b, v)
  BY DEF Chosen
<1>2. PICK c \in Nat : ChosenAt(V, s, c, w)
  BY DEF Chosen
<1>3. CASE b <= c
  BY <1>1, <1>2, <1>3, ChosenAtMost
<1>4. CASE c <= b
  BY <1>1, <1>2, <1>4, ChosenAtMost
<1> QED
  BY <1>3, <1>4

(* The acceptors go on: promises grow, and what is accepted is accepted with *)
(* a number that was not below the promise.                                  *)
Grows(V, P, V2, P2) ==
  /\ V \subseteq V2 /\ P \subseteq P2 /\ V2 \in SUBSET Votes /\ P2 \in SUBSET Proposals
  /\ promised \in [Node -> [Slot -> Int]] /\ promised' \in [Node -> [Slot -> Int]]
  /\ \A a \in Node, s \in Slot : promised[a][s] <= promised'[a][s]
  /\ \A a \in Node, s \in Slot, b \in Nat, v \in Value :
       <<a, s, b, v>> \in V2 => <<a, s, b, v>> \in V \/ b >= promised[a][s]

LEMMA GrowsVoted ==
  ASSUME NEW V, NEW P, NEW V2, NEW P2, Grows(V, P, V2, P2),
         NEW a \in Node, NEW s \in Slot, NEW c \in Nat, promised[a][s] > c,
         ~Voted(V, a, s, c)
  PROVE  ~Voted(V2, a, s, c)
<1>1. promised[a][s] \in Int
  BY DEF Grows
<1> QED
  BY <1>1 DEF Voted, Grows

LEMMA GrowsPromise ==
  ASSUME NEW V, NEW P, NEW V2, NEW P2, Grows(V, P, V2, P2),
         NEW a \in Node, NEW s \in Slot, NEW b \in Nat, NEW k \in Number0,
         Promise(V, s, b, a, k)
  PROVE  Promise(V2, s, b, a, k)'
<1>1. promised[a][s] \in Int /\ promised'[a][s] \in Int /\ promised[a][s] <= promised'[a][s]
  BY DEF Grows
<1>2. promised'[a][s] >= b
  BY <1>1 DEF Promise
<1>3. \A c \in Nat : k < c /\ c < b => ~Voted(V2, a, s, c)
  BY <1>1, GrowsVoted DEF Promise
<1> QED
  BY <1>2, <1>3 DEF Promise, Voted

LEMMA GrowsSafe ==
  ASSUME NEW V, NEW P, NEW V2, NEW P2, Grows(V, P, V2, P2),
         NEW s \in Slot, NEW b \in Nat, NEW v \in Value, SafeAt(V, s, b, v)
  PROVE  SafeAt(V2, s, b, v)'
<1> SUFFICES ASSUME NEW c \in Nat, c < b
             PROVE  \E Q \in Majority : \A a \in Q : <<a, s, c, v>> \in V2 \/
                       (promised'[a][s] > c /\ ~Voted(V2, a, s, c))
  BY DEF SafeAt, WontVote, Voted, Majority, MajoritySize, Node
<1>1. PICK Q \in Majority : \A a \in Q : <<a, s, c, v>> \in V \/ WontVote(V, a, s, c)
  BY DEF SafeAt
<1>2. ASSUME NEW a \in Q
      PROVE  <<a, s, c, v>> \in V2 \/ (promised'[a][s] > c /\ ~Voted(V2, a, s, c))
  <2>0. a \in Node
    BY MajorityHas
  <2>1. promised[a][s] \in Int /\ promised'[a][s] \in Int /\ promised[a][s] <= promised'[a][s]
    BY <2>0 DEF Grows
  <2>2. CASE <<a, s, c, v>> \in V
    BY <2>2 DEF Grows
  <2>3. CASE WontVote(V, a, s, c)
    BY <2>0, <2>1, <2>3, GrowsVoted DEF WontVote
  <2> QED
    BY <1>1, <2>2, <2>3
<1> QED
  BY <1>2

LEMMA GrowsChosen ==
  ASSUME NEW V, NEW P, NEW V2, NEW P2, Grows(V, P, V2, P2),
         NEW s, NEW v, Chosen(V, s, v)
  PROVE  Chosen(V2, s, v)
BY DEF Chosen, ChosenAt, Grows

LEMMA GrowsHighest ==
  ASSUME NEW V, NEW P, NEW V2, NEW P2, Grows(V, P, V2, P2),
         NEW s, NEW b, NEW k, NEW w, Highest(P, s, b, k, w)
  PROVE  Highest(P2, s, b, k, w)
BY DEF Highest, Grows

LEMMA AcceptorFacts ==
  ASSUME NEW V, NEW P, TypesOK, AcceptorsOK(V, P), NEW a \in Node, NEW s \in Slot
  PROVE  /\ promised[a][s] \in Int /\ acceptedNum[a][s] \in Int /\ acceptedNum[a][s] \in Number0
         /\ acceptedNum[a][s] <= promised[a][s]
         /\ acceptedNum[a][s] = -1 => acceptedVal[a][s] = None
         /\ acceptedNum[a][s] # -1 =>
              acceptedVal[a][s] \in Value /\ <<s, acceptedNum[a][s], acceptedVal[a][s]>> \in P
         /\ \A c \in Nat : acceptedNum[a][s] < c => ~Voted(V, a, s, c)
<1>1. promised[a][s] \in Int /\ acceptedNum[a][s] \in Int /\ acceptedNum[a][s] \in Number0
  BY DEF TypesOK, TypeOK, Number0
<1>2. acceptedNum[a][s] <= promised[a][s] /\ (acceptedNum[a][s] = -1 => acceptedVal[a][s] = None)
  BY DEF AcceptorsOK
<1>3. ASSUME acceptedNum[a][s] # -1
      PROVE  acceptedVal[a][s] \in Value /\ <<s, acceptedNum[a][s], acceptedVal[a][s]>> \in P
  <2>1. <<a, s, acceptedNum[a][s], acceptedVal[a][s]>> \in V
    BY <1>3 DEF AcceptorsOK
  <2>2. acceptedNum[a][s] \in Nat /\ acceptedVal[a][s] \in Value
    BY <2>1 DEF AcceptorsOK, Votes
  <2> QED
    BY <2>1, <2>2 DEF AcceptorsOK
<1>4. ASSUME NEW c \in Nat, acceptedNum[a][s] < c PROVE ~Voted(V, a, s, c)
  <2>1. \A v \in Value : <<a, s, c, v>> \in V => c <= acceptedNum[a][s]
    BY DEF AcceptorsOK
  <2>2. ~(c <= acceptedNum[a][s])
    BY <1>1, <1>4
  <2> QED
    BY <2>1, <2>2 DEF Voted
<1> QED
  BY <1>1, <1>2, <1>3, <1>4

LEMMA MessageTypes ==
  ASSUME NEW m \in Message
  PROVE  /\ m.type \in {"prepare", "prepare_response", "accept_request", "accept_response", "decided"}
         /\ m.slot \in Slot /\ m.from \in Node /\ m.to \in Node
         /\ m.type # "decided" => m.num \in Nat
         /\ m.type = "prepare_response" =>
              m.ok \in BOOLEAN /\ m.accNum \in Number0 /\ m.accVal \in Value \cup {None}
         /\ m.type \in {"accept_request", "accept_response", "decided"} => m.val \in Value
         /\ m.type = "accept_response" => m.ok \in BOOLEAN
BY DEF Message

LEMMA InNetTyped ==
  ASSUME TypesOK, NEW m \in InNet
  PROVE  m \in Message
BY DEF TypesOK, InNet

(* Messages and proposals that a step leaves alone. *)
LEMMA OldMessage ==
  ASSUME NEW V, NEW P, NEW V2, NEW P2, Grows(V, P, V2, P2),
         NEW m \in Message, MessageOK(V, P, m)
  PROVE  MessageOK(V2, P2, m)'
<1>1. CASE m.type = "prepare_response" /\ m.ok
  <2>1. /\ m.slot \in Slot /\ m.num \in Nat /\ m.from \in Node /\ m.accNum \in Number0
        /\ Promise(V, m.slot, m.num, m.from, m.accNum)
        /\ Highest(P, m.slot, m.num, m.accNum, m.accVal)
    BY <1>1, MessageTypes DEF MessageOK
  <2>2. Promise(V2, m.slot, m.num, m.from, m.accNum)'
    BY <2>1, GrowsPromise
  <2>3. Highest(P2, m.slot, m.num, m.accNum, m.accVal)
    BY <2>1, GrowsHighest
  <2> QED
    BY <1>1, <2>2, <2>3 DEF MessageOK, Highest
<1>2. CASE m.type = "decided"
  <2>1. Chosen(V2, m.slot, m.val)
    BY <1>2, GrowsChosen DEF MessageOK
  <2> QED
    BY <1>2, <2>1 DEF MessageOK, Chosen, ChosenAt, Majority, MajoritySize, Node
<1>3. CASE m.type # "decided" /\ ~(m.type = "prepare_response" /\ m.ok)
  BY <1>3 DEF MessageOK, Grows
<1> QED
  BY <1>1, <1>2, <1>3

(* No acceptor promises a number that is not above its promise. *)
NewPromises ==
  \A n \in Node, s \in Slot, b \in Nat, a \in Node :
    Promises(n, s, b, a)' => Promises(n, s, b, a) \/ promised[a][s] < b

LEMMA SpentStays ==
  ASSUME NEW V, NEW P, NEW V2, NEW P2, Grows(V, P, V2, P2), NewPromises,
         NEW n \in Node, NEW s \in Slot, NEW b \in Nat, NEW promises, Spent(n, s, b, promises)
  PROVE  Spent(n, s, b, promises)'
<1>1. PICK Q \in Majority : \A a \in Q :
         promised[a][s] >= b /\ a \notin promises /\ ~Promises(n, s, b, a)
  BY DEF Spent
<1>2. ASSUME NEW a \in Q
      PROVE  promised'[a][s] >= b /\ a \notin promises /\ ~Promises(n, s, b, a)'
  <2>0. a \in Node
    BY MajorityHas
  <2>1. promised[a][s] \in Int /\ promised'[a][s] \in Int /\ promised[a][s] <= promised'[a][s]
    BY <2>0 DEF Grows
  <2> QED
    BY <1>1, <2>0, <2>1 DEF NewPromises
<1> QED
  BY <1>2 DEF Spent, Majority, MajoritySize, Node

LEMMA OldProposal ==
  ASSUME NEW V, NEW P, NEW V2, NEW P2, Grows(V, P, V2, P2), NewPromises,
         NEW n \in Node, NEW s \in Slot, NEW b \in Nat, NEW p \in Proposal,
         ProposalOK(V, P, n, s, b, p),
         p.phase = "prepare" => \A w \in Value : <<s, b, w>> \in P2 => <<s, b, w>> \in P
  PROVE  ProposalOK(V2, P2, n, s, b, p)'
<1>0. p.high \in Number0 /\ p.promises \in SUBSET Node /\ p.phase \in {"prepare", "accept"}
  BY DEF Proposal
<1>1. CASE p.phase = "prepare"
  <2>1. Highest(P2, s, b, p.high, p.highVal)
    BY <1>1, GrowsHighest DEF ProposalOK
  <2>2. \A a \in p.promises : Promise(V2, s, b, a, p.high)'
    BY <1>0, <1>1, GrowsPromise DEF ProposalOK
  <2>3. \A w \in Value : <<s, b, w>> \in P2 => Spent(n, s, b, p.promises)'
    BY <1>1, SpentStays DEF ProposalOK
  <2> QED
    BY <1>1, <2>1, <2>2, <2>3 DEF ProposalOK, Highest
<1>2. CASE p.phase = "accept"
  BY <1>2 DEF ProposalOK, Grows
<1> QED
  BY <1>0, <1>1, <1>2

LEMMA ProposalsStay ==
  ASSUME NEW V, NEW P, NEW V2, Grows(V, P, V2, P), NewPromises, TypesOK, ProposalsOK(V, P),
         NEW n \in Node, NEW s \in Slot, NEW p \in prop[n][s]
  PROVE  ProposalOK(V2, P, n, s, Number(p.round, n), p)'
<1>1. p \in Proposal /\ p.round \in Nat
  BY DEF TypesOK, TypeOK, Proposal
<1>2. Number(p.round, n) \in Nat
  BY <1>1, NumberNat
<1> QED
  BY <1>1, <1>2, OldProposal DEF ProposalsOK

LEMMA ProposedStays ==
  ASSUME NEW V, NEW P, NEW V2, Grows(V, P, V2, P), ProposedOK(V, P)
  PROVE  ProposedOK(V2, P)'
<1> SUFFICES ASSUME NEW s \in Slot, NEW b \in Nat, NEW v \in Value, <<s, b, v>> \in P
             PROVE  /\ SafeAt(V2, s, b, v)'
                    /\ \A w \in Value : <<s, b, w>> \in P => w = v
                    /\ \E Q \in Majority : \A a \in Q : promised'[a][s] >= b
  BY DEF ProposedOK, Slot, Majority, MajoritySize, Node
<1>1. SafeAt(V2, s, b, v)'
  BY GrowsSafe DEF ProposedOK
<1>2. PICK Q \in Majority : \A a \in Q : promised[a][s] >= b
  BY DEF ProposedOK
<1>3. \A a \in Q : promised'[a][s] >= b
  <2> SUFFICES ASSUME NEW a \in Q PROVE promised'[a][s] >= b
    OBVIOUS
  <2>0. a \in Node
    BY MajorityHas
  <2>1. promised[a][s] \in Int /\ promised'[a][s] \in Int /\ promised[a][s] <= promised'[a][s]
    BY <2>0 DEF Grows
  <2> QED
    BY <1>2, <2>1
<1> QED
  BY <1>1, <1>3 DEF ProposedOK

(* A step that leaves the acceptors alone. *)
LEMMA AcceptorsStay ==
  ASSUME NEW V, NEW P, TypesOK, AcceptorsOK(V, P), ProposedOK(V, P), UNCHANGED acceptorVars
  PROVE  Grows(V, P, V, P) /\ AcceptorsOK(V, P)' /\ ProposedOK(V, P)'
<1>1. promised' = promised /\ acceptedNum' = acceptedNum /\ acceptedVal' = acceptedVal
  BY DEF acceptorVars
<1>2. promised \in [Node -> [Slot -> Int]]
  BY DEF TypesOK, TypeOK, Number0
<1>3. Grows(V, P, V, P)
  BY <1>1, <1>2 DEF Grows, AcceptorsOK
<1>4. AcceptorsOK(V, P)'
  BY <1>1 DEF AcceptorsOK
<1>5. ProposedOK(V, P)'
  BY <1>3, ProposedStays
<1> QED
  BY <1>3, <1>4, <1>5

-----------------------------------------------------------------------------
(* The actions.                                                            *)

LEMMA TypesStay ==
  ASSUME TypesOK, UNCHANGED <<acceptorVars, decided, delivered, prop>>,
         pending' \in [Node -> Seq(Value)], alive' \subseteq Node, turn' \in 0..N,
         sent' \in [Node -> SUBSET Value], net' \in Seq(Message)
  PROVE  TypesOK'
BY DEF TypesOK, TypeOK, acceptorVars

(* Steps that add no message and leave acceptors, proposals and decisions. *)
LEMMA QuietStep ==
  ASSUME NEW V, NEW P, PaxosInv(V, P), TypesOK',
         UNCHANGED <<acceptorVars, decided, delivered, prop>>, InNet' \subseteq InNet
  PROVE  PaxosInv(V, P)'
<1>0. /\ TypesOK /\ Outstanding /\ NoDecidedProposal
      /\ AcceptorsOK(V, P) /\ ProposedOK(V, P)
      /\ MessagesOK(V, P) /\ ProposalsOK(V, P) /\ DecisionsOK(V)
  BY DEF PaxosInv
<1>1. Grows(V, P, V, P) /\ AcceptorsOK(V, P)' /\ ProposedOK(V, P)'
  BY <1>0, AcceptorsStay
<1>2. NewPromises
  BY DEF NewPromises, Promises
<1>3. MessagesOK(V, P)'
  <2>1. \A m \in InNet : MessageOK(V, P, m)'
    BY <1>0, <1>1, InNetTyped, OldMessage DEF MessagesOK
  <2> QED
    BY <2>1 DEF MessagesOK
<1>4. ProposalsOK(V, P)'
  <2> SUFFICES ASSUME NEW n \in Node, NEW s \in Slot, NEW p \in prop[n][s]
               PROVE  ProposalOK(V, P, n, s, Number(p.round, n), p)'
    BY DEF ProposalsOK, Node, Slot
  <2> QED
    BY <1>0, <1>1, <1>2, ProposalsStay
<1>5. Outstanding'
  BY <1>0 DEF Outstanding, Asked
<1>6. NoDecidedProposal' /\ DecisionsOK(V)'
  BY <1>0 DEF NoDecidedProposal, DecisionsOK
<1> QED
  BY <1>1, <1>3, <1>4, <1>5, <1>6 DEF PaxosInv

LEMMA QuietSteps ==
  ASSUME NEW V, NEW P, PaxosInv(V, P),
         \/ DropMessage \/ EndRound \/ UNCHANGED vars
         \/ \E n \in Node : IgnoreResponse(n) \/ Crash(n)
         \/ \E n \in Node, v \in Value : Broadcast(n, v)
  PROVE  PaxosInv(V, P)'
<1>0. TypesOK
  BY DEF PaxosInv
<1>a. /\ pending \in [Node -> Seq(Value)] /\ alive \subseteq Node /\ turn \in 0..N
      /\ sent \in [Node -> SUBSET Value] /\ net \in Seq(Message)
  BY <1>0 DEF TypesOK, TypeOK
<1>1. CASE DropMessage \/ \E n \in Node : IgnoreResponse(n)
  <2>1. net # << >> /\ Reply(<< >>) /\ UNCHANGED <<acceptorVars, learnerVars, alive, sent>>
    BY <1>1 DEF DropMessage, IgnoreResponse, Receives
  <2>2. net' \in Seq(Message) /\ InNet' \subseteq InNet
    BY <1>0, <2>1, DropNet
  <2>3. UNCHANGED <<turn, decided, delivered, prop, pending>>
    BY <2>1 DEF Reply, learnerVars
  <2>4. TypesOK'
    BY <1>0, <1>a, <2>1, <2>2, <2>3, TypesStay
  <2> QED
    BY <2>1, <2>2, <2>3, <2>4, QuietStep
<1>2. CASE EndRound
  <2>1. UNCHANGED <<acceptorVars, decided, delivered, pending, prop, alive, net, sent>> /\ turn' = 0
    BY <1>2 DEF EndRound, learnerVars
  <2>2. turn' \in 0..N
    BY <2>1, SizeAssumption
  <2>3. TypesOK'
    BY <1>0, <1>a, <2>1, <2>2, TypesStay
  <2> QED
    BY <2>1, <2>3, QuietStep DEF InNet
<1>3. CASE UNCHANGED vars
  <2>1. UNCHANGED <<acceptorVars, decided, delivered, pending, prop, alive, net, sent, turn>>
    BY <1>3 DEF vars, learnerVars
  <2>3. TypesOK'
    BY <1>0, <1>a, <2>1, TypesStay
  <2> QED
    BY <2>1, <2>3, QuietStep DEF InNet
<1>4. ASSUME NEW n \in Node, Crash(n) PROVE PaxosInv(V, P)'
  <2>1. UNCHANGED <<acceptorVars, decided, delivered, pending, prop, net, sent, turn>> /\ alive' \subseteq Node
    BY <1>4, <1>a DEF Crash, learnerVars
  <2>3. TypesOK'
    BY <1>0, <1>a, <2>1, TypesStay
  <2> QED
    BY <2>1, <2>3, QuietStep DEF InNet
<1>5. ASSUME NEW n \in Node, NEW v \in Value, Broadcast(n, v) PROVE PaxosInv(V, P)'
  <2>1. UNCHANGED <<acceptorVars, decided, delivered, prop, alive, net, turn>>
    BY <1>5 DEF Broadcast
  <2>2. pending' \in [Node -> Seq(Value)] /\ sent' \in [Node -> SUBSET Value]
    BY <1>5, <1>a DEF Broadcast
  <2>3. TypesOK'
    BY <1>0, <1>a, <2>1, <2>2, TypesStay
  <2> QED
    BY <2>1, <2>3, QuietStep DEF InNet
<1> QED
  BY <1>1, <1>2, <1>3, <1>4, <1>5

LEMMA PrepareStep ==
  ASSUME NEW V, NEW P, PaxosInv(V, P), NEW n \in Node, HandlePrepare(n)
  PROVE  PaxosInv(V, P)'
<1>0. /\ TypesOK /\ Outstanding /\ NoDecidedProposal
      /\ AcceptorsOK(V, P) /\ ProposedOK(V, P)
      /\ MessagesOK(V, P) /\ ProposalsOK(V, P) /\ DecisionsOK(V)
  BY DEF PaxosInv
<1>a. PICK m \in InNet : m = Msg /\ m \in Message /\ m.type = "prepare"
  BY <1>0, HeadInNet DEF HandlePrepare, Receives
<1>b. PICK s \in Slot : s = m.slot
  BY <1>a, MessageTypes
<1>c. PICK b \in Nat : b = m.num
  BY <1>a, MessageTypes
<1>d. PICK ok \in BOOLEAN : ok = (b > promised[n][s])
  <2>1. (b > promised[n][s]) \in BOOLEAN
    OBVIOUS
  <2> QED
    BY <2>1, Zenon
<1>g. ok <=> b > promised[n][s]
  BY <1>d, Zenon
<1>e. /\ promised[n][s] \in Number0 /\ acceptedNum[n][s] \in Number0
      /\ acceptedVal[n][s] \in Value \cup {None} /\ promised \in [Node -> [Slot -> Number0]]
  BY <1>0 DEF TypesOK, TypeOK
<1>f. PICK r : r = [type |-> "prepare_response", slot |-> s, num |-> b, from |-> n,
                    to |-> m.from, ok |-> ok, accNum |-> acceptedNum[n][s],
                    accVal |-> acceptedVal[n][s]]
  OBVIOUS
<1>1. /\ net # << >> /\ Reply(<<r>>) /\ UNCHANGED <<acceptedNum, acceptedVal, learnerVars, alive, sent>>
      /\ promised' = [promised EXCEPT ![n][s] = IF ok THEN b ELSE @]
  BY <1>a, <1>b, <1>c, <1>d, <1>f DEF HandlePrepare, Receives, MayPromise
<1>2. r \in Message
  BY <1>a, <1>e, <1>f, MessageTypes DEF Message
<1>3. /\ r.type = "prepare_response" /\ r.slot = s /\ r.num = b /\ r.from = n /\ r.to = m.from
      /\ r.ok = ok /\ r.accNum = acceptedNum[n][s] /\ r.accVal = acceptedVal[n][s]
  BY <1>f
<1>4. net' \in Seq(Message) /\ \A x \in InNet' : x \in InNet \/ x = r
  <2>1. PICK out \in Seq(Message) : out = <<r>> /\ Len(out) = 1 /\ out[1] = r
    BY <1>2, <<r>> \in Seq(Message) /\ Len(<<r>>) = 1 /\ <<r>>[1] = r
  <2>2. \A i \in 1..Len(out) : out[i] = r
    BY <2>1
  <2> QED
    BY <1>0, <1>1, <2>1, <2>2, ReplyNet
<1>5. \A a \in Node, t \in Slot :
        promised'[a][t] = IF a = n /\ t = s /\ ok THEN b ELSE promised[a][t]
  BY <1>1, <1>e
<1>6. promised' \in [Node -> [Slot -> Number0]]
  BY <1>1, <1>e DEF Number0
<1>7. UNCHANGED <<decided, delivered, pending, prop, turn>>
  BY <1>1 DEF learnerVars, Reply
<1>8. TypesOK'
  BY <1>0, <1>1, <1>4, <1>6, <1>7 DEF TypesOK, TypeOK
<1>9. Grows(V, P, V, P)
  <2>1. \A a \in Node, t \in Slot : promised[a][t] <= promised'[a][t]
    <3> SUFFICES ASSUME NEW a \in Node, NEW t \in Slot PROVE promised[a][t] <= promised'[a][t]
      OBVIOUS
    <3>1. promised[a][t] \in Int
      BY <1>0, AcceptorFacts
    <3> QED
      BY <1>5, <1>g, <3>1
  <2> QED
    BY <1>0, <1>e, <1>6, <2>1 DEF Grows, AcceptorsOK, Number0
<1>10. AcceptorsOK(V, P)'
  <2>1. \A a \in Node, t \in Slot : acceptedNum[a][t] <= promised'[a][t]
    <3> SUFFICES ASSUME NEW a \in Node, NEW t \in Slot PROVE acceptedNum[a][t] <= promised'[a][t]
      OBVIOUS
    <3>1. acceptedNum[a][t] \in Int /\ acceptedNum[a][t] <= promised[a][t]
      BY <1>0, AcceptorFacts
    <3>2. promised[a][t] \in Int /\ promised'[a][t] \in Int /\ promised[a][t] <= promised'[a][t]
      BY <1>9 DEF Grows
    <3> QED
      BY <3>1, <3>2
  <2> QED
    BY <1>0, <1>1, <2>1 DEF AcceptorsOK
<1>11. ProposedOK(V, P)'
  BY <1>0, <1>9, ProposedStays
<1>12. MessagesOK(V, P)'
  <2>1. \A x \in InNet : MessageOK(V, P, x)'
    BY <1>0, <1>9, InNetTyped, OldMessage DEF MessagesOK
  <2>2. MessageOK(V, P, r)'
    <3> SUFFICES ASSUME ok
                 PROVE  /\ Promise(V, s, b, n, acceptedNum[n][s])'
                        /\ Highest(P, s, b, acceptedNum[n][s], acceptedVal[n][s])'
      BY <1>1, <1>3 DEF MessageOK
    <3>0. acceptedNum[n][s] \in Int /\ promised[n][s] \in Int /\ acceptedNum[n][s] <= promised[n][s]
      BY <1>0, AcceptorFacts
    <3>1. acceptedNum[n][s] < b /\ promised'[n][s] = b
      BY <1>5, <1>g, <3>0
    <3>2. \A c \in Nat : acceptedNum[n][s] < c => ~Voted(V, n, s, c)
      BY <1>0, AcceptorFacts
    <3>3. Promise(V, s, b, n, acceptedNum[n][s])'
      BY <1>1, <3>1, <3>2 DEF Promise, Voted
    <3>4. Highest(P, s, b, acceptedNum[n][s], acceptedVal[n][s])
      BY <1>0, <3>1, AcceptorFacts DEF Highest
    <3> QED
      BY <1>1, <3>3, <3>4 DEF Highest
  <2> QED
    BY <1>4, <2>1, <2>2 DEF MessagesOK
<1>13. NewPromises
  <2> SUFFICES ASSUME NEW x \in Node, NEW t \in Slot, NEW c \in Nat, NEW a \in Node,
                      Promises(x, t, c, a)'
               PROVE  Promises(x, t, c, a) \/ promised[a][t] < c
    BY DEF NewPromises
  <2>1. PICK y \in InNet' : /\ y.type = "prepare_response" /\ y.ok
                            /\ y.to = x /\ y.slot = t /\ y.num = c /\ y.from = a
    BY DEF Promises
  <2>2. CASE y \in InNet
    BY <2>1, <2>2 DEF Promises
  <2>3. CASE y = r
    BY <1>3, <1>g, <1>e, <2>1, <2>3 DEF Number0
  <2> QED
    BY <1>4, <2>2, <2>3
<1>14. ProposalsOK(V, P)'
  <2> SUFFICES ASSUME NEW x \in Node, NEW t \in Slot, NEW p \in prop[x][t]
               PROVE  ProposalOK(V, P, x, t, Number(p.round, x), p)'
    BY <1>7 DEF ProposalsOK, Node, Slot
  <2> QED
    BY <1>0, <1>9, <1>13, ProposalsStay
<1>15. Outstanding'
  <2>1. \A x, t, c : Asked(x, t, c) => Asked(x, t, c)'
    BY <1>7 DEF Asked
  <2>2. Asked(r.to, r.slot, r.num)
    BY <1>0, <1>3, <1>a, <1>b, <1>c DEF Outstanding
  <2> QED
    BY <1>0, <1>3, <1>4, <2>1, <2>2 DEF Outstanding
<1>16. NoDecidedProposal' /\ DecisionsOK(V)'
  BY <1>0, <1>7 DEF NoDecidedProposal, DecisionsOK
<1> QED
  BY <1>8, <1>10, <1>11, <1>12, <1>14, <1>15, <1>16 DEF PaxosInv

LEMMA AcceptRequestStep ==
  ASSUME NEW V, NEW P, PaxosInv(V, P), NEW n \in Node, HandleAcceptRequest(n)
  PROVE  \E V2 : PaxosInv(V2, P)'
<1>0. /\ TypesOK /\ Outstanding /\ NoDecidedProposal
      /\ AcceptorsOK(V, P) /\ ProposedOK(V, P)
      /\ MessagesOK(V, P) /\ ProposalsOK(V, P) /\ DecisionsOK(V)
  BY DEF PaxosInv
<1>a. PICK m \in InNet : m = Msg /\ m \in Message /\ m.type = "accept_request"
  BY <1>0, HeadInNet DEF HandleAcceptRequest, Receives
<1>b. PICK s \in Slot : s = m.slot
  BY <1>a, MessageTypes
<1>c. PICK b \in Nat : b = m.num
  BY <1>a, MessageTypes
<1>v. PICK v \in Value : v = m.val
  BY <1>a, MessageTypes
<1>d. PICK ok \in BOOLEAN : ok = (b >= promised[n][s])
  <2>1. (b >= promised[n][s]) \in BOOLEAN
    OBVIOUS
  <2> QED
    BY <2>1, Zenon
<1>g. ok <=> b >= promised[n][s]
  BY <1>d, Zenon
<1>e. /\ promised \in [Node -> [Slot -> Number0]] /\ acceptedNum \in [Node -> [Slot -> Number0]]
      /\ acceptedVal \in [Node -> [Slot -> Value \cup {None}]]
  BY <1>0 DEF TypesOK, TypeOK
<1>f. PICK r : r = [type |-> "accept_response", slot |-> s, num |-> b, from |-> n,
                    to |-> m.from, ok |-> ok, val |-> v]
  OBVIOUS
<1>h. PICK V2 : V2 = IF ok THEN V \cup {<<n, s, b, v>>} ELSE V
  OBVIOUS
<1>1. /\ net # << >> /\ Reply(<<r>>) /\ UNCHANGED <<learnerVars, alive, sent>>
      /\ promised' = [promised EXCEPT ![n][s] = IF ok THEN b ELSE @]
      /\ acceptedNum' = [acceptedNum EXCEPT ![n][s] = IF ok THEN b ELSE @]
      /\ acceptedVal' = [acceptedVal EXCEPT ![n][s] = IF ok THEN v ELSE @]
  BY <1>a, <1>b, <1>c, <1>v, <1>d, <1>f DEF HandleAcceptRequest, Receives, MayAccept
<1>2. r \in Message
  BY <1>a, <1>f, MessageTypes DEF Message
<1>3. r.type = "accept_response" /\ r.slot = s /\ r.num = b /\ r.from = n /\ r.ok = ok /\ r.val = v
  BY <1>f
<1>4. net' \in Seq(Message) /\ \A x \in InNet' : x \in InNet \/ x = r
  <2>1. PICK out \in Seq(Message) : out = <<r>> /\ Len(out) = 1 /\ out[1] = r
    BY <1>2, <<r>> \in Seq(Message) /\ Len(<<r>>) = 1 /\ <<r>>[1] = r
  <2>2. \A i \in 1..Len(out) : out[i] = r
    BY <2>1
  <2> QED
    BY <1>0, <1>1, <2>1, <2>2, ReplyNet
<1>5. \A a \in Node, t \in Slot :
        /\ promised'[a][t] = IF a = n /\ t = s /\ ok THEN b ELSE promised[a][t]
        /\ acceptedNum'[a][t] = IF a = n /\ t = s /\ ok THEN b ELSE acceptedNum[a][t]
        /\ acceptedVal'[a][t] = IF a = n /\ t = s /\ ok THEN v ELSE acceptedVal[a][t]
  BY <1>1, <1>e
<1>6. /\ promised' \in [Node -> [Slot -> Number0]] /\ acceptedNum' \in [Node -> [Slot -> Number0]]
      /\ acceptedVal' \in [Node -> [Slot -> Value \cup {None}]]
  BY <1>1, <1>e DEF Number0
<1>7. UNCHANGED <<decided, delivered, pending, prop, turn>>
  BY <1>1 DEF learnerVars, Reply
<1>8. TypesOK'
  BY <1>0, <1>1, <1>4, <1>6, <1>7 DEF TypesOK, TypeOK
<1>9. \A a \in Node, t \in Slot :
        /\ promised[a][t] \in Int /\ promised'[a][t] \in Int /\ promised[a][t] <= promised'[a][t]
        /\ acceptedNum[a][t] \in Int /\ acceptedNum'[a][t] \in Int
        /\ acceptedNum[a][t] <= acceptedNum'[a][t] /\ acceptedNum'[a][t] <= promised'[a][t]
  <2> SUFFICES ASSUME NEW a \in Node, NEW t \in Slot
        PROVE  /\ promised[a][t] \in Int /\ promised'[a][t] \in Int /\ promised[a][t] <= promised'[a][t]
               /\ acceptedNum[a][t] \in Int /\ acceptedNum'[a][t] \in Int
               /\ acceptedNum[a][t] <= acceptedNum'[a][t] /\ acceptedNum'[a][t] <= promised'[a][t]
    OBVIOUS
  <2>1. promised[a][t] \in Int /\ acceptedNum[a][t] \in Int /\ acceptedNum[a][t] <= promised[a][t]
    BY <1>0, AcceptorFacts
  <2> QED
    BY <1>5, <1>g, <2>1
<1>10. <<s, b, v>> \in P
  BY <1>0, <1>a, <1>b, <1>c, <1>v DEF MessagesOK, MessageOK
<1>11. /\ V2 \in SUBSET Votes /\ V \subseteq V2 /\ (ok => <<n, s, b, v>> \in V2)
       /\ \A a, t, c, w : <<a, t, c, w>> \in V2 =>
             <<a, t, c, w>> \in V \/ (ok /\ a = n /\ t = s /\ c = b /\ w = v)
  BY <1>0, <1>h DEF AcceptorsOK, Votes
<1>12. Grows(V, P, V2, P)
  <2>1. promised \in [Node -> [Slot -> Int]] /\ promised' \in [Node -> [Slot -> Int]]
    BY <1>e, <1>6 DEF Number0
  <2> QED
    BY <1>0, <1>g, <1>9, <1>11, <2>1 DEF Grows, AcceptorsOK
<1>13. AcceptorsOK(V2, P)'
  <2>1. ASSUME NEW a \in Node, NEW t \in Slot
        PROVE  /\ acceptedNum'[a][t] = -1 => acceptedVal'[a][t] = None
               /\ acceptedNum'[a][t] # -1 => <<a, t, acceptedNum'[a][t], acceptedVal'[a][t]>> \in V2
    <3>1. CASE a = n /\ t = s /\ ok
      <4>1. acceptedNum'[a][t] = b /\ acceptedVal'[a][t] = v /\ b # -1
        BY <1>5, <3>1
      <4> QED
        BY <1>11, <3>1, <4>1
    <3>2. CASE ~(a = n /\ t = s /\ ok)
      <4>1. acceptedNum'[a][t] = acceptedNum[a][t] /\ acceptedVal'[a][t] = acceptedVal[a][t]
        BY <1>5, <3>2
      <4> QED
        BY <1>0, <1>11, <4>1 DEF AcceptorsOK
    <3> QED
      BY <3>1, <3>2
  <2>2. ASSUME NEW a \in Node, NEW t \in Slot, NEW c \in Nat, NEW w \in Value,
               <<a, t, c, w>> \in V2
        PROVE  c <= acceptedNum'[a][t] /\ <<t, c, w>> \in P
    <3>1. CASE <<a, t, c, w>> \in V
      <4>1. c <= acceptedNum[a][t] /\ <<t, c, w>> \in P
        BY <1>0, <3>1 DEF AcceptorsOK
      <4>2. /\ acceptedNum[a][t] \in Int /\ acceptedNum'[a][t] \in Int
            /\ acceptedNum[a][t] <= acceptedNum'[a][t]
        BY <1>9
      <4> QED
        BY <4>1, <4>2
    <3>2. CASE ok /\ a = n /\ t = s /\ c = b /\ w = v
      BY <1>5, <1>10, <3>2
    <3> QED
      BY <1>11, <2>2, <3>1, <3>2
  <2>3. \A a \in Node, t \in Slot : acceptedNum'[a][t] <= promised'[a][t]
    BY <1>9
  <2>4. V2 \in SUBSET Votes /\ P \in SUBSET Proposals
    BY <1>0, <1>11 DEF AcceptorsOK
  <2> QED
    BY <2>1, <2>2, <2>3, <2>4 DEF AcceptorsOK, Votes, Proposals, Node, Slot
<1>14. ProposedOK(V2, P)'
  BY <1>0, <1>12, ProposedStays
<1>15. MessagesOK(V2, P)'
  <2>1. \A x \in InNet : MessageOK(V2, P, x)'
    BY <1>0, <1>12, InNetTyped, OldMessage DEF MessagesOK
  <2>2. MessageOK(V2, P, r)'
    BY <1>3, <1>11 DEF MessageOK
  <2> QED
    BY <1>4, <2>1, <2>2 DEF MessagesOK
<1>16. NewPromises
  BY <1>3, <1>4 DEF NewPromises, Promises
<1>17. ProposalsOK(V2, P)'
  <2> SUFFICES ASSUME NEW x \in Node, NEW t \in Slot, NEW p \in prop[x][t]
               PROVE  ProposalOK(V2, P, x, t, Number(p.round, x), p)'
    BY <1>7 DEF ProposalsOK, Node, Slot
  <2> QED
    BY <1>0, <1>12, <1>16, ProposalsStay
<1>18. Outstanding'
  <2>1. \A x, t, c : Asked(x, t, c) => Asked(x, t, c)'
    BY <1>7 DEF Asked
  <2> QED
    BY <1>0, <1>3, <1>4, <2>1 DEF Outstanding
<1>19. NoDecidedProposal'
  BY <1>0, <1>7 DEF NoDecidedProposal
<1>20. DecisionsOK(V2)'
  <2>1. \A t, w : Chosen(V, t, w) => Chosen(V2, t, w)
    BY <1>12, GrowsChosen
  <2> QED
    BY <1>0, <1>7, <2>1 DEF DecisionsOK
<1>21. PaxosInv(V2, P)'
  BY <1>8, <1>13, <1>14, <1>15, <1>17, <1>18, <1>19, <1>20 DEF PaxosInv
<1> QED
  BY <1>21

-----------------------------------------------------------------------------
(* The proposer.                                                           *)

LEMMA PromiseWeaker ==
  ASSUME NEW V, NEW s, NEW b, NEW a, NEW j \in Int, NEW k \in Int, j <= k, Promise(V, s, b, a, j)
  PROVE  Promise(V, s, b, a, k)
BY DEF Promise

(* What a majority reports makes the value of the highest number safe, and   *)
(* any value when it reports none.                                           *)
LEMMA SafeProposal ==
  ASSUME NEW V, NEW P, AcceptorsOK(V, P), ProposedOK(V, P), TypesOK,
         NEW s \in Slot, NEW b \in Nat, NEW k \in Number0, NEW w, Highest(P, s, b, k, w),
         NEW Q \in Majority, \A a \in Q : Promise(V, s, b, a, k),
         NEW v \in Value, k # -1 => v = w
  PROVE  SafeAt(V, s, b, v)
<1> SUFFICES ASSUME NEW c \in Nat, c < b
             PROVE  \E R \in Majority : \A a \in R : <<a, s, c, v>> \in V \/ WontVote(V, a, s, c)
  BY DEF SafeAt
<1>0. k \in Int /\ (k # -1 => k \in Nat)
  BY DEF Number0
<1>p. \A a \in Q : promised[a][s] > c
  <2> SUFFICES ASSUME NEW a \in Q PROVE promised[a][s] > c
    OBVIOUS
  <2>1. promised[a][s] \in Int
    BY MajorityHas, AcceptorFacts
  <2> QED
    BY <2>1 DEF Promise
<1>1. CASE k < c
  BY <1>p, <1>1 DEF WontVote, Promise
<1>2. CASE c = k
  <2>1. <<s, c, v>> \in P
    BY <1>0, <1>2 DEF Highest
  <2>2. ASSUME NEW a \in Q PROVE <<a, s, c, v>> \in V \/ WontVote(V, a, s, c)
    <3>0. a \in Node
      BY MajorityHas
    <3>1. CASE Voted(V, a, s, c)
      <4>1. PICK u \in Value : <<a, s, c, u>> \in V
        BY <3>1 DEF Voted
      <4>2. <<s, c, u>> \in P
        BY <3>0, <4>1 DEF AcceptorsOK
      <4>3. u = v
        BY <2>1, <4>2 DEF ProposedOK
      <4> QED
        BY <4>1, <4>3
    <3>2. CASE ~Voted(V, a, s, c)
      BY <1>p, <3>2 DEF WontVote
    <3> QED
      BY <3>1, <3>2
  <2> QED
    BY <2>2
<1>3. CASE c < k
  <2>1. k \in Nat /\ <<s, k, v>> \in P
    BY <1>0, <1>3 DEF Highest
  <2>2. SafeAt(V, s, k, v)
    BY <2>1 DEF ProposedOK
  <2> QED
    BY <1>3, <2>2 DEF SafeAt
<1> QED
  BY <1>0, <1>1, <1>2, <1>3

LEMMA ToAllPrepare ==
  ASSUME NEW n \in Node, NEW s \in Slot, NEW r \in Nat
  PROVE  /\ ToAll(Prepare(n, s, r)) \in Seq(Message)
         /\ \A i \in 1..Len(ToAll(Prepare(n, s, r))) :
              LET m == ToAll(Prepare(n, s, r))[i]
              IN  m.type = "prepare" /\ m.from = n /\ m.slot = s /\ m.num = Number(r, n)
<1>0. N \in Nat /\ Number(r, n) \in Nat
  BY SizeAssumption, NumberNat
<1> DEFINE Copy(i) == [type |-> "prepare", slot |-> s, num |-> Number(r, n), from |-> n, to |-> i - 1]
<1>1. ToAll(Prepare(n, s, r)) = [i \in 1..N |-> Copy(i)]
  BY DEF ToAll, Prepare
<1>2. \A i \in 1..N : Copy(i) \in Message
  <2>1. \A i \in 1..N : i - 1 \in Node
    BY <1>0 DEF Node
  <2> QED
    BY <1>0, <2>1 DEF Message
<1>3. \A i \in 1..N : /\ Copy(i).type = "prepare" /\ Copy(i).from = n /\ Copy(i).slot = s
                      /\ Copy(i).num = Number(r, n)
  OBVIOUS
<1> HIDE DEF Copy
<1>4. Len(ToAll(Prepare(n, s, r))) = N /\ ToAll(Prepare(n, s, r)) \in Seq(Message)
  BY <1>0, <1>1, <1>2
<1> QED
  BY <1>1, <1>3, <1>4

LEMMA ToAllAccept ==
  ASSUME NEW n \in Node, NEW s \in Slot, NEW b \in Nat, NEW v \in Value, NEW out,
         out = ToAll([type |-> "accept_request", slot |-> s, num |-> b, val |-> v, from |-> n, to |-> n])
  PROVE  /\ out \in Seq(Message)
         /\ \A i \in 1..Len(out) : /\ out[i].type = "accept_request" /\ out[i].slot = s
                                   /\ out[i].num = b /\ out[i].val = v
<1>0. N \in Nat
  BY SizeAssumption
<1> DEFINE Copy(i) == [type |-> "accept_request", slot |-> s, num |-> b, val |-> v, from |-> n, to |-> i - 1]
<1>1. out = [i \in 1..N |-> Copy(i)]
  BY DEF ToAll
<1>2. \A i \in 1..N : Copy(i) \in Message
  <2>1. \A i \in 1..N : i - 1 \in Node
    BY <1>0 DEF Node
  <2> QED
    BY <1>0, <2>1 DEF Message
<1>3. \A i \in 1..N : /\ Copy(i).type = "accept_request" /\ Copy(i).slot = s
                      /\ Copy(i).num = b /\ Copy(i).val = v
  OBVIOUS
<1> HIDE DEF Copy
<1>4. Len(out) = N /\ out \in Seq(Message)
  BY <1>0, <1>1, <1>2
<1> QED
  BY <1>1, <1>3, <1>4

LEMMA ToAllDecided ==
  ASSUME NEW n \in Node, NEW s \in Slot, NEW v \in Value, NEW out,
         out = ToAll([type |-> "decided", slot |-> s, val |-> v, from |-> n, to |-> n])
  PROVE  /\ out \in Seq(Message)
         /\ \A i \in 1..Len(out) : out[i].type = "decided" /\ out[i].slot = s /\ out[i].val = v
<1>0. N \in Nat
  BY SizeAssumption
<1> DEFINE Copy(i) == [type |-> "decided", slot |-> s, val |-> v, from |-> n, to |-> i - 1]
<1>1. out = [i \in 1..N |-> Copy(i)]
  BY DEF ToAll
<1>2. \A i \in 1..N : Copy(i) \in Message
  <2>1. \A i \in 1..N : i - 1 \in Node
    BY <1>0 DEF Node
  <2> QED
    BY <1>0, <2>1 DEF Message
<1>3. \A i \in 1..N : Copy(i).type = "decided" /\ Copy(i).slot = s /\ Copy(i).val = v
  OBVIOUS
<1> HIDE DEF Copy
<1>4. Len(out) = N /\ out \in Seq(Message)
  BY <1>0, <1>1, <1>2
<1> QED
  BY <1>1, <1>3, <1>4

(* A proposer's proposal p for the slot s becomes q, and messages of the set *)
(* New are sent.                                                             *)
Moves(V, P, P2, n, s, p, q, New) ==
  /\ n \in Node /\ s \in Slot /\ p \in prop[n][s] /\ q \in Proposal
  /\ UNCHANGED <<acceptorVars, decided, delivered, pending, alive, sent, turn>>
  /\ prop' = [prop EXCEPT ![n][s] = {q}]
  /\ Number(p.round, n) <= Number(q.round, n)
  /\ net' \in Seq(Message)
  /\ \A x \in InNet' : x \in InNet \/ x \in New
  /\ \A x \in New :
       /\ x.type # "prepare_response" /\ MessageOK(V, P2, x)'
       /\ x.type = "prepare" => x.from = n /\ x.slot = s /\ x.num = Number(q.round, n)
  /\ P \subseteq P2 /\ P2 \in SUBSET Proposals /\ ProposedOK(V, P2)'
  /\ \A t \in Slot, c \in Nat, w \in Value :
       <<t, c, w>> \in P2 => <<t, c, w>> \in P \/ (t = s /\ c = Number(q.round, n))
  /\ ProposalOK(V, P2, n, s, Number(q.round, n), q)'

LEMMA ProposerStep ==
  ASSUME NEW V, NEW P, NEW P2, NEW n, NEW s, NEW p, NEW q, NEW New,
         PaxosInv(V, P), Moves(V, P, P2, n, s, p, q, New)
  PROVE  PaxosInv(V, P2)'
<1>m. /\ n \in Node /\ s \in Slot /\ p \in prop[n][s] /\ q \in Proposal
      /\ UNCHANGED <<acceptorVars, decided, delivered, pending, alive, sent, turn>>
      /\ prop' = [prop EXCEPT ![n][s] = {q}]
      /\ Number(p.round, n) <= Number(q.round, n)
      /\ net' \in Seq(Message)
      /\ \A x \in InNet' : x \in InNet \/ x \in New
      /\ P \subseteq P2 /\ P2 \in SUBSET Proposals /\ ProposedOK(V, P2)'
      /\ ProposalOK(V, P2, n, s, Number(q.round, n), q)'
  BY DEF Moves
<1>x. \A x \in New :
        /\ x.type # "prepare_response" /\ MessageOK(V, P2, x)'
        /\ x.type = "prepare" => x.from = n /\ x.slot = s /\ x.num = Number(q.round, n)
  BY DEF Moves
<1>y. \A t \in Slot, c \in Nat, w \in Value :
        <<t, c, w>> \in P2 => <<t, c, w>> \in P \/ (t = s /\ c = Number(q.round, n))
  BY DEF Moves
<1> USE <1>m
<1>0. /\ TypesOK /\ Outstanding /\ NoDecidedProposal
      /\ AcceptorsOK(V, P) /\ ProposedOK(V, P)
      /\ MessagesOK(V, P) /\ ProposalsOK(V, P) /\ DecisionsOK(V)
  BY DEF PaxosInv
<1>a. /\ prop \in [Node -> [Slot -> SUBSET Proposal]] /\ p \in Proposal
      /\ p.round \in Nat /\ q.round \in Nat
      /\ Number(p.round, n) \in Nat /\ Number(q.round, n) \in Nat
  <2>1. prop \in [Node -> [Slot -> SUBSET Proposal]]
    BY <1>0 DEF TypesOK
  <2>2. p \in Proposal
    BY <2>1
  <2>3. p.round \in Nat /\ q.round \in Nat
    BY <2>2 DEF Proposal
  <2> QED
    BY <2>1, <2>2, <2>3, NumberNat
<1>b. \A x \in Node, t \in Slot : prop'[x][t] = IF x = n /\ t = s THEN {q} ELSE prop[x][t]
  BY <1>a
<1>1. TypesOK'
  <2>1. prop' \in [Node -> [Slot -> SUBSET Proposal]]
    BY <1>a
  <2>2. \A x \in Node, t \in Slot :
          prop'[x][t] \subseteq Proposal /\ Cardinality(prop'[x][t]) =< 1
    <3>1. Cardinality({q}) = 1
      BY FS_Singleton
    <3> QED
      BY <1>0, <1>b, <3>1 DEF TypesOK, TypeOK
  <2>3. \A x \in Node, t \in Slot : \A y, z \in prop'[x][t] : y = z
    BY <1>0, <1>b DEF TypesOK
  <2> QED
    BY <1>0, <2>1, <2>2, <2>3 DEF TypesOK, TypeOK, acceptorVars
<1>2. Grows(V, P, V, P2) /\ AcceptorsOK(V, P2)'
  <2>1. Grows(V, P, V, P) /\ AcceptorsOK(V, P)'
    BY <1>0, AcceptorsStay
  <2>2. Grows(V, P, V, P2)
    BY <2>1 DEF Grows
  <2>3. AcceptorsOK(V, P2)'
    BY <2>1 DEF AcceptorsOK
  <2> QED
    BY <2>2, <2>3
<1>3. NewPromises
  BY <1>x DEF NewPromises, Promises
<1>4. MessagesOK(V, P2)'
  <2>1. \A m \in InNet : MessageOK(V, P2, m)'
    BY <1>0, <1>2, InNetTyped, OldMessage DEF MessagesOK
  <2> QED
    BY <1>x, <2>1 DEF MessagesOK
<1>5. ProposalsOK(V, P2)'
  <2> SUFFICES ASSUME NEW x \in Node, NEW t \in Slot, NEW y \in prop'[x][t]
               PROVE  ProposalOK(V, P2, x, t, Number(y.round, x), y)'
    BY DEF ProposalsOK, Node, Slot
  <2>1. CASE x = n /\ t = s
    <3>1. y = q
      BY <1>b, <2>1
    <3> QED
      BY <2>1, <3>1
  <2>2. CASE ~(x = n /\ t = s)
    <3>1. y \in prop[x][t]
      BY <1>b, <2>2
    <3>2. y \in Proposal
      BY <1>a, <3>1
    <3>3. y.round \in Nat
      BY <3>2 DEF Proposal
    <3>4. Number(y.round, x) \in Nat
      BY <3>3, NumberNat
    <3>5. ProposalOK(V, P, x, t, Number(y.round, x), y)
      BY <1>0, <3>1 DEF ProposalsOK
    <3>6. \A w \in Value : <<t, Number(y.round, x), w>> \in P2 => <<t, Number(y.round, x), w>> \in P
      <4>1. t = s => Number(y.round, x) # Number(q.round, n)
        BY <1>a, <2>2, <3>3, NumberOwner
      <4> QED
        BY <1>y, <3>4, <4>1
    <3> QED
      BY <1>2, <1>3, <3>2, <3>4, <3>5, <3>6, OldProposal
  <2> QED
    BY <2>1, <2>2
<1>6. Outstanding'
  <2>1. ASSUME NEW x \in Node, NEW t \in Slot, NEW c \in Nat, Asked(x, t, c)
        PROVE  Asked(x, t, c)'
    <3>1. CASE x = n /\ t = s
      <4>1. CASE decided[x][t] # None
        BY <4>1 DEF Asked
      <4>2. CASE \E y \in prop[x][t] : c <= Number(y.round, x)
        <5>1. PICK y \in prop[x][t] : c <= Number(y.round, x)
          BY <4>2
        <5>2. y = p
          BY <1>0, <3>1, <5>1 DEF TypesOK
        <5>3. c <= Number(q.round, n)
          BY <1>a, <3>1, <5>1, <5>2
        <5>4. q \in prop'[x][t]
          BY <1>b, <3>1
        <5> QED
          BY <3>1, <5>3, <5>4 DEF Asked, Number
      <4> QED
        BY <2>1, <4>1, <4>2 DEF Asked
    <3>2. CASE ~(x = n /\ t = s)
      BY <1>b, <2>1, <3>2 DEF Asked, Number
    <3> QED
      BY <3>1, <3>2
  <2>2. Asked(n, s, Number(q.round, n))'
    BY <1>a, <1>b DEF Asked, Number
  <2>3. ASSUME NEW m \in InNet'
        PROVE  /\ m.type = "prepare" => Asked(m.from, m.slot, m.num)'
               /\ m.type = "prepare_response" => Asked(m.to, m.slot, m.num)'
    <3>1. CASE m \in InNet
      <4>1. m \in Message
        BY <1>0, <3>1, InNetTyped
      <4> QED
        BY <1>0, <2>1, <3>1, <4>1, MessageTypes DEF Outstanding
    <3>2. CASE m \in New
      <4>1. m.type # "prepare_response"
        BY <1>x, <3>2
      <4>2. m.type = "prepare" => m.from = n /\ m.slot = s /\ m.num = Number(q.round, n)
        BY <1>x, <3>2
      <4> QED
        BY <2>2, <4>1, <4>2
    <3> QED
      BY <3>1, <3>2
  <2> QED
    BY <2>3 DEF Outstanding
<1>7. NoDecidedProposal' /\ DecisionsOK(V)'
  <2>1. prop[n][s] # {}
    OBVIOUS
  <2> QED
    BY <1>0, <1>b, <2>1 DEF NoDecidedProposal, DecisionsOK
<1> QED
  BY <1>1, <1>2, <1>4, <1>5, <1>6, <1>7 DEF PaxosInv

LEMMA PromiseStep ==
  ASSUME NEW V, NEW P, PaxosInv(V, P), NEW n \in Node, NEW p, HandlePromise(n, p)
  PROVE  \E P2 : PaxosInv(V, P2)'
<1>0. /\ TypesOK /\ Outstanding /\ NoDecidedProposal
      /\ AcceptorsOK(V, P) /\ ProposedOK(V, P)
      /\ MessagesOK(V, P) /\ ProposalsOK(V, P) /\ DecisionsOK(V)
  BY DEF PaxosInv
<1>a. PICK m \in InNet : /\ m = Msg /\ m \in Message /\ m.type = "prepare_response"
                         /\ m.ok /\ m.to = n
  BY <1>0, HeadInNet DEF HandlePromise, Receives
<1>b. PICK s \in Slot : s = m.slot
  BY <1>a, MessageTypes
<1>c. PICK a \in Node : a = m.from
  BY <1>a, MessageTypes
<1>d. PICK k \in Number0 : k = m.accNum
  BY <1>a, MessageTypes
<1>e. PICK w \in Value \cup {None} : w = m.accVal
  BY <1>a, MessageTypes
<1>f. p \in prop[n][s] /\ p.phase = "prepare" /\ Number(p.round, n) = m.num
  BY <1>a, <1>b DEF HandlePromise, Awaits
<1>g. /\ p \in Proposal /\ p.round \in Nat /\ p.promises \in SUBSET Node
      /\ p.high \in Number0 /\ p.value \in Value
  <2>1. p \in Proposal
    BY <1>0, <1>f DEF TypesOK, TypeOK
  <2> QED
    BY <2>1 DEF Proposal
<1>h. PICK b \in Nat : b = Number(p.round, n)
  BY <1>g, NumberNat
<1>i. k \in Int /\ p.high \in Int
  BY <1>g DEF Number0
<1> DEFINE q == [p EXCEPT !.promises = @ \cup {a},
                          !.high = IF k > p.high THEN k ELSE @,
                          !.highVal = IF k > p.high THEN w ELSE @]
           v == IF q.highVal # None THEN q.highVal ELSE q.value
           q2 == [q EXCEPT !.phase = "accept", !.value = v, !.rejections = 0]
           out == ToAll([type |-> "accept_request", slot |-> s, num |-> b,
                         val |-> v, from |-> n, to |-> n])
<1>1. /\ net # << >> /\ UNCHANGED <<acceptorVars, decided, delivered, pending, alive, sent>>
      /\ IF Cardinality(q.promises) < MajoritySize
         THEN SetProposal(n, q) /\ Reply(<< >>)
         ELSE SetProposal(n, q2) /\ Reply(out)
  <2>1. q = [p EXCEPT !.promises = @ \cup {Msg.from},
                     !.high = IF Higher(p) THEN Msg.accNum ELSE @,
                     !.highVal = IF Higher(p) THEN Msg.accVal ELSE @]
    BY <1>a, <1>c, <1>d, <1>e DEF Higher
  <2>2. Msg.num = b /\ Msg.slot = s
    BY <1>a, <1>b, <1>f, <1>h
  <2> HIDE DEF q
  <2> QED
    BY <2>1, <2>2 DEF HandlePromise, Receives
<1>2. /\ q \in Proposal /\ q.round = p.round /\ q.phase = "prepare" /\ q.value = p.value
      /\ q.promises = p.promises \cup {a} /\ q.accepts = p.accepts
      /\ q.high = (IF k > p.high THEN k ELSE p.high)
      /\ q.highVal = (IF k > p.high THEN w ELSE p.highVal)
  BY <1>f, <1>g DEF Proposal
<1> HIDE DEF q
<1>3. /\ ProposalOK(V, P, n, s, b, p)
      /\ Promise(V, s, b, a, k) /\ Highest(P, s, b, k, w)
  <2>1. MessageOK(V, P, m)
    BY <1>0 DEF MessagesOK
  <2>2. Promise(V, m.slot, m.num, m.from, m.accNum) /\ Highest(P, m.slot, m.num, m.accNum, m.accVal)
    BY <1>a, <2>1 DEF MessageOK
  <2>3. ProposalOK(V, P, n, s, b, p)
    BY <1>0, <1>f, <1>h DEF ProposalsOK
  <2> QED
    BY <1>b, <1>c, <1>d, <1>e, <1>f, <1>h, <2>2, <2>3
<1>4. Highest(P, s, b, q.high, q.highVal) /\ p.accepts = {} /\ q.high \in Number0
  <2>1. Highest(P, s, b, p.high, p.highVal) /\ p.accepts = {}
    BY <1>3, <1>f DEF ProposalOK
  <2> QED
    BY <1>2, <1>3, <2>1 DEF Highest
<1>5. \A x \in q.promises : Promise(V, s, b, x, q.high)
  <2> SUFFICES ASSUME NEW x \in q.promises PROVE Promise(V, s, b, x, q.high)
    OBVIOUS
  <2>0. q.high \in Int /\ k <= q.high /\ p.high <= q.high
    BY <1>2, <1>i
  <2>1. CASE x = a
    BY <1>3, <1>i, <2>0, <2>1, PromiseWeaker
  <2>2. CASE x \in p.promises
    <3>1. Promise(V, s, b, x, p.high)
      BY <1>3, <1>f, <2>2 DEF ProposalOK
    <3> QED
      BY <1>i, <2>0, <3>1, PromiseWeaker
  <2> QED
    BY <1>2, <2>1, <2>2
<1>6. \A u \in Value : <<s, b, u>> \in P => Spent(n, s, b, q.promises)
  <2> SUFFICES ASSUME NEW u \in Value, <<s, b, u>> \in P PROVE Spent(n, s, b, q.promises)
    OBVIOUS
  <2>1. Spent(n, s, b, p.promises)
    BY <1>3, <1>f DEF ProposalOK
  <2>2. PICK Q \in Majority : \A x \in Q :
           promised[x][s] >= b /\ x \notin p.promises /\ ~Promises(n, s, b, x)
    BY <2>1 DEF Spent
  <2>3. Promises(n, s, b, a)
    BY <1>a, <1>b, <1>c, <1>f, <1>h DEF Promises
  <2>4. a \notin Q
    BY <2>2, <2>3
  <2> QED
    BY <1>2, <2>2, <2>4 DEF Spent
<1>7. prop' = [prop EXCEPT ![n][s] = {IF Cardinality(q.promises) < MajoritySize THEN q ELSE q2}]
      /\ UNCHANGED turn
  BY <1>1, <1>a, <1>b DEF SetProposal, Reply
<1>8. UNCHANGED <<acceptorVars, decided, delivered, pending, alive, sent, turn>>
  BY <1>1, <1>7
<1>9. Grows(V, P, V, P) /\ ProposedOK(V, P)'
  BY <1>0, <1>8, AcceptorsStay
<1>n. Number(p.round, n) <= Number(q.round, n) /\ Number(q.round, n) = b
  BY <1>2, <1>h
<1>10. CASE Cardinality(q.promises) < MajoritySize
  <2>1. net' \in Seq(Message) /\ InNet' \subseteq InNet
    BY <1>0, <1>1, <1>10, DropNet
  <2>2. prop' = [prop EXCEPT ![n][s] = {q}]
    BY <1>7, <1>10
  <2>3. NewPromises
    BY <2>1 DEF NewPromises, Promises
  <2>4. ProposalOK(V, P, n, s, b, q)
    BY <1>2, <1>4, <1>5, <1>6 DEF ProposalOK
  <2>5. ProposalOK(V, P, n, s, b, q)'
    BY <1>2, <1>9, <2>3, <2>4, OldProposal
  <2>6. P \in SUBSET Proposals
    BY <1>0 DEF AcceptorsOK
  <2>7. ProposalOK(V, P, n, s, Number(q.round, n), q)'
    BY <1>n, <2>5
  <2>8. PICK New : New = {}
    OBVIOUS
  <2>9. \A x \in InNet' : x \in InNet \/ x \in New
    BY <2>1
  <2>10. \A x \in New : FALSE
    BY <2>8
  <2>11. Moves(V, P, P, n, s, p, q, New)
    BY <1>2, <1>8, <1>9, <1>f, <1>n, <2>1, <2>2, <2>6, <2>7, <2>9, <2>10 DEF Moves
  <2>12. PaxosInv(V, P)'
    BY <2>11, ProposerStep
  <2> QED
    BY <2>12
<1>11. CASE ~(Cardinality(q.promises) < MajoritySize)
  <2>1. q.promises \in Majority
    <3>1. q.promises \in SUBSET Node
      BY <1>2, <1>g
    <3>2. Cardinality(q.promises) \in Nat /\ MajoritySize \in Nat
      BY <3>1, NodesFinite, SizeAssumption DEF MajoritySize
    <3> QED
      BY <1>11, <3>1, <3>2 DEF Majority
  <2>2. ASSUME NEW u \in Value PROVE <<s, b, u>> \notin P
    <3> SUFFICES ASSUME <<s, b, u>> \in P PROVE FALSE
      OBVIOUS
    <3>1. PICK Q \in Majority : \A x \in Q : x \notin q.promises
      BY <1>6 DEF Spent
    <3> QED
      BY <2>1, <3>1, MajoritiesMeet
  <2>3. v \in Value /\ (q.high # -1 => v = q.highVal)
    <3>1. CASE q.high = -1
      <4>1. q.highVal = None
        BY <1>4, <3>1 DEF Highest
      <4> QED
        BY <1>2, <1>g, <3>1, <4>1
    <3>2. CASE q.high # -1
      <4>1. q.highVal \in Value
        BY <1>4, <3>2 DEF Highest
      <4> QED
        BY <4>1, NoneAssumption
    <3> QED
      BY <3>1, <3>2
  <2>4. PICK u \in Value : u = v
    BY <2>3
  <2>5. PICK z : z = q2
    OBVIOUS
  <2>6. /\ z \in Proposal /\ z.round = p.round /\ z.phase = "accept" /\ z.value = u /\ z.accepts = {}
    BY <1>2, <1>4, <2>4, <2>5 DEF Proposal
  <2>7. SafeAt(V, s, b, u)
    BY <1>0, <1>4, <1>5, <2>1, <2>3, <2>4, SafeProposal
  <2>8. PICK P2 : P2 = P \cup {<<s, b, u>>}
    OBVIOUS
  <2>9. /\ P \subseteq P2 /\ P2 \in SUBSET Proposals /\ <<s, b, u>> \in P2
        /\ \A t, c, x : <<t, c, x>> \in P2 => <<t, c, x>> \in P \/ (t = s /\ c = b /\ x = u)
    BY <1>0, <2>8 DEF AcceptorsOK, Proposals
  <2>10. ProposedOK(V, P2)'
    <3> SUFFICES ASSUME NEW t \in Slot, NEW c \in Nat, NEW x \in Value, <<t, c, x>> \in P2
                 PROVE  /\ SafeAt(V, t, c, x)'
                        /\ \A y \in Value : <<t, c, y>> \in P2 => y = x
                        /\ \E Q \in Majority : \A i \in Q : promised'[i][t] >= c
      BY DEF ProposedOK, Slot, Majority, MajoritySize, Node
    <3>1. CASE <<t, c, x>> \in P
      <4>1. ~(t = s /\ c = b)
        BY <2>2, <3>1
      <4> QED
        BY <1>9, <2>9, <3>1, <4>1 DEF ProposedOK, Slot, Majority, MajoritySize, Node
    <3>2. CASE t = s /\ c = b /\ x = u
      <4>1. SafeAt(V, s, b, u)'
        BY <1>9, <2>7, GrowsSafe
      <4>2. \A y \in Value : <<s, b, y>> \in P2 => y = u
        BY <2>2, <2>9
      <4>3. \A i \in q.promises : promised'[i][s] >= b
        BY <1>5, <1>8 DEF Promise, acceptorVars
      <4> QED
        BY <2>1, <3>2, <4>1, <4>2, <4>3
    <3> QED
      BY <2>9, <3>1, <3>2
  <2>11. PICK o : o = ToAll([type |-> "accept_request", slot |-> s, num |-> b,
                             val |-> u, from |-> n, to |-> n])
    OBVIOUS
  <2>o. Reply(o)
    BY <1>1, <1>11, <2>4, <2>11
  <2> HIDE DEF v, out
  <2>12. /\ o \in Seq(Message)
         /\ \A i \in 1..Len(o) : /\ o[i].type = "accept_request" /\ o[i].slot = s
                                 /\ o[i].num = b /\ o[i].val = u
    BY <2>11, ToAllAccept
  <2>13. PICK New : New = {o[i] : i \in 1..Len(o)}
    OBVIOUS
  <2>14. net' \in Seq(Message) /\ \A x \in InNet' : x \in InNet \/ x \in New
    BY <1>0, <1>1, <2>o, <2>12, <2>13, ReplyNet
  <2>15. \A x \in New : x.type = "accept_request" /\ MessageOK(V, P2, x)'
    BY <2>9, <2>12, <2>13 DEF MessageOK
  <2>16. ProposalOK(V, P2, n, s, b, z)'
    BY <2>6, <2>9 DEF ProposalOK
  <2>17. prop' = [prop EXCEPT ![n][s] = {z}]
    BY <1>7, <1>11, <2>5
  <2>18. Number(p.round, n) <= Number(z.round, n) /\ Number(z.round, n) = b
    BY <1>h, <2>6
  <2>19. ProposalOK(V, P2, n, s, Number(z.round, n), z)'
    BY <2>16, <2>18
  <2>20. Moves(V, P, P2, n, s, p, z, New)
    BY <1>8, <1>f, <2>6, <2>9, <2>10, <2>14, <2>15, <2>17, <2>18, <2>19 DEF Moves
  <2>21. PaxosInv(V, P2)'
    BY <2>20, ProposerStep
  <2> QED
    BY <2>21
<1> QED
  BY <1>10, <1>11

LEMMA RejectionStep ==
  ASSUME NEW V, NEW P, PaxosInv(V, P), NEW n \in Node, NEW p, HandleRejection(n, p)
  PROVE  PaxosInv(V, P)'
<1>0. /\ TypesOK /\ Outstanding /\ NoDecidedProposal
      /\ AcceptorsOK(V, P) /\ ProposedOK(V, P)
      /\ MessagesOK(V, P) /\ ProposalsOK(V, P) /\ DecisionsOK(V)
  BY DEF PaxosInv
<1>a. net # << >> /\ Msg \in Message
  BY <1>0, HeadInNet DEF HandleRejection, Receives
<1>b. PICK s \in Slot : s = Msg.slot
  BY <1>a, MessageTypes
<1>c. p \in prop[n][s]
  BY <1>b DEF HandleRejection, Awaits
<1>d. /\ p \in Proposal /\ p.round \in Nat /\ p.value \in Value /\ p.original \in Value
      /\ p.rejections \in Nat /\ p.round + 1 \in Nat
  <2>1. p \in Proposal
    BY <1>0, <1>c DEF TypesOK, TypeOK
  <2> QED
    BY <2>1 DEF Proposal
<1>e. PICK b \in Nat : b = Number(p.round, n)
  BY <1>d, NumberNat
<1>f. PICK c \in Nat : c = Number(p.round + 1, n) /\ c > b
  BY <1>d, <1>e, NumberNat
<1>g. PICK q : q = [p EXCEPT !.rejections = @ + 1]
  OBVIOUS
<1>h. PICK z : z = [NewProposal(p.value) EXCEPT !.round = p.round + 1, !.original = p.original]
  OBVIOUS
<1>i. PICK out : out = ToAll(Prepare(n, s, p.round + 1))
  OBVIOUS
<1>1. /\ UNCHANGED <<acceptorVars, decided, delivered, pending, alive, sent, turn>>
      /\ \/ prop' = [prop EXCEPT ![n][s] = {q}] /\ Reply(<< >>)
         \/ prop' = [prop EXCEPT ![n][s] = {z}] /\ Reply(out)
  BY <1>b, <1>g, <1>h, <1>i DEF HandleRejection, SetProposal, Reply
<1>2. Grows(V, P, V, P) /\ ProposedOK(V, P)' /\ P \in SUBSET Proposals
  BY <1>0, <1>1, AcceptorsStay DEF AcceptorsOK
<1>3. ProposalOK(V, P, n, s, b, p)
  BY <1>0, <1>c, <1>e DEF ProposalsOK
<1>4. CASE prop' = [prop EXCEPT ![n][s] = {q}] /\ Reply(<< >>)
  <2>1. net' \in Seq(Message) /\ InNet' \subseteq InNet
    BY <1>0, <1>a, <1>4, DropNet
  <2>2. /\ q \in Proposal /\ q.round = p.round /\ q.phase = p.phase /\ q.value = p.value
        /\ q.promises = p.promises /\ q.accepts = p.accepts /\ q.high = p.high /\ q.highVal = p.highVal
    BY <1>d, <1>g DEF Proposal
  <2>3. ProposalOK(V, P, n, s, b, q)
    BY <1>3, <2>2 DEF ProposalOK
  <2>4. NewPromises
    BY <2>1 DEF NewPromises, Promises
  <2>5. ProposalOK(V, P, n, s, b, q)'
    BY <1>2, <2>2, <2>3, <2>4, OldProposal
  <2>6. Number(q.round, n) = b /\ Number(p.round, n) <= Number(q.round, n)
    BY <1>e, <2>2
  <2>7. ProposalOK(V, P, n, s, Number(q.round, n), q)'
    BY <2>5, <2>6
  <2>8. PICK New : New = {}
    OBVIOUS
  <2>9. Moves(V, P, P, n, s, p, q, New)
    BY <1>1, <1>2, <1>4, <1>c, <2>1, <2>2, <2>6, <2>7, <2>8 DEF Moves
  <2> QED
    BY <2>9, ProposerStep
<1>5. CASE prop' = [prop EXCEPT ![n][s] = {z}] /\ Reply(out)
  <2>1. /\ z \in Proposal /\ z.round = p.round + 1 /\ z.phase = "prepare"
        /\ z.promises = {} /\ z.accepts = {} /\ z.high = -1 /\ z.highVal = None
    <3>1. /\ z.round = p.round + 1 /\ z.phase = "prepare"
          /\ z.promises = {} /\ z.accepts = {} /\ z.high = -1 /\ z.highVal = None
      BY <1>h DEF NewProposal
    <3>2. -1 \in Number0 /\ {} \in SUBSET Node
      BY DEF Number0
    <3>3. z \in Proposal
      BY <1>d, <1>h, <3>2 DEF Proposal, NewProposal
    <3> QED
      BY <3>1, <3>3
  <2>2. /\ out \in Seq(Message)
        /\ \A i \in 1..Len(out) : /\ out[i].type = "prepare" /\ out[i].from = n
                                  /\ out[i].slot = s /\ out[i].num = c
    <3>1. PICK r \in Nat : r = p.round + 1 /\ out = ToAll(Prepare(n, s, r)) /\ c = Number(r, n)
      BY <1>d, <1>f, <1>i
    <3> QED
      BY <3>1, ToAllPrepare
  <2>3. PICK New : New = {out[i] : i \in 1..Len(out)}
    OBVIOUS
  <2>4. net' \in Seq(Message) /\ \A x \in InNet' : x \in InNet \/ x \in New
    BY <1>0, <1>a, <1>5, <2>2, <2>3, ReplyNet
  <2>5. \A x \in New : x.type = "prepare" /\ x.from = n /\ x.slot = s /\ x.num = c
    BY <2>2, <2>3
  <2>6. \A x \in New : MessageOK(V, P, x)'
    BY <2>5 DEF MessageOK
  <2>7. ASSUME NEW a \in Node PROVE ~Promises(n, s, c, a)'
    <3> SUFFICES ASSUME NEW x \in InNet', x.type = "prepare_response",
                        x.to = n, x.slot = s, x.num = c
                 PROVE  FALSE
      BY DEF Promises
    <3>1. x \in InNet
      BY <2>4, <2>5
    <3>2. Asked(n, s, c)
      BY <1>0, <3>1 DEF Outstanding
    <3>3. decided[n][s] = None
      BY <1>0, <1>c DEF NoDecidedProposal
    <3>4. PICK y \in prop[n][s] : c <= Number(y.round, n)
      BY <3>2, <3>3 DEF Asked
    <3>5. y = p
      BY <1>0, <1>c DEF TypesOK
    <3> QED
      BY <1>e, <1>f, <3>4, <3>5
  <2>8. ASSUME NEW w \in Value, <<s, c, w>> \in P PROVE Spent(n, s, c, {})'
    <3>1. PICK Q \in Majority : \A a \in Q : promised[a][s] >= c
      BY <1>0, <2>8 DEF ProposedOK
    <3>2. \A a \in Q : promised'[a][s] >= c /\ ~Promises(n, s, c, a)'
      BY <1>1, <2>7, <3>1, MajorityHas DEF acceptorVars
    <3> QED
      BY <3>2 DEF Spent, Majority, MajoritySize, Node
  <2>9. Highest(P, s, c, -1, None)
    BY DEF Highest, Number0
  <2>10. ProposalOK(V, P, n, s, c, z)'
    BY <2>1, <2>8, <2>9 DEF ProposalOK, Highest
  <2>11. Number(z.round, n) = c /\ Number(p.round, n) <= Number(z.round, n)
    BY <1>e, <1>f, <2>1
  <2>12. ProposalOK(V, P, n, s, Number(z.round, n), z)'
    BY <2>10, <2>11
  <2>13. Moves(V, P, P, n, s, p, z, New)
    BY <1>1, <1>2, <1>5, <1>c, <2>1, <2>4, <2>5, <2>6, <2>11, <2>12 DEF Moves
  <2> QED
    BY <2>13, ProposerStep
<1> QED
  BY <1>1, <1>4, <1>5

-----------------------------------------------------------------------------
(* Decisions.                                                              *)

(* The slots that are decided without a gap are delivered. *)
LEMMA DeliveredIs ==
  ASSUME NEW dec \in [Slot -> Value \cup {None}], NEW d \in Seq(Value), Len(d) <= MaxSlot,
         \A i \in 1..Len(d) : d[i] = dec[i]
  PROVE  LET e == DeliveredAfter(dec, d)
         IN  e \in Seq(Value) /\ Len(e) <= MaxSlot /\ \A i \in 1..Len(e) : e[i] = dec[i]
<1> DEFINE OK(m) == /\ \A s \in (Len(d) + 1)..m : dec[s] # None
                    /\ m = MaxSlot \/ dec[m + 1] = None
           last == CHOOSE m \in Len(d)..MaxSlot : OK(m)
           U == {s \in (Len(d) + 1)..MaxSlot : dec[s] = None}
<1>0. Len(d) \in Nat /\ MaxSlot \in Nat
  BY SizeAssumption
<1>1. \E m \in Len(d)..MaxSlot : OK(m)
  <2>1. CASE U = {}
    <3>1. MaxSlot \in Len(d)..MaxSlot /\ OK(MaxSlot)
      BY <1>0, <2>1
    <3> QED
      BY <3>1
  <2>2. CASE U # {}
    <3>1. U \in SUBSET Int /\ U \in SUBSET ((Len(d) + 1)..MaxSlot)
      OBVIOUS
    <3>2. IsFiniteSet(U)
      <4>1. Len(d) + 1 \in Int /\ MaxSlot \in Int
        BY <1>0
      <4>2. IsFiniteSet((Len(d) + 1)..MaxSlot)
        BY <4>1, FS_Interval
      <4> HIDE DEF U
      <4> QED
        BY <3>1, <4>2, FS_Subset
    <3>3. PICK u \in U : \A j \in U : u =< j
      <4> HIDE DEF U
      <4> QED
        BY <2>2, <3>1, <3>2, LeastElement
    <3>4. u \in Int /\ u > Len(d) /\ u <= MaxSlot /\ dec[u] = None
      BY <1>0
    <3>5. u - 1 \in Len(d)..MaxSlot /\ (u - 1) + 1 = u
      BY <1>0, <3>4
    <3>6. ASSUME NEW s \in (Len(d) + 1)..(u - 1) PROVE dec[s] # None
      <4>1. s \in (Len(d) + 1)..MaxSlot /\ s < u /\ s \in Int
        BY <1>0, <3>4
      <4>2. s \notin U
        <5> HIDE DEF U
        <5> QED
          BY <3>3, <3>4, <4>1
      <4> QED
        BY <4>1, <4>2
    <3>7. OK(u - 1)
      BY <3>4, <3>5, <3>6
    <3> HIDE DEF OK
    <3> QED
      BY <3>5, <3>7
  <2> QED
    BY <2>1, <2>2
<1>2. last \in Len(d)..MaxSlot /\ OK(last)
  <2> HIDE DEF OK
  <2> QED
    BY <1>1
<1>3. DeliveredAfter(dec, d) = [s \in 1..last |-> IF s =< Len(d) THEN d[s] ELSE dec[s]]
  BY DEF DeliveredAfter
<1> HIDE DEF last
<1>4. \A s \in 1..last : /\ (IF s =< Len(d) THEN d[s] ELSE dec[s]) = dec[s]
                         /\ dec[s] \in Value
  <2> SUFFICES ASSUME NEW s \in 1..last
               PROVE  (IF s =< Len(d) THEN d[s] ELSE dec[s]) = dec[s] /\ dec[s] \in Value
    OBVIOUS
  <2>1. CASE s <= Len(d)
    BY <1>0, <2>1
  <2>2. CASE s > Len(d)
    <3>1. s \in (Len(d) + 1)..last /\ s \in Slot
      BY <1>0, <1>2, <2>2 DEF Slot
    <3>2. dec[s] # None /\ dec[s] \in Value \cup {None}
      BY <1>2, <3>1
    <3> QED
      BY <1>0, <2>2, <3>2
  <2> QED
    BY <1>0, <1>2, <2>1, <2>2
<1>5. last \in Nat /\ last <= MaxSlot
  BY <1>0, <1>2
<1>6. DeliveredAfter(dec, d) = [s \in 1..last |-> dec[s]]
  BY <1>3, <1>4
<1> QED
  BY <1>4, <1>5, <1>6

(* Node n comes to know dec, withdraws its proposals for decided slots, and  *)
(* messages of the set New are sent.                                         *)
Learns(V, P, n, dec, New) ==
  /\ n \in Node /\ dec \in [Slot -> Value \cup {None}]
  /\ \A t \in Slot : decided[n][t] # None => dec[t] = decided[n][t]
  /\ \A t \in Slot : dec[t] # None => Chosen(V, t, dec[t])
  /\ UNCHANGED <<acceptorVars, sent, turn>> /\ alive' \subseteq Node
  /\ decided' = [decided EXCEPT ![n] = dec]
  /\ delivered' = [delivered EXCEPT ![n] = DeliveredAfter(dec, @)]
  /\ pending' \in [Node -> Seq(Value)]
  /\ prop' \in [Node -> [Slot -> SUBSET Proposal]]
  /\ \A x \in Node, t \in Slot :
       \/ prop'[x][t] = prop[x][t] /\ (x = n => decided[n][t] = dec[t])
       \/ x = n /\ prop'[x][t] = {} /\ (dec[t] # None \/ InNet = {})
  /\ net' \in Seq(Message)
  /\ \A x \in InNet' : x \in InNet \/ x \in New
  /\ \A x \in New : x.type = "decided" /\ MessageOK(V, P, x)'

LEMMA LearnStep ==
  ASSUME NEW V, NEW P, NEW n, NEW dec, NEW New, PaxosInv(V, P), Learns(V, P, n, dec, New)
  PROVE  PaxosInv(V, P)'
<1>0. /\ TypesOK /\ Outstanding /\ NoDecidedProposal
      /\ AcceptorsOK(V, P) /\ ProposedOK(V, P)
      /\ MessagesOK(V, P) /\ ProposalsOK(V, P) /\ DecisionsOK(V)
  BY DEF PaxosInv
<1>a. /\ n \in Node /\ dec \in [Slot -> Value \cup {None}]
      /\ UNCHANGED <<acceptorVars, sent, turn>> /\ alive' \subseteq Node
      /\ decided' = [decided EXCEPT ![n] = dec]
      /\ delivered' = [delivered EXCEPT ![n] = DeliveredAfter(dec, @)]
      /\ pending' \in [Node -> Seq(Value)]
      /\ prop' \in [Node -> [Slot -> SUBSET Proposal]]
      /\ net' \in Seq(Message)
  BY DEF Learns
<1>b. \A t \in Slot : /\ decided[n][t] # None => dec[t] = decided[n][t]
                      /\ dec[t] # None => Chosen(V, t, dec[t])
  BY DEF Learns
<1>c. \A x \in Node, t \in Slot :
        \/ prop'[x][t] = prop[x][t] /\ (x = n => decided[n][t] = dec[t])
        \/ x = n /\ prop'[x][t] = {} /\ (dec[t] # None \/ InNet = {})
  BY DEF Learns
<1>d. /\ \A x \in InNet' : x \in InNet \/ x \in New
      /\ \A x \in New : x.type = "decided" /\ MessageOK(V, P, x)'
  BY DEF Learns
<1>e. /\ decided \in [Node -> [Slot -> Value \cup {None}]] /\ delivered \in [Node -> Seq(Value)]
  BY <1>0 DEF TypesOK, TypeOK
<1>f. \A x \in Node : decided'[x] = (IF x = n THEN dec ELSE decided[x])
                      /\ delivered'[x] = (IF x = n THEN DeliveredAfter(dec, delivered[n]) ELSE delivered[x])
  BY <1>a, <1>e
<1>1. LET e == DeliveredAfter(dec, delivered[n])
      IN  e \in Seq(Value) /\ Len(e) <= MaxSlot /\ \A i \in 1..Len(e) : e[i] = dec[i]
  <2>1. delivered[n] \in Seq(Value) /\ Len(delivered[n]) <= MaxSlot
    BY <1>0, <1>a, <1>e DEF DecisionsOK
  <2>2. ASSUME NEW i \in 1..Len(delivered[n]) PROVE delivered[n][i] = dec[i]
    <3>1. delivered[n][i] = decided[n][i]
      BY <1>0, <1>a DEF DecisionsOK
    <3>2. delivered[n][i] \in Value
      BY <2>1
    <3>3. i \in Slot
      BY <2>1, SizeAssumption DEF Slot
    <3> QED
      BY <1>b, <3>1, <3>2, <3>3, NoneAssumption
  <2> QED
    BY <1>a, <2>1, <2>2, DeliveredIs
<1>2. TypesOK'
  <2>1. decided' \in [Node -> [Slot -> Value \cup {None}]]
    BY <1>a, <1>e
  <2>2. delivered' \in [Node -> Seq(Value)]
    BY <1>1, <1>a, <1>e
  <2>3. \A x \in Node, t \in Slot : prop'[x][t] \subseteq Proposal /\ Cardinality(prop'[x][t]) =< 1
    <3>1. Cardinality({}) = 0
      BY FS_EmptySet
    <3>2. ASSUME NEW x \in Node, NEW t \in Slot
          PROVE  prop'[x][t] \subseteq Proposal /\ Cardinality(prop'[x][t]) =< 1
      <4>1. CASE prop'[x][t] = prop[x][t]
        BY <1>0, <4>1 DEF TypesOK, TypeOK
      <4>2. CASE prop'[x][t] = {}
        BY <3>1, <4>2
      <4> QED
        BY <1>c, <4>1, <4>2
    <3> QED
      BY <3>2
  <2>4. \A x \in Node, t \in Slot : \A y, z \in prop'[x][t] : y = z
    BY <1>0, <1>c DEF TypesOK
  <2> QED
    BY <1>0, <1>a, <2>1, <2>2, <2>3, <2>4 DEF TypesOK, TypeOK, acceptorVars
<1>3. Grows(V, P, V, P) /\ AcceptorsOK(V, P)' /\ ProposedOK(V, P)'
  BY <1>0, <1>a, AcceptorsStay
<1>4. NewPromises
  BY <1>d DEF NewPromises, Promises
<1>5. MessagesOK(V, P)'
  <2>1. \A m \in InNet : MessageOK(V, P, m)'
    BY <1>0, <1>3, InNetTyped, OldMessage DEF MessagesOK
  <2> QED
    BY <1>d, <2>1 DEF MessagesOK
<1>6. ProposalsOK(V, P)'
  <2> SUFFICES ASSUME NEW x \in Node, NEW t \in Slot, NEW y \in prop'[x][t]
               PROVE  ProposalOK(V, P, x, t, Number(y.round, x), y)'
    BY DEF ProposalsOK, Node, Slot
  <2>1. y \in prop[x][t]
    BY <1>c
  <2> QED
    BY <1>0, <1>3, <1>4, <2>1, ProposalsStay
<1>7. Outstanding'
  <2>1. ASSUME NEW x \in Node, NEW t \in Slot, NEW c, InNet # {}, Asked(x, t, c)
        PROVE  Asked(x, t, c)'
    <3>1. CASE prop'[x][t] = prop[x][t]
      <4>1. decided[x][t] # None => decided'[x][t] # None
        BY <1>b, <1>f
      <4> QED
        BY <2>1, <3>1, <4>1 DEF Asked, Number
    <3>2. CASE x = n /\ dec[t] # None
      BY <1>f, <3>2 DEF Asked
    <3> QED
      BY <1>c, <2>1, <3>1, <3>2
  <2>2. ASSUME NEW m \in InNet'
        PROVE  /\ m.type = "prepare" => Asked(m.from, m.slot, m.num)'
               /\ m.type = "prepare_response" => Asked(m.to, m.slot, m.num)'
    <3>1. CASE m \in InNet
      <4>1. m \in Message /\ InNet # {}
        BY <1>0, <3>1, InNetTyped
      <4> QED
        BY <1>0, <2>1, <3>1, <4>1, MessageTypes DEF Outstanding
    <3>2. CASE m \in New
      BY <1>d, <3>2
    <3> QED
      BY <1>d, <3>1, <3>2
  <2> QED
    BY <2>2 DEF Outstanding
<1>8. NoDecidedProposal'
  <2> SUFFICES ASSUME NEW x \in Node, NEW t \in Slot, prop'[x][t] # {}
               PROVE  decided'[x][t] = None
    BY DEF NoDecidedProposal, Node, Slot
  <2>1. prop'[x][t] = prop[x][t] /\ (x = n => decided[n][t] = dec[t])
    BY <1>c
  <2>2. decided[x][t] = None
    BY <1>0, <2>1 DEF NoDecidedProposal
  <2> QED
    BY <1>f, <2>1, <2>2
<1>9. DecisionsOK(V)'
  <2> SUFFICES ASSUME NEW x \in Node
               PROVE  /\ \A t \in Slot : decided'[x][t] # None => Chosen(V, t, decided'[x][t])
                      /\ Len(delivered'[x]) <= MaxSlot
                      /\ \A i \in 1..Len(delivered'[x]) : delivered'[x][i] = decided'[x][i]
    BY DEF DecisionsOK, Node, Slot, Chosen, ChosenAt, Majority, MajoritySize
  <2>1. CASE x = n
    BY <1>1, <1>b, <1>f, <2>1
  <2>2. CASE x # n
    BY <1>0, <1>f, <2>2 DEF DecisionsOK
  <2> QED
    BY <2>1, <2>2
<1> QED
  BY <1>2, <1>3, <1>5, <1>6, <1>7, <1>8, <1>9 DEF PaxosInv

LEMMA LearnOne ==
  ASSUME NEW V, NEW P, PaxosInv(V, P), NEW n \in Node, NEW s \in Slot, NEW v \in Value,
         Learn(n, s, v), Chosen(V, s, v), UNCHANGED <<acceptorVars, alive, sent, turn>>,
         NEW New, net' \in Seq(Message), \A x \in InNet' : x \in InNet \/ x \in New,
         \A x \in New : x.type = "decided" /\ MessageOK(V, P, x)'
  PROVE  PaxosInv(V, P)'
<1>0. TypesOK /\ DecisionsOK(V)
  BY DEF PaxosInv
<1>a. /\ decided \in [Node -> [Slot -> Value \cup {None}]] /\ pending \in [Node -> Seq(Value)]
      /\ prop \in [Node -> [Slot -> SUBSET Proposal]] /\ alive \subseteq Node
  BY <1>0 DEF TypesOK, TypeOK
<1>b. PICK dec : dec = [decided[n] EXCEPT ![s] = IF @ = None THEN v ELSE @]
  OBVIOUS
<1>1. /\ decided' = [decided EXCEPT ![n] = dec]
      /\ delivered' = [delivered EXCEPT ![n] = DeliveredAfter(dec, @)]
      /\ prop' = [prop EXCEPT ![n][s] = {}]
      /\ pending' = [pending EXCEPT ![n] =
            IF prop[n][s] = {} THEN @
            ELSE Requeued(@, dec[s], (CHOOSE p \in prop[n][s] : TRUE).original)]
  BY <1>b DEF Learn, Withdrawn
<1>2. /\ dec \in [Slot -> Value \cup {None}] /\ dec[s] # None
      /\ \A t \in Slot : decided[n][t] # None => dec[t] = decided[n][t]
      /\ \A t \in Slot : t # s => dec[t] = decided[n][t]
      /\ dec[s] = v \/ dec[s] = decided[n][s]
  BY <1>a, <1>b, NoneAssumption
<1>3. \A t \in Slot : dec[t] # None => Chosen(V, t, dec[t])
  BY <1>0, <1>2 DEF DecisionsOK
<1>4. pending' \in [Node -> Seq(Value)]
  <2>1. CASE prop[n][s] = {}
    BY <1>1, <1>a, <2>1
  <2>2. CASE prop[n][s] # {}
    <3> DEFINE p == CHOOSE y \in prop[n][s] : TRUE
    <3>1. p \in prop[n][s]
      BY <2>2
    <3> HIDE DEF p
    <3>2. p \in Proposal
      BY <1>a, <3>1
    <3>3. p.original \in Value
      BY <3>2 DEF Proposal
    <3>4. pending' = [pending EXCEPT ![n] = Requeued(@, dec[s], p.original)]
      BY <1>1, <2>2 DEF p
    <3>5. Requeued(pending[n], dec[s], p.original) \in Seq(Value)
      BY <1>a, <3>3 DEF Requeued
    <3> QED
      BY <1>a, <3>4, <3>5
  <2> QED
    BY <2>1, <2>2
<1>5. prop' \in [Node -> [Slot -> SUBSET Proposal]]
  BY <1>1, <1>a
<1>6. \A x \in Node, t \in Slot :
        \/ prop'[x][t] = prop[x][t] /\ (x = n => decided[n][t] = dec[t])
        \/ x = n /\ prop'[x][t] = {} /\ (dec[t] # None \/ InNet = {})
  <2> SUFFICES ASSUME NEW x \in Node, NEW t \in Slot
        PROVE  \/ prop'[x][t] = prop[x][t] /\ (x = n => decided[n][t] = dec[t])
               \/ x = n /\ prop'[x][t] = {} /\ (dec[t] # None \/ InNet = {})
    OBVIOUS
  <2>1. CASE x = n /\ t = s
    BY <1>1, <1>2, <1>a, <2>1
  <2>2. CASE ~(x = n /\ t = s)
    BY <1>1, <1>2, <1>a, <2>2
  <2> QED
    BY <2>1, <2>2
<1>7. Learns(V, P, n, dec, New)
  BY <1>1, <1>2, <1>3, <1>4, <1>5, <1>6, <1>a DEF Learns
<1> QED
  BY <1>7, LearnStep

LEMMA AcceptedStep ==
  ASSUME NEW V, NEW P, PaxosInv(V, P), NEW n \in Node, NEW p, HandleAccepted(n, p)
  PROVE  PaxosInv(V, P)'
<1>0. /\ TypesOK /\ Outstanding /\ NoDecidedProposal
      /\ AcceptorsOK(V, P) /\ ProposedOK(V, P)
      /\ MessagesOK(V, P) /\ ProposalsOK(V, P) /\ DecisionsOK(V)
  BY DEF PaxosInv
<1>n. net # << >>
  BY DEF HandleAccepted, Receives
<1>a. PICK m \in InNet : m = Msg /\ m \in Message /\ m.type = "accept_response" /\ m.ok
  BY <1>0, HeadInNet DEF HandleAccepted, Receives
<1>b. PICK s \in Slot : s = m.slot
  BY <1>a, MessageTypes
<1>c. PICK a \in Node : a = m.from
  BY <1>a, MessageTypes
<1>d. PICK v \in Value : v = m.val
  BY <1>a, MessageTypes
<1>e. p \in prop[n][s] /\ p.phase = "accept" /\ Number(p.round, n) = m.num
  BY <1>a, <1>b DEF HandleAccepted, Awaits
<1>f. p \in Proposal /\ p.round \in Nat /\ p.accepts \in SUBSET Node /\ p.value \in Value
  <2>1. p \in Proposal
    BY <1>0, <1>e DEF TypesOK, TypeOK
  <2> QED
    BY <2>1 DEF Proposal
<1>g. PICK b \in Nat : b = Number(p.round, n)
  BY <1>f, NumberNat
<1>h. PICK q : q = [p EXCEPT !.accepts = @ \cup {a}]
  OBVIOUS
<1>i. PICK out : out = ToAll([type |-> "decided", slot |-> s, val |-> v, from |-> n, to |-> n])
  OBVIOUS
<1>1. /\ UNCHANGED <<acceptorVars, alive, sent, turn>>
      /\ IF Cardinality(q.accepts) < MajoritySize
         THEN /\ prop' = [prop EXCEPT ![n][s] = {q}] /\ Reply(<< >>)
              /\ UNCHANGED <<decided, delivered, pending>>
         ELSE Learn(n, s, v) /\ Reply(out)
  BY <1>a, <1>b, <1>c, <1>d, <1>h, <1>i DEF HandleAccepted, SetProposal, Reply
<1>2. /\ q \in Proposal /\ q.round = p.round /\ q.phase = "accept" /\ q.value = p.value
      /\ q.accepts = p.accepts \cup {a}
  BY <1>e, <1>f, <1>h DEF Proposal
<1>3. ProposalOK(V, P, n, s, b, p)
  BY <1>0, <1>e, <1>g DEF ProposalsOK
<1>4. <<s, b, p.value>> \in P /\ \A x \in p.accepts : <<x, s, b, p.value>> \in V
  BY <1>3, <1>e DEF ProposalOK
<1>5. <<a, s, b, v>> \in V
  BY <1>0, <1>a, <1>b, <1>c, <1>d, <1>e, <1>g DEF MessagesOK, MessageOK
<1>6. v = p.value
  <2>1. <<s, b, v>> \in P
    BY <1>0, <1>5 DEF AcceptorsOK
  <2> QED
    BY <1>0, <1>4, <1>f, <2>1 DEF ProposedOK
<1>7. \A x \in q.accepts : <<x, s, b, v>> \in V
  BY <1>2, <1>4, <1>5, <1>6
<1>8. CASE Cardinality(q.accepts) < MajoritySize
  <2>1. net' \in Seq(Message) /\ InNet' \subseteq InNet
    BY <1>0, <1>1, <1>8, <1>n, DropNet
  <2>2. ProposedOK(V, P)' /\ P \in SUBSET Proposals
    BY <1>0, <1>1, AcceptorsStay DEF AcceptorsOK
  <2>3. ProposalOK(V, P, n, s, b, q)'
    BY <1>2, <1>4, <1>6, <1>7 DEF ProposalOK
  <2>4. Number(q.round, n) = b /\ Number(p.round, n) <= Number(q.round, n)
    BY <1>2, <1>g
  <2>5. ProposalOK(V, P, n, s, Number(q.round, n), q)'
    BY <2>3, <2>4
  <2>6. PICK New : New = {}
    OBVIOUS
  <2>7. Moves(V, P, P, n, s, p, q, New)
    BY <1>1, <1>2, <1>8, <1>e, <2>1, <2>2, <2>4, <2>5, <2>6 DEF Moves
  <2> QED
    BY <2>7, ProposerStep
<1>9. CASE ~(Cardinality(q.accepts) < MajoritySize)
  <2>1. q.accepts \in Majority
    <3>1. q.accepts \in SUBSET Node
      BY <1>2, <1>f
    <3>2. Cardinality(q.accepts) \in Nat /\ MajoritySize \in Nat
      BY <3>1, NodesFinite, SizeAssumption DEF MajoritySize
    <3> QED
      BY <1>9, <3>1, <3>2 DEF Majority
  <2>2. Chosen(V, s, v)
    BY <1>7, <2>1 DEF Chosen, ChosenAt
  <2>3. /\ out \in Seq(Message)
        /\ \A i \in 1..Len(out) : out[i].type = "decided" /\ out[i].slot = s /\ out[i].val = v
    BY <1>i, ToAllDecided
  <2>4. PICK New : New = {out[i] : i \in 1..Len(out)}
    OBVIOUS
  <2>5. net' \in Seq(Message) /\ \A x \in InNet' : x \in InNet \/ x \in New
    BY <1>0, <1>1, <1>9, <1>n, <2>3, <2>4, ReplyNet
  <2>6. \A x \in New : x.type = "decided" /\ MessageOK(V, P, x)'
    BY <2>2, <2>3, <2>4 DEF MessageOK, Chosen, ChosenAt, Majority, MajoritySize, Node
  <2> QED
    BY <1>1, <1>9, <2>2, <2>5, <2>6, LearnOne
<1> QED
  BY <1>8, <1>9

LEMMA DecidedStep ==
  ASSUME NEW V, NEW P, PaxosInv(V, P), NEW n \in Node, HandleDecided(n)
  PROVE  PaxosInv(V, P)'
<1>0. TypesOK /\ MessagesOK(V, P)
  BY DEF PaxosInv
<1>1. net # << >>
  BY DEF HandleDecided, Receives
<1>2. PICK m \in InNet : m = Msg /\ m \in Message /\ m.type = "decided"
  BY <1>0, <1>1, HeadInNet DEF HandleDecided, Receives
<1>3. PICK s \in Slot : s = m.slot
  BY <1>2, MessageTypes
<1>4. PICK v \in Value : v = m.val
  BY <1>2, MessageTypes
<1>5. Learn(n, s, v) /\ Reply(<< >>) /\ UNCHANGED <<acceptorVars, alive, sent, turn>>
  BY <1>2, <1>3, <1>4 DEF HandleDecided, Reply
<1>6. Chosen(V, s, v)
  BY <1>0, <1>2, <1>3, <1>4 DEF MessagesOK, MessageOK
<1>7. net' \in Seq(Message) /\ InNet' \subseteq InNet
  BY <1>0, <1>1, <1>5, DropNet
<1>8. PICK New : New = {}
  OBVIOUS
<1>9. /\ \A x \in InNet' : x \in InNet \/ x \in New
      /\ \A x \in New : x.type = "decided" /\ MessageOK(V, P, x)'
  BY <1>7, <1>8
<1> QED
  BY <1>5, <1>6, <1>7, <1>9, LearnOne

LEMMA RecoverStep ==
  ASSUME NEW V, NEW P, PaxosInv(V, P), NEW n \in Node, Recover(n)
  PROVE  PaxosInv(V, P)'
<1>0. TypesOK /\ DecisionsOK(V)
  BY DEF PaxosInv
<1>a. /\ decided \in [Node -> [Slot -> Value \cup {None}]] /\ pending \in [Node -> Seq(Value)]
      /\ prop \in [Node -> [Slot -> SUBSET Proposal]] /\ alive \subseteq Node
      /\ delivered \in [Node -> Seq(Value)] /\ net \in Seq(Message)
  BY <1>0 DEF TypesOK, TypeOK
<1>b. PICK dec : dec = [s \in Slot |-> IF decided[n][s] = None /\ s =< Len(CatchUp)
                                       THEN CatchUp[s] ELSE decided[n][s]]
  OBVIOUS
<1>1. /\ net = << >> /\ alive' = alive \cup {n} /\ pending' = [pending EXCEPT ![n] = << >>]
      /\ prop' = [prop EXCEPT ![n] = [s \in Slot |-> {}]]
      /\ decided' = [decided EXCEPT ![n] = dec]
      /\ delivered' = [delivered EXCEPT ![n] = DeliveredAfter(dec, @)]
      /\ UNCHANGED <<acceptorVars, net, turn, sent>>
  BY <1>b DEF Recover, Quiet
<1>2. /\ CatchUp \in Seq(Value)
      /\ \A s \in Slot : s <= Len(CatchUp) => CatchUp[s] \in Value /\ Chosen(V, s, CatchUp[s])
  <2>1. CASE alive = {}
    <3>1. CatchUp = << >> /\ Len(CatchUp) = 0
      BY <2>1 DEF CatchUp
    <3>2. \A s \in Slot : ~(s <= 0)
      BY DEF Slot
    <3> QED
      BY <3>1, <3>2
  <2>2. CASE alive # {}
    <3> DEFINE m == CHOOSE x \in alive : \A y \in alive : x =< y
    <3>1. alive \in SUBSET Int /\ IsFiniteSet(alive)
      BY <1>a, NodesFinite DEF Node
    <3>2. \E x \in alive : \A y \in alive : x =< y
      BY <2>2, <3>1, LeastElement
    <3>3. m \in alive
      BY <3>2
    <3>4. CatchUp = delivered[m]
      BY <2>2 DEF CatchUp
    <3> HIDE DEF m
    <3>5. m \in Node /\ delivered[m] \in Seq(Value)
      BY <1>a, <3>3
    <3>6. ASSUME NEW s \in Slot, s <= Len(delivered[m])
          PROVE  delivered[m][s] \in Value /\ Chosen(V, s, delivered[m][s])
      <4>1. s \in 1..Len(delivered[m])
        BY <3>5, <3>6 DEF Slot
      <4>2. delivered[m][s] \in Value /\ delivered[m][s] = decided[m][s]
        BY <1>0, <3>5, <4>1 DEF DecisionsOK
      <4>3. decided[m][s] # None
        BY <4>2, NoneAssumption
      <4> QED
        BY <1>0, <3>5, <4>2, <4>3 DEF DecisionsOK
    <3> QED
      BY <3>4, <3>5, <3>6
  <2> QED
    BY <2>1, <2>2
<1>3. /\ dec \in [Slot -> Value \cup {None}]
      /\ \A t \in Slot : decided[n][t] # None => dec[t] = decided[n][t]
      /\ \A t \in Slot : dec[t] # None => Chosen(V, t, dec[t])
  <2>1. \A t \in Slot : dec[t] = IF decided[n][t] = None /\ t =< Len(CatchUp)
                                 THEN CatchUp[t] ELSE decided[n][t]
    BY <1>b
  <2>2. dec \in [Slot -> Value \cup {None}]
    BY <1>2, <1>a, <1>b
  <2> QED
    BY <1>0, <1>2, <2>1, <2>2 DEF DecisionsOK
<1>4. InNet = {} /\ InNet' = {}
  BY <1>1 DEF InNet
<1>5. /\ pending' \in [Node -> Seq(Value)] /\ prop' \in [Node -> [Slot -> SUBSET Proposal]]
      /\ alive' \subseteq Node /\ net' \in Seq(Message)
  BY <1>1, <1>a
<1>6. \A x \in Node, t \in Slot :
        \/ prop'[x][t] = prop[x][t] /\ (x = n => decided[n][t] = dec[t])
        \/ x = n /\ prop'[x][t] = {} /\ (dec[t] # None \/ InNet = {})
  BY <1>1, <1>4, <1>a
<1>7. PICK New : New = {}
  OBVIOUS
<1>8. Learns(V, P, n, dec, New)
  BY <1>1, <1>3, <1>4, <1>5, <1>6, <1>7 DEF Learns
<1> QED
  BY <1>8, LearnStep

(* Each pending message gets a free slot of its own. *)
LEMMA TickSlots ==
  ASSUME NEW n \in Node, pending[n] \in Seq(Value),
         Len(pending[n]) =< Cardinality(FreeSlots(n)), NEW i \in 1..Len(pending[n])
  PROVE  /\ SlotFor(n, i) \in FreeSlots(n)
         /\ Cardinality({r \in FreeSlots(n) : r < SlotFor(n, i)}) = i - 1
<1>1. FreeSlots(n) \in SUBSET Int /\ IsFiniteSet(FreeSlots(n))
  <2>1. IsFiniteSet(Slot)
    BY SizeAssumption, FS_Interval DEF Slot
  <2>2. FreeSlots(n) \subseteq Slot /\ Slot \subseteq Int
    BY DEF FreeSlots, Slot
  <2> QED
    BY <2>1, <2>2, FS_Subset
<1>2. i \in Nat \ {0} /\ Cardinality(FreeSlots(n)) >= i
  <2>1. Cardinality(FreeSlots(n)) \in Nat
    BY <1>1, FS_CardinalityType
  <2> QED
    BY <2>1
<1>3. \E s \in FreeSlots(n) : Cardinality({r \in FreeSlots(n) : r < s}) = i - 1
  BY <1>1, <1>2, NthElement
<1> QED
  BY <1>3 DEF SlotFor

LEMMA TickNet ==
  ASSUME TypesOK, NEW n \in Node, Len(pending[n]) =< Cardinality(FreeSlots(n)),
         net' = net \o TickMessages(n)
  PROVE  /\ net' \in Seq(Message)
         /\ \A m \in InNet' : m \in InNet \/
              /\ m.type = "prepare" /\ m.from = n /\ m.num = Number(0, n)
              /\ \E i \in 1..Len(pending[n]) : m.slot = SlotFor(n, i)
<1>0. N \in Nat \ {0} /\ Number(0, n) \in Nat
  BY SizeAssumption, NumberNat
<1>a. pending[n] \in Seq(Value) /\ Len(pending[n]) \in Nat /\ net \in Seq(Message) /\ Len(net) \in Nat
  BY DEF TypesOK, TypeOK
<1>b. PICK k \in Nat : k = N * Len(pending[n])
  BY <1>0, <1>a
<1> DEFINE Copy(j) == [type |-> "prepare", slot |-> SlotFor(n, (j - 1) \div N + 1),
                       num |-> Number(0, n), from |-> n, to |-> (j - 1) % N]
<1>1. TickMessages(n) = [j \in 1..k |-> Copy(j)]
  BY <1>b DEF TickMessages, Prepare
<1>2. ASSUME NEW j \in 1..k
      PROVE  (j - 1) \div N + 1 \in 1..Len(pending[n]) /\ (j - 1) % N \in Node
  <2>1. PICK x \in Int : x = (j - 1) \div N
    BY <1>0
  <2>2. PICK y \in 0..(N - 1) : y = (j - 1) % N /\ j - 1 = (N * x) + y
    <3>1. PICK i \in Nat : i = j - 1
      OBVIOUS
    <3>2. i % N \in 0..(N - 1) /\ i = (N * (i \div N)) + (i % N)
      BY <1>0, Divided
    <3> QED
      BY <2>1, <3>1, <3>2
  <2>3. 0 <= (N * x) + (N - 1) /\ N * x <= k - 1 /\ N * x \in Int
    <3>1. N * x \in Int /\ 0 <= j - 1 /\ j - 1 <= k - 1
      BY <1>0
    <3> QED
      BY <1>0, <2>2, <3>1
  <2>4. x >= 0
    <3>1. CASE x <= -1
      <4>1. N * x <= -N
        BY <1>0, <3>1
      <4> QED
        BY <1>0, <2>3, <4>1
    <3> QED
      BY <3>1
  <2>5. x < Len(pending[n])
    <3>1. CASE x >= Len(pending[n])
      <4>0. PICK l \in Nat : l = Len(pending[n])
        BY <1>a
      <4>1. PICK z \in Nat : x = l + z
        <5>1. x - l \in Nat /\ x = l + (x - l)
          BY <3>1, <4>0
        <5> QED
          BY <5>1
      <4>2. N * x = (N * l) + (N * z) /\ N * z \in Nat
        BY <1>0, <4>1
      <4>3. N * l = k
        BY <1>b, <4>0
      <4> QED
        BY <2>3, <4>2, <4>3
    <3> QED
      BY <1>a, <3>1
  <2> QED
    BY <1>0, <1>a, <2>1, <2>2, <2>4, <2>5 DEF Node
<1>3. ASSUME NEW j \in 1..k
      PROVE  /\ Copy(j) \in Message
             /\ Copy(j).type = "prepare" /\ Copy(j).from = n /\ Copy(j).num = Number(0, n)
             /\ \E i \in 1..Len(pending[n]) : Copy(j).slot = SlotFor(n, i)
  <2>1. PICK i \in 1..Len(pending[n]) : i = (j - 1) \div N + 1
    BY <1>2
  <2>2. SlotFor(n, i) \in Slot
    BY <1>a, TickSlots DEF FreeSlots
  <2>3. Copy(j) \in Message
    BY <1>0, <1>2, <2>1, <2>2 DEF Message
  <2>4. Copy(j).type = "prepare" /\ Copy(j).from = n /\ Copy(j).num = Number(0, n)
        /\ Copy(j).slot = SlotFor(n, i)
    BY <2>1
  <2> QED
    BY <2>3, <2>4
<1> HIDE DEF Copy
<1>4. PICK out \in Seq(Message) : /\ out = TickMessages(n) /\ Len(out) = k
                                  /\ \A j \in 1..k : out[j] = Copy(j)
  BY <1>1, <1>3
<1>c. net' = net \o out /\ Len(out) = k
  BY <1>4
<1>5. net' \in Seq(Message) /\ Len(net') = Len(net) + k
  <2>1. ASSUME NEW q \in Seq(Message), NEW r \in Seq(Message)
        PROVE  q \o r \in Seq(Message) /\ Len(q \o r) = Len(q) + Len(r)
    OBVIOUS
  <2> QED
    BY ONLY <1>a, <1>c, <2>1
<1>6. ASSUME NEW i \in 1..Len(net')
      PROVE  net'[i] \in InNet \/ \E j \in 1..k : net'[i] = Copy(j)
  <2>1. CASE i <= Len(net)
    <3>1. net'[i] = net[i] /\ i \in 1..Len(net)
      BY <1>5, <1>a, <1>c, <2>1
    <3> QED
      BY <3>1 DEF InNet
  <2>2. CASE i > Len(net)
    <3>1. net'[i] = out[i - Len(net)] /\ i - Len(net) \in 1..k
      BY <1>5, <1>a, <1>c, <2>2
    <3> QED
      BY <1>4, <3>1
  <2> QED
    BY <1>5, <1>a, <2>1, <2>2
<1>7. ASSUME NEW m \in InNet', m \notin InNet
      PROVE  /\ m.type = "prepare" /\ m.from = n /\ m.num = Number(0, n)
             /\ \E i \in 1..Len(pending[n]) : m.slot = SlotFor(n, i)
  <2>1. PICK i \in 1..Len(net') : m = net'[i]
    BY DEF InNet
  <2>2. PICK j \in 1..k : m = Copy(j)
    BY <1>6, <1>7, <2>1
  <2> QED
    BY <1>3, <2>2
<1> QED
  BY <1>5, <1>7

(* The i-th message becomes the only proposal for the slot that it gets. *)
LEMMA TickProposals ==
  ASSUME TypesOK, NEW n \in Node, Len(pending[n]) =< Cardinality(FreeSlots(n)),
         prop' = [prop EXCEPT ![n] = [s \in Slot |-> @[s] \cup
           {NewProposal(pending[n][i]) : i \in {j \in 1..Len(pending[n]) : SlotFor(n, j) = s}}]]
  PROVE  /\ prop' \in [Node -> [Slot -> SUBSET Proposal]]
         /\ \A x \in Node, s \in Slot :
              \/ prop'[x][s] = prop[x][s]
              \/ /\ x = n /\ s \in FreeSlots(n)
                 /\ \E v \in Value : prop'[x][s] = {NewProposal(v)}
         /\ \A i \in 1..Len(pending[n]) :
              SlotFor(n, i) \in FreeSlots(n) /\ prop'[n][SlotFor(n, i)] # {}
<1> DEFINE Got(s) == {j \in 1..Len(pending[n]) : SlotFor(n, j) = s}
           Taken(s) == {NewProposal(pending[n][i]) : i \in Got(s)}
<1>0. pending[n] \in Seq(Value) /\ prop \in [Node -> [Slot -> SUBSET Proposal]]
  BY DEF TypesOK, TypeOK
<1>1. \A v \in Value : NewProposal(v) \in Proposal
  BY DEF NewProposal, Proposal, Number0
<1>2. ASSUME NEW i \in 1..Len(pending[n])
      PROVE  pending[n][i] \in Value /\ SlotFor(n, i) \in FreeSlots(n)
  <2>1. pending[n][i] \in Value
    BY <1>0
  <2>2. SlotFor(n, i) \in FreeSlots(n)
    BY <1>0, TickSlots
  <2> QED
    BY <2>1, <2>2
<1>3. ASSUME NEW s \in Slot
      PROVE  \/ Taken(s) = {}
             \/ s \in FreeSlots(n) /\ \E v \in Value : Taken(s) = {NewProposal(v)}
  <2>1. CASE Got(s) = {}
    BY <2>1
  <2>2. CASE Got(s) # {}
    <3>1. PICK i \in 1..Len(pending[n]) : SlotFor(n, i) = s
      BY <2>2
    <3>2. ASSUME NEW j \in 1..Len(pending[n]), SlotFor(n, j) = s PROVE j = i
      <4>1. Cardinality({r \in FreeSlots(n) : r < s}) = i - 1
        BY <1>0, <3>1, TickSlots
      <4>2. Cardinality({r \in FreeSlots(n) : r < s}) = j - 1
        BY <1>0, <3>2, TickSlots
      <4> QED
        BY <4>1, <4>2
    <3>3. Got(s) = {i}
      BY <3>1, <3>2
    <3>4. Taken(s) = {NewProposal(pending[n][i])}
      <4> HIDE DEF Got
      <4> QED
        BY <3>3
    <3> QED
      BY <1>2, <3>1, <3>4
  <2> QED
    BY <2>1, <2>2
<1>4. ASSUME NEW i \in 1..Len(pending[n]) PROVE NewProposal(pending[n][i]) \in Taken(SlotFor(n, i))
  OBVIOUS
<1> HIDE DEF Taken
<1>5. prop' = [prop EXCEPT ![n] = [s \in Slot |-> prop[n][s] \cup Taken(s)]]
  BY <1>0 DEF Taken
<1>6. \A x \in Node, s \in Slot :
        prop'[x][s] = IF x = n THEN prop[x][s] \cup Taken(s) ELSE prop[x][s]
  BY ONLY <1>0, <1>5
<1>7. \A s \in FreeSlots(n) : s \in Slot /\ prop[n][s] = {}
  BY DEF FreeSlots
<1>8. \A s \in Slot : Taken(s) \subseteq Proposal
  BY <1>1, <1>3
<1>9. prop' \in [Node -> [Slot -> SUBSET Proposal]]
  BY <1>0, <1>5, <1>8
<1>10. ASSUME NEW x \in Node, NEW s \in Slot, prop'[x][s] # prop[x][s]
       PROVE  /\ x = n /\ s \in FreeSlots(n)
              /\ \E v \in Value : prop'[x][s] = {NewProposal(v)}
  <2>1. x = n /\ Taken(s) # {}
    BY <1>6, <1>10
  <2>2. s \in FreeSlots(n) /\ \E v \in Value : Taken(s) = {NewProposal(v)}
    BY <1>3, <2>1
  <2>3. prop'[x][s] = Taken(s)
    BY <1>6, <1>7, <2>1, <2>2
  <2> QED
    BY <2>1, <2>2, <2>3
<1>11. ASSUME NEW i \in 1..Len(pending[n])
       PROVE  SlotFor(n, i) \in FreeSlots(n) /\ prop'[n][SlotFor(n, i)] # {}
  BY <1>2, <1>4, <1>6, <1>7
<1> QED
  BY <1>9, <1>10, <1>11

LEMMA TickStep ==
  ASSUME NEW V, NEW P, PaxosInv(V, P), NEW n \in Node, Tick(n)
  PROVE  PaxosInv(V, P)'
<1>0. /\ TypesOK /\ Outstanding /\ NoDecidedProposal
      /\ AcceptorsOK(V, P) /\ ProposedOK(V, P)
      /\ MessagesOK(V, P) /\ ProposalsOK(V, P) /\ DecisionsOK(V)
  BY DEF PaxosInv
<1>a. /\ pending \in [Node -> Seq(Value)] /\ alive \subseteq Node
      /\ sent \in [Node -> SUBSET Value] /\ net \in Seq(Message)
      /\ prop \in [Node -> [Slot -> SUBSET Proposal]]
  BY <1>0 DEF TypesOK, TypeOK
<1>b. UNCHANGED <<acceptorVars, decided, delivered, alive, sent>> /\ turn' \in 0..N
  BY SizeAssumption DEF Tick, Node
<1>1. CASE n \notin alive
  <2>1. UNCHANGED <<prop, pending, net>>
    BY <1>1 DEF Tick
  <2>2. TypesOK'
    BY <1>0, <1>a, <1>b, <2>1, TypesStay
  <2> QED
    BY <1>b, <2>1, <2>2, QuietStep DEF InNet
<1>2. CASE n \in alive
  <2>0. /\ Len(pending[n]) =< Cardinality(FreeSlots(n))
        /\ prop' = [prop EXCEPT ![n] = [s \in Slot |-> @[s] \cup
             {NewProposal(pending[n][i]) : i \in {j \in 1..Len(pending[n]) : SlotFor(n, j) = s}}]]
        /\ pending' = [pending EXCEPT ![n] = << >>]
        /\ net' = net \o TickMessages(n)
    BY <1>2 DEF Tick
  <2>a. /\ net' \in Seq(Message)
        /\ \A m \in InNet' : m \in InNet \/
             /\ m.type = "prepare" /\ m.from = n /\ m.num = Number(0, n)
             /\ \E i \in 1..Len(pending[n]) : m.slot = SlotFor(n, i)
    BY <1>0, <2>0, TickNet
  <2>b. /\ prop' \in [Node -> [Slot -> SUBSET Proposal]]
        /\ \A x \in Node, s \in Slot :
             \/ prop'[x][s] = prop[x][s]
             \/ /\ x = n /\ s \in FreeSlots(n)
                /\ \E v \in Value : prop'[x][s] = {NewProposal(v)}
        /\ \A i \in 1..Len(pending[n]) :
             SlotFor(n, i) \in FreeSlots(n) /\ prop'[n][SlotFor(n, i)] # {}
    BY <1>0, <2>0, TickProposals
  <2>c. pending' \in [Node -> Seq(Value)]
    BY <1>a, <2>0
  <2> HIDE <2>0
  <2>d. \A s \in FreeSlots(n) : s \in Slot /\ prop[n][s] = {} /\ decided[n][s] = None
    BY DEF FreeSlots
  <2>1. TypesOK'
    <3>1. ASSUME NEW x \in Node, NEW s \in Slot
          PROVE  /\ prop'[x][s] \subseteq Proposal /\ Cardinality(prop'[x][s]) =< 1
                 /\ \A y, z \in prop'[x][s] : y = z
      <4>1. CASE prop'[x][s] = prop[x][s]
        BY <1>0, <4>1 DEF TypesOK, TypeOK
      <4>2. ASSUME NEW v \in Value, prop'[x][s] = {NewProposal(v)}
            PROVE  Cardinality(prop'[x][s]) =< 1 /\ \A y, z \in prop'[x][s] : y = z
        <5>1. PICK q : q = NewProposal(v)
          OBVIOUS
        <5>2. Cardinality({q}) = 1
          BY FS_Singleton
        <5> QED
          BY <4>2, <5>1, <5>2
      <4>3. prop'[x][s] \subseteq Proposal
        BY <2>b
      <4> QED
        BY <2>b, <4>1, <4>2, <4>3
    <3> QED
      BY <1>0, <1>a, <1>b, <2>a, <2>b, <2>c, <3>1 DEF TypesOK, TypeOK, acceptorVars
  <2>2. Grows(V, P, V, P) /\ AcceptorsOK(V, P)' /\ ProposedOK(V, P)'
    BY <1>0, <1>b, AcceptorsStay
  <2>3. ASSUME NEW x \in Node, NEW s \in Slot, NEW b \in Nat, NEW a \in Node, Promises(x, s, b, a)'
        PROVE  Promises(x, s, b, a)
    BY <2>a, <2>3 DEF Promises
  <2>4. NewPromises
    BY <2>3 DEF NewPromises
  <2>5. MessagesOK(V, P)'
    <3>1. \A m \in InNet : MessageOK(V, P, m)'
      BY <1>0, <2>2, InNetTyped, OldMessage DEF MessagesOK
    <3>2. \A m : m.type = "prepare" => MessageOK(V, P, m)'
      BY DEF MessageOK
    <3> QED
      BY <2>a, <3>1, <3>2 DEF MessagesOK
  <2>6. ProposalsOK(V, P)'
    <3> SUFFICES ASSUME NEW x \in Node, NEW s \in Slot, NEW p \in prop'[x][s]
                 PROVE  ProposalOK(V, P, x, s, Number(p.round, x), p)'
      BY DEF ProposalsOK, Node, Slot
    <3>1. CASE prop'[x][s] = prop[x][s]
      BY <1>0, <2>2, <2>4, <3>1, ProposalsStay
    <3>2. ASSUME x = n, s \in FreeSlots(n), NEW v \in Value, p = NewProposal(v)
          PROVE  ProposalOK(V, P, x, s, Number(p.round, x), p)'
      <4>1. /\ p.phase = "prepare" /\ p.accepts = {} /\ p.promises = {} /\ p.round = 0
            /\ p.high = -1 /\ p.highVal = None
        BY <3>2 DEF NewProposal
      <4>2. PICK b \in Nat : b = Number(p.round, x)
        BY <4>1, NumberNat
      <4>3. Highest(P, s, b, p.high, p.highVal)'
        BY <4>1 DEF Highest, Number0
      <4>4. ASSUME NEW w \in Value, <<s, b, w>> \in P PROVE Spent(x, s, b, p.promises)'
        <5>1. PICK Q \in Majority : \A a \in Q : promised[a][s] >= b
          BY <1>0, <4>4 DEF ProposedOK
        <5>2. ASSUME NEW a \in Q
              PROVE  promised'[a][s] >= b /\ a \notin p.promises /\ ~Promises(x, s, b, a)'
          <6>1. a \in Node
            BY MajorityHas
          <6>2. ~Promises(x, s, b, a)
            BY <1>0, <2>d, <3>2 DEF Promises, Outstanding, Asked
          <6> QED
            BY <1>b, <2>3, <4>1, <5>1, <6>1, <6>2 DEF acceptorVars
        <5> QED
          BY <5>2 DEF Spent, Majority, MajoritySize, Node
      <4>5. ProposalOK(V, P, x, s, b, p)'
        BY <4>1, <4>3, <4>4 DEF ProposalOK
      <4> QED
        BY <4>2, <4>5
    <3> QED
      BY <2>b, <3>1, <3>2
  <2>7. Outstanding'
    <3>1. ASSUME NEW x \in Node, NEW s \in Slot, NEW c, Asked(x, s, c)
          PROVE  Asked(x, s, c)'
      <4>1. CASE prop'[x][s] = prop[x][s]
        BY <1>b, <3>1, <4>1 DEF Asked, Number
      <4>2. CASE x = n /\ s \in FreeSlots(n)
        BY <2>d, <3>1, <4>2 DEF Asked
      <4> QED
        BY <2>b, <4>1, <4>2
    <3>2. ASSUME NEW s, NEW i \in 1..Len(pending[n]), s = SlotFor(n, i)
          PROVE  Asked(n, s, Number(0, n))'
      <4>1. s \in Slot /\ s \in FreeSlots(n) /\ prop'[n][s] # {}
        BY <2>b, <2>d, <3>2
      <4>2. PICK v \in Value : prop'[n][s] = {NewProposal(v)}
        BY <2>b, <2>d, <4>1
      <4>3. PICK q : q \in prop'[n][s] /\ q.round = 0
        <5>1. PICK q : q = NewProposal(v)
          OBVIOUS
        <5>2. q.round = 0
          BY <5>1 DEF NewProposal
        <5> QED
          BY <4>2, <5>1, <5>2
      <4>4. Number(0, n) <= Number(q.round, n)
        BY <4>3, NumberNat
      <4> QED
        BY <4>3, <4>4 DEF Asked, Number
    <3>3. ASSUME NEW m \in InNet'
          PROVE  /\ m.type = "prepare" => Asked(m.from, m.slot, m.num)'
                 /\ m.type = "prepare_response" => Asked(m.to, m.slot, m.num)'
      <4>1. CASE m \in InNet
        <5>1. m \in Message
          BY <1>0, <4>1, InNetTyped
        <5> QED
          BY <1>0, <3>1, <4>1, <5>1, MessageTypes DEF Outstanding
      <4>2. CASE m \notin InNet
        <5>1. /\ m.type = "prepare" /\ m.from = n /\ m.num = Number(0, n)
              /\ \E i \in 1..Len(pending[n]) : m.slot = SlotFor(n, i)
          BY <2>a, <4>2
        <5>2. PICK s : s = m.slot
          OBVIOUS
        <5>3. Asked(n, s, Number(0, n))'
          BY <3>2, <5>1, <5>2
        <5> QED
          BY <5>1, <5>2, <5>3
      <4> QED
        BY <4>1, <4>2
    <3> QED
      BY <3>3 DEF Outstanding
  <2>8. NoDecidedProposal' /\ DecisionsOK(V)'
    BY <1>0, <1>b, <2>b, <2>d DEF NoDecidedProposal, DecisionsOK
  <2> QED
    BY <2>1, <2>2, <2>5, <2>6, <2>7, <2>8 DEF PaxosInv
<1> QED
  BY <1>1, <1>2

-----------------------------------------------------------------------------
LEMMA InitInv == Init => PaxosInv({}, {})
<1> SUFFICES ASSUME Init PROVE PaxosInv({}, {})
  OBVIOUS
<1>1. TypesOK
  <2>1. \A n \in Node, s \in Slot : prop[n][s] = {}
    BY DEF Init
  <2>2. Cardinality({}) = 0
    BY FS_EmptySet
  <2>3. \A n \in Node, s \in Slot : prop[n][s] \subseteq Proposal /\ Cardinality(prop[n][s]) =< 1
    BY <2>1, <2>2
  <2>4. /\ promised \in [Node -> [Slot -> Number0]]
        /\ acceptedNum \in [Node -> [Slot -> Number0]]
    BY DEF Init, Number0
  <2>5. /\ acceptedVal \in [Node -> [Slot -> Value \cup {None}]]
        /\ decided \in [Node -> [Slot -> Value \cup {None}]]
        /\ delivered \in [Node -> Seq(Value)] /\ pending \in [Node -> Seq(Value)]
        /\ alive \subseteq Node /\ turn \in 0..N /\ sent \in [Node -> SUBSET Value]
        /\ prop \in [Node -> [Slot -> SUBSET Proposal]] /\ net \in Seq(Message)
    BY SizeAssumption DEF Init
  <2> QED
    BY <2>1, <2>3, <2>4, <2>5 DEF TypesOK, TypeOK
<1>2. InNet = {}
  BY DEF Init, InNet
<1>3. Outstanding /\ MessagesOK({}, {})
  BY <1>2 DEF Outstanding, MessagesOK
<1>4. NoDecidedProposal /\ ProposalsOK({}, {})
  BY DEF Init, NoDecidedProposal, ProposalsOK
<1>5. AcceptorsOK({}, {}) /\ ProposedOK({}, {})
  BY DEF Init, AcceptorsOK, ProposedOK
<1>6. DecisionsOK({})
  BY SizeAssumption DEF Init, DecisionsOK
<1> QED
  BY <1>1, <1>3, <1>4, <1>5, <1>6 DEF PaxosInv

Inv == \E V, P : PaxosInv(V, P)

LEMMA NextInv == Inv /\ [Next]_vars => Inv'
<1> SUFFICES ASSUME NEW V, NEW P, PaxosInv(V, P), [Next]_vars
             PROVE  \E V2, P2 : PaxosInv(V2, P2)'
  BY DEF Inv
<1>1. ASSUME NEW n \in Node, Tick(n) PROVE PaxosInv(V, P)'
  BY <1>1, TickStep
<1>2. ASSUME NEW n \in Node,
             HandlePrepare(n) \/ HandleDecided(n) \/ Recover(n)
      PROVE  PaxosInv(V, P)'
  BY <1>2, PrepareStep, DecidedStep, RecoverStep
<1>3. ASSUME NEW n \in Node, HandleAcceptRequest(n) PROVE \E V2 : PaxosInv(V2, P)'
  BY <1>3, AcceptRequestStep
<1>4. ASSUME NEW n \in Node, NEW p, HandlePromise(n, p) PROVE \E P2 : PaxosInv(V, P2)'
  BY <1>4, PromiseStep
<1>5. ASSUME NEW n \in Node, NEW p, HandleRejection(n, p) \/ HandleAccepted(n, p)
      PROVE  PaxosInv(V, P)'
  BY <1>5, RejectionStep, AcceptedStep
<1>6. ASSUME \/ DropMessage \/ EndRound \/ UNCHANGED vars
             \/ \E n \in Node : IgnoreResponse(n) \/ Crash(n)
             \/ \E n \in Node, v \in Value : Broadcast(n, v)
      PROVE  PaxosInv(V, P)'
  BY <1>6, QuietSteps
<1>7. CASE Receive
  BY <1>2, <1>3, <1>4, <1>5, <1>6, <1>7 DEF Receive
<1> QED
  BY <1>1, <1>2, <1>6, <1>7 DEF Next

LEMMA Invariance == Spec => []Inv
<1>1. Init => Inv
  BY InitInv DEF Inv
<1> QED
  BY <1>1, NextInv, PTL DEF Spec

(* Acceptors, learners and proposals keep their types, and no node has two   *)
(* proposals for a slot.                                                     *)
THEOREM TypeCorrect == Spec => []TypeOK
<1>1. Inv => TypeOK
  BY DEF Inv, PaxosInv, TypesOK
<1> QED
  BY <1>1, Invariance, PTL

(* Two nodes never decide a slot differently, for any number of nodes,       *)
(* broadcasts, retries and crashes, although a recovered node uses proposal  *)
(* numbers again: ConsensusInstance and _handle_* choose one value per slot. *)
THEOREM NodesAgree == Spec => []Agreement
<1>1. Inv => Agreement
  <2> SUFFICES ASSUME NEW V, NEW P, PaxosInv(V, P), NEW m \in Node, NEW n \in Node, NEW s \in Slot,
                      decided[m][s] # None, decided[n][s] # None
               PROVE  decided[m][s] = decided[n][s]
    BY DEF Inv, Agreement
  <2>1. AcceptorsOK(V, P) /\ ProposedOK(V, P) /\ DecisionsOK(V)
    BY DEF PaxosInv
  <2>2. decided[m][s] \in Value /\ decided[n][s] \in Value
    BY DEF PaxosInv, TypesOK, TypeOK
  <2>3. Chosen(V, s, decided[m][s]) /\ Chosen(V, s, decided[n][s])
    BY <2>1 DEF DecisionsOK
  <2> QED
    BY <2>1, <2>2, <2>3, ChosenOnce
<1> QED
  BY <1>1, Invariance, PTL

(* Of what two nodes delivered, one is a prefix of the other, also after     *)
(* recover_node copied the messages of another node: verify_total_order.     *)
THEOREM OneOrder == Spec => []TotalOrder
<1>1. Inv /\ Agreement => TotalOrder
  <2> SUFFICES ASSUME NEW V, NEW P, PaxosInv(V, P), Agreement, NEW m \in Node, NEW n \in Node,
                      NEW i \in 1..Len(delivered[m]), i =< Len(delivered[n])
               PROVE  delivered[m][i] = delivered[n][i]
    BY DEF Inv, TotalOrder
  <2>1. /\ delivered[m] \in Seq(Value) /\ delivered[n] \in Seq(Value)
        /\ Len(delivered[m]) <= MaxSlot
    BY DEF PaxosInv, TypesOK, TypeOK, DecisionsOK
  <2>2. i \in Slot /\ i \in 1..Len(delivered[n])
    BY <2>1, SizeAssumption DEF Slot
  <2>3. /\ delivered[m][i] = decided[m][i] /\ delivered[n][i] = decided[n][i]
        /\ delivered[m][i] \in Value /\ delivered[n][i] \in Value
    BY <2>1, <2>2 DEF PaxosInv, DecisionsOK
  <2> QED
    BY <2>2, <2>3, NoneAssumption DEF Agreement
<1> QED
  BY <1>1, Invariance, NodesAgree, PTL

(* A proposal is dropped as soon as its slot is decided, so the branches of  *)
(* tick and _bump_and_retry for decided slots are dead.                      *)
THEOREM ProposalsOpen == Spec => []NoDecidedProposal
<1>1. Inv => NoDecidedProposal
  BY DEF Inv, PaxosInv
<1> QED
  BY <1>1, Invariance, PTL

-----------------------------------------------------------------------------
(* No value is delivered more often than it was broadcast.  O is the set of  *)
(* all <<s, v, n>> such that tick started a proposal of n for slot s with    *)
(* the value v, which n broadcast.                                           *)

Owned(O, s, v) == v = None \/ \E n \in Node : <<s, v, n>> \in O

\* Node n knows that slot s was decided for another value.
Lost(n, s, v) == decided[n][s] # None /\ decided[n][s] # v

\* v has lost in every slot outside of T that n proposed it for.
LostBut(O, n, v, T) == \A s \in Slot : <<s, v, n>> \in O => s \in T \/ Lost(n, s, v)

MessageOwned(O, m) ==
  /\ m.type = "prepare_response" => Owned(O, m.slot, m.accVal)
  /\ m.type \in {"accept_request", "accept_response", "decided"} => Owned(O, m.slot, m.val)

\* What is voted on for a slot was proposed for it by the node that broadcast it.
ValuesOwned(O) ==
  /\ \A n \in Node, s \in Slot : Owned(O, s, acceptedVal[n][s])
  /\ \A n \in Node, s \in Slot : Owned(O, s, decided[n][s])
  /\ \A n \in Node, s \in Slot : \A p \in prop[n][s] :
       Owned(O, s, p.value) /\ Owned(O, s, p.highVal)
  /\ \A m \in InNet : MessageOwned(O, m)

Queued(n, v) == \E i \in 1..Len(pending[n]) : pending[n][i] = v

OncePending(O, n) ==
  /\ \A v \in Value : Queued(n, v) => v \in sent[n] /\ LostBut(O, n, v, {})
  /\ \A i, j \in 1..Len(pending[n]) : pending[n][i] = pending[n][j] => i = j

\* Of the slots a node proposed its value for, all but one have been lost, and
\* all while the value is queued.
OneAttempt(O) ==
  /\ \A n \in Node, v \in Value, s \in Slot : <<s, v, n>> \in O => v \in sent[n]
  /\ \A n \in Node, v \in Value, s, t \in Slot :
       <<s, v, n>> \in O /\ <<t, v, n>> \in O => s = t \/ Lost(n, s, v) \/ Lost(n, t, v)
  /\ \A n \in Node : OncePending(O, n)
  /\ \A n \in Node, s \in Slot : \A p \in prop[n][s] :
       <<s, p.original, n>> \in O /\ LostBut(O, n, p.original, {s})

LearnedOK ==
  \A n \in Node :
    /\ Len(delivered[n]) <= MaxSlot
    /\ \A i \in 1..Len(delivered[n]) : delivered[n][i] = decided[n][i]

Base == TypesOK /\ NoDecidedProposal /\ LearnedOK
OnceInv(O) == ValuesOwned(O) /\ OneAttempt(O)

LEMMA InvBase == Inv => Base
BY DEF Inv, PaxosInv, Base, LearnedOK, DecisionsOK

LEMMA MoreOwned ==
  ASSUME NEW O, NEW O2, O \subseteq O2, NEW s, NEW v, Owned(O, s, v)
  PROVE  Owned(O2, s, v)
BY DEF Owned

LEMMA ValuesStay ==
  ASSUME NEW O, NEW O2, O \subseteq O2, ValuesOwned(O),
         \A n \in Node, s \in Slot :
           acceptedVal'[n][s] = acceptedVal[n][s] \/ Owned(O2, s, acceptedVal'[n][s]),
         \A n \in Node, s \in Slot :
           decided'[n][s] = decided[n][s] \/ Owned(O2, s, decided'[n][s]),
         \A n \in Node, s \in Slot : \A p \in prop'[n][s] :
           p \in prop[n][s] \/ (Owned(O2, s, p.value) /\ Owned(O2, s, p.highVal)),
         \A m \in InNet' : m \in InNet \/ MessageOwned(O2, m)
  PROVE  ValuesOwned(O2)'
<1>1. \A n \in Node, s \in Slot : Owned(O2, s, acceptedVal'[n][s])
  BY MoreOwned DEF ValuesOwned
<1>2. \A n \in Node, s \in Slot : Owned(O2, s, decided'[n][s])
  BY MoreOwned DEF ValuesOwned
<1>3. \A n \in Node, s \in Slot : \A p \in prop'[n][s] :
        Owned(O2, s, p.value) /\ Owned(O2, s, p.highVal)
  BY MoreOwned DEF ValuesOwned
<1>4. \A m \in InNet' : MessageOwned(O2, m)
  BY MoreOwned DEF ValuesOwned, MessageOwned
<1> QED
  BY <1>1, <1>2, <1>3, <1>4 DEF ValuesOwned, MessageOwned, Owned, Node

(* Nothing is learned, and proposals stay those of the same broadcasts. *)
SameOriginals ==
  \A n \in Node, s \in Slot : \A p \in prop'[n][s] :
    \E q \in prop[n][s] : p.original = q.original

LEMMA AttemptsStay ==
  ASSUME NEW O, OneAttempt(O), UNCHANGED <<decided, pending, sent>>, SameOriginals
  PROVE  OneAttempt(O)'
BY DEF OneAttempt, OncePending, Queued, LostBut, Lost, SameOriginals

(* The message that is handled. *)
LEMMA HandledOwned ==
  ASSUME NEW O, TypesOK, ValuesOwned(O), net # << >>
  PROVE  Msg \in Message /\ MessageOwned(O, Msg)
BY HeadInNet DEF ValuesOwned

(* Steps that only consume messages, or crash a node. *)
LEMMA OnceQuiet ==
  ASSUME NEW O, OnceInv(O), UNCHANGED <<acceptedVal, decided, pending, prop, sent>>,
         InNet' \subseteq InNet
  PROVE  OnceInv(O)'
<1>1. ValuesOwned(O) /\ OneAttempt(O)
  BY DEF OnceInv
<1>2. ValuesOwned(O)'
  BY <1>1, ValuesStay
<1>3. OneAttempt(O)'
  BY <1>1, AttemptsStay DEF SameOriginals
<1> QED
  BY <1>2, <1>3 DEF OnceInv

LEMMA OnceQuietSteps ==
  ASSUME NEW O, Base, OnceInv(O),
         \/ DropMessage \/ EndRound \/ UNCHANGED vars
         \/ \E n \in Node : IgnoreResponse(n) \/ Crash(n)
  PROVE  OnceInv(O)'
<1>1. CASE DropMessage \/ \E n \in Node : IgnoreResponse(n)
  <2>1. net # << >> /\ Reply(<< >>) /\ UNCHANGED <<acceptorVars, learnerVars, sent>>
    BY <1>1 DEF DropMessage, IgnoreResponse, Receives
  <2>2. InNet' \subseteq InNet
    BY <2>1, DropNet DEF Base
  <2> QED
    BY <2>1, <2>2, OnceQuiet DEF learnerVars, acceptorVars
<1>2. CASE EndRound
  BY <1>2, OnceQuiet DEF EndRound, learnerVars, acceptorVars, InNet
<1>3. CASE UNCHANGED vars
  BY <1>3, OnceQuiet DEF vars, learnerVars, acceptorVars, InNet
<1>4. CASE \E n \in Node : Crash(n)
  BY <1>4, OnceQuiet DEF Crash, learnerVars, acceptorVars, InNet
<1> QED
  BY <1>1, <1>2, <1>3, <1>4

(* The queue of pending values. *)

Kept(O, n) == \A w : LostBut(O, n, w, {}) => LostBut(O, n, w, {})'

LEMMA QueueStays ==
  ASSUME NEW O, NEW n \in Node, OncePending(O, n), Kept(O, n),
         pending'[n] = pending[n], sent[n] \subseteq sent'[n]
  PROVE  OncePending(O, n)'
BY DEF OncePending, Queued, Kept

LEMMA QueuedOnce ==
  ASSUME NEW O, TypesOK, NEW n \in Node, NEW v \in Value, OncePending(O, n), Kept(O, n),
         ~Queued(n, v), pending'[n] = Append(pending[n], v), sent[n] \subseteq sent'[n],
         v \in sent'[n], LostBut(O, n, v, {})'
  PROVE  OncePending(O, n)'
<1>1. pending[n] \in Seq(Value)
  BY DEF TypesOK, TypeOK
<1>2. /\ Len(pending'[n]) = Len(pending[n]) + 1 /\ Len(pending[n]) \in Nat
      /\ pending'[n][Len(pending[n]) + 1] = v
      /\ \A i \in 1..Len(pending[n]) : pending'[n][i] = pending[n][i]
  BY <1>1
<1>3. \A w : Queued(n, w)' => Queued(n, w) \/ w = v
  BY <1>2 DEF Queued
<1>4. \A w \in Value : Queued(n, w)' => w \in sent'[n] /\ LostBut(O, n, w, {})'
  BY <1>3 DEF OncePending, Kept
<1>5. ASSUME NEW i \in 1..Len(pending'[n]), NEW j \in 1..Len(pending'[n]),
             pending'[n][i] = pending'[n][j]
      PROVE  i = j
  <2>1. i \in 1..Len(pending[n]) \/ i = Len(pending[n]) + 1
    BY <1>2
  <2>2. j \in 1..Len(pending[n]) \/ j = Len(pending[n]) + 1
    BY <1>2
  <2>3. \A k \in 1..Len(pending[n]) : pending[n][k] # v
    BY DEF Queued
  <2>4. CASE i \in 1..Len(pending[n]) /\ j \in 1..Len(pending[n])
    BY <1>2, <1>5, <2>4 DEF OncePending
  <2> QED
    BY <1>2, <1>5, <2>1, <2>2, <2>3, <2>4
<1> QED
  BY <1>4, <1>5 DEF OncePending

(* Broadcast: n has neither proposed nor queued v before. *)
LEMMA OnceBroadcast ==
  ASSUME NEW O, Base, OnceInv(O), NEW n \in Node, NEW v \in Value, Broadcast(n, v)
  PROVE  OnceInv(O)'
<1>0. ValuesOwned(O) /\ OneAttempt(O)
  BY DEF OnceInv
<1>1. /\ pending \in [Node -> Seq(Value)] /\ sent \in [Node -> SUBSET Value]
  BY DEF Base, TypesOK, TypeOK
<1>2. /\ v \notin sent[n]
      /\ pending' = [pending EXCEPT ![n] = Append(@, v)]
      /\ sent' = [sent EXCEPT ![n] = @ \cup {v}]
      /\ UNCHANGED <<acceptedVal, decided, prop, net>>
  BY DEF Broadcast, acceptorVars
<1>3. ValuesOwned(O)'
  BY <1>0, <1>2, ValuesStay DEF InNet
<1>4. \A x \in Node : sent[x] \subseteq sent'[x] /\ (x # n => pending'[x] = pending[x])
  BY <1>1, <1>2
<1>5. pending'[n] = Append(pending[n], v) /\ v \in sent'[n]
  BY <1>1, <1>2
<1>6. \A s \in Slot : <<s, v, n>> \notin O
  BY <1>0, <1>2 DEF OneAttempt
<1>7. ~Queued(n, v)
  BY <1>0, <1>2 DEF OneAttempt, OncePending
<1>8. ASSUME NEW x \in Node PROVE OncePending(O, x)'
  <2>1. OncePending(O, x)
    BY <1>0 DEF OneAttempt
  <2>2. Kept(O, x)
    BY <1>2 DEF Kept, LostBut, Lost
  <2>3. CASE x # n
    BY <1>4, <2>1, <2>2, <2>3, QueueStays
  <2>4. CASE x = n
    <3>1. LostBut(O, n, v, {})'
      BY <1>6 DEF LostBut
    <3> QED
      BY <1>4, <1>5, <1>7, <2>1, <2>2, <2>4, <3>1, QueuedOnce DEF Base
  <2> QED
    BY <2>3, <2>4
<1>9. OneAttempt(O)'
  <2>1. \A x \in Node, w \in Value, s \in Slot : <<s, w, x>> \in O => w \in sent'[x]
    BY <1>0, <1>4 DEF OneAttempt
  <2> QED
    BY <1>0, <1>2, <1>8, <2>1 DEF OneAttempt, LostBut, Lost
<1> QED
  BY <1>3, <1>9 DEF OnceInv

(* The acceptors. *)

LEMMA OncePrepare ==
  ASSUME NEW O, Base, OnceInv(O), NEW n \in Node, HandlePrepare(n)
  PROVE  OnceInv(O)'
<1>0. TypesOK /\ ValuesOwned(O) /\ OneAttempt(O)
  BY DEF OnceInv, Base
<1>a. PICK m \in InNet : m = Msg /\ m \in Message /\ m.type = "prepare"
  BY <1>0, HeadInNet DEF HandlePrepare, Receives
<1>b. PICK s \in Slot : s = m.slot
  BY <1>a, MessageTypes
<1>c. PICK b \in Nat : b = m.num
  BY <1>a, MessageTypes
<1>d. PICK ok \in BOOLEAN : ok = (b > promised[n][s])
  <2>1. (b > promised[n][s]) \in BOOLEAN
    OBVIOUS
  <2> QED
    BY <2>1, Zenon
<1>e. acceptedNum[n][s] \in Number0 /\ acceptedVal[n][s] \in Value \cup {None}
  BY <1>0 DEF TypesOK, TypeOK
<1>f. PICK r : r = [type |-> "prepare_response", slot |-> s, num |-> b, from |-> n,
                    to |-> m.from, ok |-> ok, accNum |-> acceptedNum[n][s],
                    accVal |-> acceptedVal[n][s]]
  OBVIOUS
<1>1. /\ net # << >> /\ Reply(<<r>>) /\ UNCHANGED <<acceptedVal, decided, pending, prop, sent>>
  BY <1>a, <1>b, <1>c, <1>d, <1>f DEF HandlePrepare, Receives, MayPromise, learnerVars
<1>2. r \in Message
  BY <1>a, <1>e, <1>f, MessageTypes DEF Message
<1>3. r.type = "prepare_response" /\ r.slot = s /\ r.accVal = acceptedVal[n][s]
  BY <1>f
<1>4. \A x \in InNet' : x \in InNet \/ x = r
  <2>1. PICK out \in Seq(Message) : out = <<r>> /\ Len(out) = 1 /\ out[1] = r
    BY <1>2, <<r>> \in Seq(Message) /\ Len(<<r>>) = 1 /\ <<r>>[1] = r
  <2>2. \A i \in 1..Len(out) : out[i] = r
    BY <2>1
  <2> QED
    BY <1>0, <1>1, <2>1, <2>2, ReplyNet
<1>5. MessageOwned(O, r)
  BY <1>0, <1>3 DEF MessageOwned, ValuesOwned
<1>6. ValuesOwned(O)'
  BY <1>0, <1>1, <1>4, <1>5, ValuesStay
<1>7. OneAttempt(O)'
  BY <1>0, <1>1, AttemptsStay DEF SameOriginals
<1> QED
  BY <1>6, <1>7 DEF OnceInv

LEMMA OnceAcceptRequest ==
  ASSUME NEW O, Base, OnceInv(O), NEW n \in Node, HandleAcceptRequest(n)
  PROVE  OnceInv(O)'
<1>0. TypesOK /\ ValuesOwned(O) /\ OneAttempt(O)
  BY DEF OnceInv, Base
<1>a. PICK m \in InNet : m = Msg /\ m \in Message /\ m.type = "accept_request"
  BY <1>0, HeadInNet DEF HandleAcceptRequest, Receives
<1>b. PICK s \in Slot : s = m.slot
  BY <1>a, MessageTypes
<1>c. PICK b \in Nat : b = m.num
  BY <1>a, MessageTypes
<1>v. PICK v \in Value : v = m.val /\ Owned(O, s, v)
  BY <1>0, <1>a, <1>b, MessageTypes DEF ValuesOwned, MessageOwned
<1>d. PICK ok \in BOOLEAN : ok = (b >= promised[n][s])
  <2>1. (b >= promised[n][s]) \in BOOLEAN
    OBVIOUS
  <2> QED
    BY <2>1, Zenon
<1>e. acceptedVal \in [Node -> [Slot -> Value \cup {None}]]
  BY <1>0 DEF TypesOK, TypeOK
<1>f. PICK r : r = [type |-> "accept_response", slot |-> s, num |-> b, from |-> n,
                    to |-> m.from, ok |-> ok, val |-> v]
  OBVIOUS
<1>1. /\ net # << >> /\ Reply(<<r>>) /\ UNCHANGED <<decided, pending, prop, sent>>
      /\ acceptedVal' = [acceptedVal EXCEPT ![n][s] = IF ok THEN v ELSE @]
  BY <1>a, <1>b, <1>c, <1>v, <1>d, <1>f
     DEF HandleAcceptRequest, Receives, MayAccept, learnerVars
<1>2. r \in Message
  BY <1>a, <1>f, MessageTypes DEF Message
<1>3. r.type = "accept_response" /\ r.slot = s /\ r.val = v
  BY <1>f
<1>4. \A x \in InNet' : x \in InNet \/ x = r
  <2>1. PICK out \in Seq(Message) : out = <<r>> /\ Len(out) = 1 /\ out[1] = r
    BY <1>2, <<r>> \in Seq(Message) /\ Len(<<r>>) = 1 /\ <<r>>[1] = r
  <2>2. \A i \in 1..Len(out) : out[i] = r
    BY <2>1
  <2> QED
    BY <1>0, <1>1, <2>1, <2>2, ReplyNet
<1>5. MessageOwned(O, r)
  BY <1>v, <1>3 DEF MessageOwned
<1>8. \A x \in Node, t \in Slot :
        acceptedVal'[x][t] = acceptedVal[x][t] \/ (t = s /\ acceptedVal'[x][t] = v)
  BY <1>1, <1>e
<1>6. ValuesOwned(O)'
  BY <1>0, <1>1, <1>v, <1>4, <1>5, <1>8, ValuesStay
<1>7. OneAttempt(O)'
  BY <1>0, <1>1, AttemptsStay DEF SameOriginals
<1> QED
  BY <1>6, <1>7 DEF OnceInv

(* The proposers: the proposal p for the slot s becomes q. *)

LEMMA OnceMoves ==
  ASSUME NEW O, Base, OnceInv(O), NEW n \in Node, NEW s \in Slot, NEW p \in prop[n][s], NEW q,
         q.original = p.original, Owned(O, s, q.value), Owned(O, s, q.highVal),
         prop' = [prop EXCEPT ![n][s] = {q}],
         UNCHANGED <<acceptedVal, decided, pending, sent>>,
         \A m \in InNet' : m \in InNet \/ MessageOwned(O, m)
  PROVE  OnceInv(O)'
<1>0. ValuesOwned(O) /\ OneAttempt(O)
  BY DEF OnceInv
<1>1. prop \in [Node -> [Slot -> SUBSET Proposal]]
  BY DEF Base, TypesOK
<1>2. \A x \in Node, t \in Slot :
        prop'[x][t] = IF x = n /\ t = s THEN {q} ELSE prop[x][t]
  BY <1>1
<1>3. ValuesOwned(O)'
  BY <1>0, <1>2, ValuesStay
<1>4. SameOriginals
  BY <1>2 DEF SameOriginals
<1>5. OneAttempt(O)'
  BY <1>0, <1>4, AttemptsStay
<1> QED
  BY <1>3, <1>5 DEF OnceInv

LEMMA OncePromise ==
  ASSUME NEW O, Base, OnceInv(O), NEW n \in Node, NEW p, HandlePromise(n, p)
  PROVE  OnceInv(O)'
<1>0. TypesOK /\ ValuesOwned(O)
  BY DEF OnceInv, Base
<1>a. PICK m \in InNet : m = Msg /\ m \in Message /\ m.type = "prepare_response"
  BY <1>0, HeadInNet DEF HandlePromise, Receives
<1>b. PICK s \in Slot : s = m.slot
  BY <1>a, MessageTypes
<1>c. PICK b \in Nat : b = m.num
  BY <1>a, MessageTypes
<1>d. PICK w \in Value \cup {None} : w = m.accVal /\ Owned(O, s, w)
  BY <1>0, <1>a, <1>b, MessageTypes DEF ValuesOwned, MessageOwned
<1>e. p \in prop[n][s] /\ p \in Proposal
  <2>1. p \in prop[n][s]
    BY <1>a, <1>b DEF HandlePromise, Awaits
  <2> QED
    BY <1>0, <2>1 DEF TypesOK, TypeOK
<1>f. Owned(O, s, p.value) /\ Owned(O, s, p.highVal)
  BY <1>0, <1>e DEF ValuesOwned
<1>g. PICK q : q = [p EXCEPT !.promises = @ \cup {Msg.from},
                             !.high = IF Higher(p) THEN Msg.accNum ELSE @,
                             !.highVal = IF Higher(p) THEN Msg.accVal ELSE @]
  OBVIOUS
<1>h. PICK v : v = IF q.highVal # None THEN q.highVal ELSE q.value
  OBVIOUS
<1>i. PICK z : z = [q EXCEPT !.phase = "accept", !.value = v, !.rejections = 0]
  OBVIOUS
<1>j. PICK out : out = ToAll([type |-> "accept_request", slot |-> s, num |-> b,
                              val |-> v, from |-> n, to |-> n])
  OBVIOUS
<1>1. /\ net # << >> /\ UNCHANGED <<acceptedVal, decided, pending, sent>>
      /\ \/ prop' = [prop EXCEPT ![n][s] = {q}] /\ Reply(<< >>)
         \/ prop' = [prop EXCEPT ![n][s] = {z}] /\ Reply(out)
  BY <1>a, <1>b, <1>c, <1>g, <1>h, <1>i, <1>j
     DEF HandlePromise, Receives, SetProposal, acceptorVars
<1>2. /\ q.original = p.original /\ q.value = p.value /\ q.value \in Value
      /\ q.highVal = p.highVal \/ q.highVal = w
      /\ q.highVal \in Value \cup {None}
  BY <1>a, <1>d, <1>e, <1>g DEF Proposal
<1>3. Owned(O, s, q.value) /\ Owned(O, s, q.highVal) /\ Owned(O, s, v) /\ v \in Value
  BY <1>2, <1>d, <1>f, <1>h
<1>4. z.original = q.original /\ z.value = v /\ z.highVal = q.highVal
  BY <1>e, <1>g, <1>i DEF Proposal
<1>5. CASE prop' = [prop EXCEPT ![n][s] = {q}] /\ Reply(<< >>)
  <2>1. InNet' \subseteq InNet
    BY <1>0, <1>1, <1>5, DropNet
  <2> QED
    BY <1>1, <1>2, <1>3, <1>5, <1>e, <2>1, OnceMoves
<1>6. CASE prop' = [prop EXCEPT ![n][s] = {z}] /\ Reply(out)
  <2>1. /\ out \in Seq(Message)
        /\ \A i \in 1..Len(out) : /\ out[i].type = "accept_request" /\ out[i].slot = s
                                  /\ out[i].num = b /\ out[i].val = v
    BY <1>3, <1>j, ToAllAccept
  <2>2. \A i \in 1..Len(out) : MessageOwned(O, out[i])
    BY <1>3, <2>1 DEF MessageOwned
  <2>3. \A x \in InNet' : x \in InNet \/ MessageOwned(O, x)
    BY <1>0, <1>1, <1>6, <2>1, <2>2, ReplyNet
  <2>4. z.original = p.original /\ Owned(O, s, z.value) /\ Owned(O, s, z.highVal)
    BY <1>2, <1>3, <1>4
  <2> QED
    BY <1>1, <1>6, <1>e, <2>3, <2>4, OnceMoves
<1> QED
  BY <1>1, <1>5, <1>6

LEMMA OnceRejection ==
  ASSUME NEW O, Base, OnceInv(O), NEW n \in Node, NEW p, HandleRejection(n, p)
  PROVE  OnceInv(O)'
<1>0. TypesOK /\ ValuesOwned(O)
  BY DEF OnceInv, Base
<1>a. net # << >> /\ Msg \in Message
  BY <1>0, HeadInNet DEF HandleRejection, Receives
<1>b. PICK s \in Slot : s = Msg.slot
  BY <1>a, MessageTypes
<1>c. p \in prop[n][s]
  BY <1>b DEF HandleRejection, Awaits
<1>d. p \in Proposal /\ p.round \in Nat /\ p.round + 1 \in Nat
  <2>1. p \in Proposal
    BY <1>0, <1>c DEF TypesOK, TypeOK
  <2> QED
    BY <2>1 DEF Proposal
<1>f. Owned(O, s, p.value) /\ Owned(O, s, p.highVal)
  BY <1>0, <1>c DEF ValuesOwned
<1>g. PICK q : q = [p EXCEPT !.rejections = @ + 1]
  OBVIOUS
<1>h. PICK z : z = [NewProposal(p.value) EXCEPT !.round = p.round + 1, !.original = p.original]
  OBVIOUS
<1>i. PICK out : out = ToAll(Prepare(n, s, p.round + 1))
  OBVIOUS
<1>1. /\ UNCHANGED <<acceptedVal, decided, pending, sent>>
      /\ \/ prop' = [prop EXCEPT ![n][s] = {q}] /\ Reply(<< >>)
         \/ prop' = [prop EXCEPT ![n][s] = {z}] /\ Reply(out)
  BY <1>b, <1>g, <1>h, <1>i DEF HandleRejection, SetProposal, acceptorVars
<1>2. q.original = p.original /\ q.value = p.value /\ q.highVal = p.highVal
  BY <1>d, <1>g DEF Proposal
<1>3. z.original = p.original /\ z.value = p.value /\ z.highVal = None
  BY <1>h DEF NewProposal
<1>4. CASE prop' = [prop EXCEPT ![n][s] = {q}] /\ Reply(<< >>)
  <2>1. InNet' \subseteq InNet
    BY <1>0, <1>a, <1>4, DropNet
  <2> QED
    BY <1>1, <1>2, <1>4, <1>c, <1>f, <2>1, OnceMoves
<1>5. CASE prop' = [prop EXCEPT ![n][s] = {z}] /\ Reply(out)
  <2>1. /\ out \in Seq(Message)
        /\ \A i \in 1..Len(out) : out[i].type = "prepare"
    BY <1>d, <1>i, ToAllPrepare
  <2>2. \A i \in 1..Len(out) : MessageOwned(O, out[i])
    BY <2>1 DEF MessageOwned
  <2>3. \A x \in InNet' : x \in InNet \/ MessageOwned(O, x)
    BY <1>0, <1>a, <1>5, <2>1, <2>2, ReplyNet
  <2>4. Owned(O, s, z.highVal)
    BY <1>3 DEF Owned
  <2> QED
    BY <1>1, <1>3, <1>5, <1>c, <1>f, <2>3, <2>4, OnceMoves
<1> QED
  BY <1>1, <1>4, <1>5

(* The learners.  A value goes back to the queue when it has lost in the     *)
(* last slot it was proposed for.                                            *)

LEMMA OnceLearn ==
  ASSUME NEW O, Base, OnceInv(O), NEW n \in Node, NEW s \in Slot, NEW v \in Value,
         Owned(O, s, v), Learn(n, s, v), UNCHANGED <<acceptedVal, sent>>,
         \A m \in InNet' : m \in InNet \/ MessageOwned(O, m)
  PROVE  OnceInv(O)'
<1>0. TypesOK /\ NoDecidedProposal /\ ValuesOwned(O) /\ OneAttempt(O)
  BY DEF OnceInv, Base
<1>a. /\ decided \in [Node -> [Slot -> Value \cup {None}]] /\ pending \in [Node -> Seq(Value)]
      /\ prop \in [Node -> [Slot -> SUBSET Proposal]]
      /\ \A x \in Node, t \in Slot : \A p, q \in prop[x][t] : p = q
  BY <1>0 DEF TypesOK, TypeOK
<1>b. PICK dec : dec = [decided[n] EXCEPT ![s] = IF @ = None THEN v ELSE @]
  OBVIOUS
<1>1. /\ decided' = [decided EXCEPT ![n] = dec]
      /\ prop' = [prop EXCEPT ![n][s] = {}]
      /\ pending' = [pending EXCEPT ![n] =
            IF prop[n][s] = {} THEN @
            ELSE Requeued(@, dec[s], (CHOOSE p \in prop[n][s] : TRUE).original)]
  BY <1>b DEF Learn, Withdrawn
<1>2. /\ dec[s] # None /\ (dec[s] = v \/ dec[s] = decided[n][s])
      /\ \A t \in Slot : t # s => dec[t] = decided[n][t]
      /\ decided[n][s] # None => dec[s] = decided[n][s]
  BY <1>a, <1>b, NoneAssumption
<1>3. \A x \in Node, t \in Slot :
        /\ decided'[x][t] = decided[x][t] \/ (x = n /\ t = s /\ decided'[x][t] = v)
        /\ decided[x][t] # None => decided'[x][t] = decided[x][t]
  BY <1>1, <1>2, <1>a
<1>4. decided'[n][s] = dec[s]
  BY <1>1, <1>a
<1>5. \A x \in Node, t \in Slot : prop'[x][t] \subseteq prop[x][t]
  BY <1>1, <1>a
<1>6. ValuesOwned(O)'
  BY <1>0, <1>3, <1>5, ValuesStay
<1>7. \A w : \A x \in Node, t \in Slot : Lost(x, t, w) => Lost(x, t, w)'
  BY <1>3 DEF Lost
<1>8. \A w, T : \A x \in Node : LostBut(O, x, w, T) => LostBut(O, x, w, T)'
  BY <1>7 DEF LostBut
<1>9. ASSUME NEW x \in Node PROVE OncePending(O, x)'
  <2>1. OncePending(O, x) /\ Kept(O, x)
    BY <1>0, <1>8 DEF OneAttempt, Kept
  <2>2. CASE pending'[x] = pending[x]
    BY <2>1, <2>2, QueueStays
  <2>3. CASE pending'[x] # pending[x]
    <3>1. x = n /\ prop[n][s] # {}
      BY <1>1, <1>a, <2>3
    <3> DEFINE p == CHOOSE y \in prop[n][s] : TRUE
    <3>2. p \in prop[n][s]
      BY <3>1
    <3>3. pending'[n] = Requeued(pending[n], dec[s], p.original)
      BY <1>1, <1>a, <3>1
    <3> HIDE DEF p
    <3>4. PICK o : o = p.original
      OBVIOUS
    <3>5. o # dec[s] /\ pending'[n] = Append(pending[n], o)
      BY <2>3, <3>1, <3>3, <3>4 DEF Requeued
    <3>6. o \in Value
      <4>1. p \in Proposal
        BY <1>a, <3>2
      <4> QED
        BY <3>4, <4>1 DEF Proposal
    <3>7. <<s, o, n>> \in O /\ LostBut(O, n, o, {s})
      BY <1>0, <3>2, <3>4 DEF OneAttempt
    <3>8. ~Queued(n, o)
      <4>1. ~Lost(n, s, o)
        BY <1>0, <3>1 DEF NoDecidedProposal, Lost
      <4>2. ~LostBut(O, n, o, {})
        BY <3>7, <4>1 DEF LostBut
      <4> QED
        BY <2>1, <3>1, <3>6, <4>2 DEF OncePending
    <3>9. Lost(n, s, o)'
      BY <1>2, <1>4, <3>5 DEF Lost
    <3>10. LostBut(O, n, o, {})'
      BY <1>7, <3>7, <3>9 DEF LostBut
    <3>11. o \in sent[n] /\ o \in sent'[n] /\ sent[n] \subseteq sent'[n]
      BY <1>0, <3>6, <3>7 DEF OneAttempt
    <3> QED
      BY <1>0, <2>1, <3>1, <3>5, <3>6, <3>8, <3>10, <3>11, QueuedOnce
  <2> QED
    BY <2>2, <2>3
<1>10. \A x \in Node, w \in Value, t, u \in Slot :
         <<t, w, x>> \in O /\ <<u, w, x>> \in O => t = u \/ Lost(x, t, w)' \/ Lost(x, u, w)'
  BY <1>0, <1>7 DEF OneAttempt
<1>11. \A x \in Node, t \in Slot : \A p \in prop'[x][t] :
         <<t, p.original, x>> \in O /\ LostBut(O, x, p.original, {t})'
  BY <1>0, <1>5, <1>8 DEF OneAttempt
<1>12. OneAttempt(O)'
  BY <1>0, <1>9, <1>10, <1>11 DEF OneAttempt
<1> QED
  BY <1>6, <1>12 DEF OnceInv

LEMMA OnceAccepted ==
  ASSUME NEW O, Base, OnceInv(O), NEW n \in Node, NEW p, HandleAccepted(n, p)
  PROVE  OnceInv(O)'
<1>0. TypesOK /\ ValuesOwned(O)
  BY DEF OnceInv, Base
<1>a. PICK m \in InNet : m = Msg /\ m \in Message /\ m.type = "accept_response"
  BY <1>0, HeadInNet DEF HandleAccepted, Receives
<1>b. PICK s \in Slot : s = m.slot
  BY <1>a, MessageTypes
<1>d. PICK v \in Value : v = m.val /\ Owned(O, s, v)
  BY <1>0, <1>a, <1>b, MessageTypes DEF ValuesOwned, MessageOwned
<1>e. p \in prop[n][s] /\ p \in Proposal
  <2>1. p \in prop[n][s]
    BY <1>a, <1>b DEF HandleAccepted, Awaits
  <2> QED
    BY <1>0, <2>1 DEF TypesOK, TypeOK
<1>f. Owned(O, s, p.value) /\ Owned(O, s, p.highVal)
  BY <1>0, <1>e DEF ValuesOwned
<1>g. PICK q : q = [p EXCEPT !.accepts = @ \cup {Msg.from}]
  OBVIOUS
<1>i. PICK out : out = ToAll([type |-> "decided", slot |-> s, val |-> v, from |-> n, to |-> n])
  OBVIOUS
<1>1. /\ net # << >> /\ UNCHANGED <<acceptedVal, sent>>
      /\ \/ /\ prop' = [prop EXCEPT ![n][s] = {q}] /\ Reply(<< >>)
            /\ UNCHANGED <<decided, pending>>
         \/ Learn(n, s, v) /\ Reply(out)
  BY <1>a, <1>b, <1>d, <1>g, <1>i
     DEF HandleAccepted, Receives, SetProposal, acceptorVars
<1>2. q.original = p.original /\ q.value = p.value /\ q.highVal = p.highVal
  BY <1>e, <1>g DEF Proposal
<1>3. CASE prop' = [prop EXCEPT ![n][s] = {q}] /\ Reply(<< >>) /\ UNCHANGED <<decided, pending>>
  <2>1. InNet' \subseteq InNet
    BY <1>0, <1>1, <1>3, DropNet
  <2> QED
    BY <1>1, <1>2, <1>3, <1>e, <1>f, <2>1, OnceMoves
<1>4. CASE Learn(n, s, v) /\ Reply(out)
  <2>1. /\ out \in Seq(Message)
        /\ \A i \in 1..Len(out) : out[i].type = "decided" /\ out[i].slot = s /\ out[i].val = v
    BY <1>i, ToAllDecided
  <2>2. \A i \in 1..Len(out) : MessageOwned(O, out[i])
    BY <1>d, <2>1 DEF MessageOwned
  <2>3. \A x \in InNet' : x \in InNet \/ MessageOwned(O, x)
    BY <1>0, <1>1, <1>4, <2>1, <2>2, ReplyNet
  <2> QED
    BY <1>1, <1>4, <1>d, <2>3, OnceLearn
<1> QED
  BY <1>1, <1>3, <1>4

LEMMA OnceDecided ==
  ASSUME NEW O, Base, OnceInv(O), NEW n \in Node, HandleDecided(n)
  PROVE  OnceInv(O)'
<1>0. TypesOK /\ ValuesOwned(O)
  BY DEF OnceInv, Base
<1>a. PICK m \in InNet : m = Msg /\ m \in Message /\ m.type = "decided"
  BY <1>0, HeadInNet DEF HandleDecided, Receives
<1>b. PICK s \in Slot : s = m.slot
  BY <1>a, MessageTypes
<1>d. PICK v \in Value : v = m.val /\ Owned(O, s, v)
  BY <1>0, <1>a, <1>b, MessageTypes DEF ValuesOwned, MessageOwned
<1>1. net # << >> /\ Reply(<< >>) /\ Learn(n, s, v) /\ UNCHANGED <<acceptedVal, sent>>
  BY <1>a, <1>b, <1>d DEF HandleDecided, Receives, acceptorVars
<1>2. InNet' \subseteq InNet
  BY <1>0, <1>1, DropNet
<1> QED
  BY <1>1, <1>2, <1>d, OnceLearn

(* recover_node: n knows what another node delivered, and forgets its own    *)
(* proposals and queue.                                                      *)

LEMMA CatchUpOwned ==
  ASSUME NEW O, Base, ValuesOwned(O), NEW s \in Slot, s <= Len(CatchUp)
  PROVE  Owned(O, s, CatchUp[s])
<1>a. /\ alive \subseteq Node /\ delivered \in [Node -> Seq(Value)]
  BY DEF Base, TypesOK, TypeOK
<1>1. CASE alive = {}
  <2>1. Len(CatchUp) = 0
    BY <1>1 DEF CatchUp
  <2> QED
    BY <2>1 DEF Slot
<1>2. CASE alive # {}
  <2> DEFINE m == CHOOSE x \in alive : \A y \in alive : x =< y
  <2>1. alive \in SUBSET Int /\ IsFiniteSet(alive)
    BY <1>a, NodesFinite DEF Node
  <2>2. \E x \in alive : \A y \in alive : x =< y
    BY <1>2, <2>1, LeastElement
  <2>3. m \in alive
    BY <2>2
  <2>4. CatchUp = delivered[m]
    BY <1>2 DEF CatchUp
  <2> HIDE DEF m
  <2>5. m \in Node /\ delivered[m] \in Seq(Value)
    BY <1>a, <2>3
  <2>6. s \in 1..Len(delivered[m])
    BY <2>4, <2>5 DEF Slot
  <2>7. delivered[m][s] = decided[m][s]
    BY <2>5, <2>6 DEF Base, LearnedOK
  <2> QED
    BY <2>4, <2>5, <2>7 DEF ValuesOwned
<1> QED
  BY <1>1, <1>2

LEMMA OnceRecover ==
  ASSUME NEW O, Base, OnceInv(O), NEW n \in Node, Recover(n)
  PROVE  OnceInv(O)'
<1>0. TypesOK /\ NoDecidedProposal /\ ValuesOwned(O) /\ OneAttempt(O)
  BY DEF OnceInv, Base
<1>a. /\ decided \in [Node -> [Slot -> Value \cup {None}]] /\ pending \in [Node -> Seq(Value)]
      /\ prop \in [Node -> [Slot -> SUBSET Proposal]]
  BY <1>0 DEF TypesOK, TypeOK
<1>b. PICK dec : dec = [s \in Slot |-> IF decided[n][s] = None /\ s =< Len(CatchUp)
                                       THEN CatchUp[s] ELSE decided[n][s]]
  OBVIOUS
<1>1. /\ pending' = [pending EXCEPT ![n] = << >>]
      /\ prop' = [prop EXCEPT ![n] = [s \in Slot |-> {}]]
      /\ decided' = [decided EXCEPT ![n] = dec]
      /\ UNCHANGED <<acceptedVal, net, sent>>
  BY <1>b DEF Recover, acceptorVars
<1>2. \A t \in Slot : dec[t] = IF decided[n][t] = None /\ t =< Len(CatchUp)
                               THEN CatchUp[t] ELSE decided[n][t]
  BY <1>b
<1>3. \A t \in Slot : dec[t] = decided[n][t] \/ Owned(O, t, dec[t])
  BY <1>0, <1>2, CatchUpOwned
<1>4. \A x \in Node, t \in Slot :
        /\ decided'[x][t] = decided[x][t] \/ Owned(O, t, decided'[x][t])
        /\ decided[x][t] # None => decided'[x][t] = decided[x][t]
  BY <1>1, <1>2, <1>3, <1>a
<1>5. \A x \in Node, t \in Slot : prop'[x][t] \subseteq prop[x][t]
  BY <1>1, <1>a
<1>6. ValuesOwned(O)'
  BY <1>0, <1>1, <1>4, <1>5, ValuesStay DEF InNet
<1>7. \A w : \A x \in Node, t \in Slot : Lost(x, t, w) => Lost(x, t, w)'
  BY <1>4 DEF Lost
<1>8. \A w, T : \A x \in Node : LostBut(O, x, w, T) => LostBut(O, x, w, T)'
  BY <1>7 DEF LostBut
<1>9. ASSUME NEW x \in Node PROVE OncePending(O, x)'
  <2>1. CASE x = n
    <3>1. pending'[x] = << >> /\ Len(pending'[x]) = 0
      BY <1>1, <1>a, <2>1
    <3> QED
      BY <3>1 DEF OncePending, Queued
  <2>2. CASE x # n
    <3>1. pending'[x] = pending[x] /\ sent[x] \subseteq sent'[x]
      BY <1>1, <1>a, <2>2
    <3>2. OncePending(O, x) /\ Kept(O, x)
      BY <1>0, <1>8 DEF OneAttempt, Kept
    <3> QED
      BY <3>1, <3>2, QueueStays
  <2> QED
    BY <2>1, <2>2
<1>10. \A x \in Node, w \in Value, t, u \in Slot :
         <<t, w, x>> \in O /\ <<u, w, x>> \in O => t = u \/ Lost(x, t, w)' \/ Lost(x, u, w)'
  BY <1>0, <1>7 DEF OneAttempt
<1>11. \A x \in Node, t \in Slot : \A p \in prop'[x][t] :
         <<t, p.original, x>> \in O /\ LostBut(O, x, p.original, {t})'
  BY <1>0, <1>5, <1>8 DEF OneAttempt
<1>12. OneAttempt(O)'
  BY <1>0, <1>1, <1>9, <1>10, <1>11 DEF OneAttempt
<1> QED
  BY <1>6, <1>12 DEF OnceInv

(* tick: every pending value of n is proposed for a slot of its own. *)

LEMMA OnceTick ==
  ASSUME NEW O, Base, OnceInv(O), NEW n \in Node, Tick(n)
  PROVE  \E O2 : OnceInv(O2)'
<1>0. TypesOK /\ NoDecidedProposal /\ ValuesOwned(O) /\ OneAttempt(O)
  BY DEF OnceInv, Base
<1>a. /\ pending \in [Node -> Seq(Value)] /\ prop \in [Node -> [Slot -> SUBSET Proposal]]
  BY <1>0 DEF TypesOK, TypeOK
<1>1. CASE n \notin alive
  <2>1. UNCHANGED <<acceptedVal, decided, pending, prop, net, sent>>
    BY <1>1 DEF Tick, acceptorVars
  <2> QED
    BY <2>1, OnceQuiet DEF InNet
<1>2. CASE n \in alive
  <2>0. /\ Len(pending[n]) =< Cardinality(FreeSlots(n))
        /\ prop' = [prop EXCEPT ![n] = [s \in Slot |-> @[s] \cup
             {NewProposal(pending[n][i]) : i \in {j \in 1..Len(pending[n]) : SlotFor(n, j) = s}}]]
        /\ pending' = [pending EXCEPT ![n] = << >>]
        /\ net' = net \o TickMessages(n)
        /\ UNCHANGED <<acceptedVal, decided, sent>>
    BY <1>2 DEF Tick, acceptorVars
  <2> DEFINE Starts(s, v) == \E i \in 1..Len(pending[n]) : SlotFor(n, i) = s /\ pending[n][i] = v
  <2>1. PICK O2 : O2 = O \cup {<<SlotFor(n, i), pending[n][i], n>> : i \in 1..Len(pending[n])}
    OBVIOUS
  <2>2. /\ O \subseteq O2
        /\ \A s, v, x : <<s, v, x>> \in O2 => <<s, v, x>> \in O \/ (x = n /\ Starts(s, v))
        /\ \A s, v : Starts(s, v) => <<s, v, n>> \in O2
    BY <2>1
  <2>3. \A x \in Node, s \in Slot : x # n => prop'[x][s] = prop[x][s]
    BY <2>0, <1>a
  <2>4. ASSUME NEW s \in Slot, NEW p \in prop'[n][s], p \notin prop[n][s]
        PROVE  \E v \in Value : p = NewProposal(v) /\ Starts(s, v)
    <3>1. prop'[n][s] = prop[n][s] \cup
            {NewProposal(pending[n][i]) : i \in {j \in 1..Len(pending[n]) : SlotFor(n, j) = s}}
      BY <2>0, <1>a
    <3>2. PICK i \in 1..Len(pending[n]) : SlotFor(n, i) = s /\ p = NewProposal(pending[n][i])
      BY <2>4, <3>1
    <3>3. pending[n][i] \in Value
      BY <1>a
    <3> QED
      BY <3>2, <3>3
  <2>5. \A v \in Value : /\ NewProposal(v).value = v /\ NewProposal(v).original = v
                         /\ NewProposal(v).highVal = None
    BY DEF NewProposal
  <2>6. \A s, v : Starts(s, v) => Queued(n, v)
    BY DEF Queued
  <2>7. ASSUME NEW s, NEW t, NEW v, Starts(s, v), Starts(t, v) PROVE s = t
    <3>1. PICK i \in 1..Len(pending[n]) : SlotFor(n, i) = s /\ pending[n][i] = v
      BY <2>7
    <3>2. PICK j \in 1..Len(pending[n]) : SlotFor(n, j) = t /\ pending[n][j] = v
      BY <2>7
    <3>3. i = j
      BY <1>0, <3>1, <3>2 DEF OneAttempt, OncePending
    <3> QED
      BY <3>1, <3>2, <3>3
  <2> HIDE DEF Starts
  <2>8. ValuesOwned(O2)'
    <3>1. \A m \in InNet' : m \in InNet \/ MessageOwned(O2, m)
      <4>1. \A m \in InNet' : m \in InNet \/ m.type = "prepare"
        BY <1>0, <2>0, TickNet
      <4> QED
        BY <4>1 DEF MessageOwned
    <3>2. ASSUME NEW x \in Node, NEW s \in Slot, NEW p \in prop'[x][s], p \notin prop[x][s]
          PROVE  Owned(O2, s, p.value) /\ Owned(O2, s, p.highVal)
      <4>1. x = n
        BY <2>3, <3>2
      <4>2. PICK v \in Value : p = NewProposal(v) /\ Starts(s, v)
        BY <2>4, <3>2, <4>1
      <4> QED
        BY <2>2, <2>5, <4>2 DEF Owned
    <3> QED
      BY <1>0, <2>0, <2>2, <3>1, <3>2, ValuesStay
  <2>9. \A v \in Value : Queued(n, v) => v \in sent[n] /\ LostBut(O, n, v, {})
    BY <1>0 DEF OneAttempt, OncePending
  <2>10. ASSUME NEW x \in Node PROVE OncePending(O2, x)'
    <3>1. CASE x = n
      <4>1. Len(pending'[x]) = 0
        BY <2>0, <1>a, <3>1
      <4> QED
        BY <4>1 DEF OncePending, Queued
    <3>2. CASE x # n
      <4>1. pending'[x] = pending[x] /\ sent[x] \subseteq sent'[x] /\ OncePending(O, x)
        BY <1>0, <2>0, <1>a, <3>2 DEF OneAttempt
      <4>2. \A w : LostBut(O, x, w, {}) => LostBut(O2, x, w, {})'
        BY <2>0, <2>2, <3>2 DEF LostBut, Lost
      <4> QED
        BY <4>1, <4>2 DEF OncePending, Queued
    <3> QED
      BY <3>1, <3>2
  <2>11. ASSUME NEW x \in Node, NEW w \in Value, NEW s \in Slot, <<s, w, x>> \in O2
         PROVE  w \in sent'[x]
    BY <1>0, <2>0, <2>2, <2>6, <2>9, <2>11 DEF OneAttempt
  <2>12. ASSUME NEW x \in Node, NEW w \in Value, NEW t \in Slot, NEW u \in Slot,
                <<t, w, x>> \in O2, <<u, w, x>> \in O2
         PROVE  t = u \/ Lost(x, t, w) \/ Lost(x, u, w)
    <3>1. CASE <<t, w, x>> \in O /\ <<u, w, x>> \in O
      BY <1>0, <3>1 DEF OneAttempt
    <3>2. CASE x = n /\ Starts(t, w) /\ <<u, w, x>> \in O
      BY <2>6, <2>9, <3>2 DEF LostBut
    <3>3. CASE x = n /\ Starts(u, w) /\ <<t, w, x>> \in O
      BY <2>6, <2>9, <3>3 DEF LostBut
    <3>4. CASE x = n /\ Starts(t, w) /\ Starts(u, w)
      BY <2>7, <3>4
    <3> QED
      BY <2>12, <2>2, <3>1, <3>2, <3>3, <3>4
  <2>13. ASSUME NEW x \in Node, NEW s \in Slot, NEW p \in prop'[x][s]
         PROVE  <<s, p.original, x>> \in O2 /\ LostBut(O2, x, p.original, {s})
    <3>1. CASE p \in prop[x][s]
      <4>1. PICK o : o = p.original
        OBVIOUS
      <4>2. o \in Value
        <5>1. p \in Proposal
          BY <1>a, <3>1
        <5> QED
          BY <4>1, <5>1 DEF Proposal
      <4>3. <<s, o, x>> \in O /\ LostBut(O, x, o, {s})
        BY <1>0, <3>1, <4>1 DEF OneAttempt
      <4>4. ASSUME x = n PROVE ~Queued(n, o)
        <5>1. ~Lost(n, s, o)
          BY <1>0, <3>1, <4>4 DEF NoDecidedProposal, Lost
        <5>2. ~LostBut(O, n, o, {})
          BY <4>3, <4>4, <5>1 DEF LostBut
        <5> QED
          BY <2>9, <4>2, <5>2
      <4>5. \A t : <<t, o, x>> \in O2 => <<t, o, x>> \in O
        BY <2>2, <2>6, <4>4
      <4>6. LostBut(O2, x, o, {s})
        BY <4>3, <4>5 DEF LostBut
      <4> QED
        BY <2>2, <4>1, <4>3, <4>6
    <3>2. CASE p \notin prop[x][s]
      <4>1. x = n
        BY <2>3, <3>2
      <4>2. PICK o \in Value : p = NewProposal(o) /\ Starts(s, o)
        BY <2>4, <3>2, <4>1
      <4>3. LostBut(O, n, o, {})
        BY <2>6, <2>9, <4>2
      <4>4. LostBut(O2, n, o, {s})
        BY <2>2, <2>7, <4>2, <4>3 DEF LostBut
      <4> QED
        BY <2>2, <2>5, <4>1, <4>2, <4>4
    <3> QED
      BY <3>1, <3>2
  <2>14. OneAttempt(O2)'
    BY <2>0, <2>10, <2>11, <2>12, <2>13 DEF OneAttempt, LostBut, Lost
  <2> QED
    BY <2>8, <2>14 DEF OnceInv
<1> QED
  BY <1>1, <1>2

LEMMA OnceInit == Init => OnceInv({})
<1> SUFFICES ASSUME Init PROVE OnceInv({})
  OBVIOUS
<1>1. ValuesOwned({})
  BY DEF Init, ValuesOwned, Owned, InNet
<1>2. \A n \in Node : OncePending({}, n)
  BY DEF Init, OncePending, Queued
<1>3. OneAttempt({})
  BY <1>2 DEF Init, OneAttempt
<1> QED
  BY <1>1, <1>3 DEF OnceInv

Once == \E O : OnceInv(O)

LEMMA OnceNext == Base /\ Once /\ [Next]_vars => Once'
<1> SUFFICES ASSUME NEW O, Base, OnceInv(O), [Next]_vars
             PROVE  \E O2 : OnceInv(O2)'
  BY DEF Once
<1>1. ASSUME NEW n \in Node, Tick(n) PROVE \E O2 : OnceInv(O2)'
  BY <1>1, OnceTick
<1>2. ASSUME NEW n \in Node,
             HandlePrepare(n) \/ HandleAcceptRequest(n) \/ HandleDecided(n) \/ Recover(n)
      PROVE  OnceInv(O)'
  BY <1>2, OncePrepare, OnceAcceptRequest, OnceDecided, OnceRecover
<1>3. ASSUME NEW n \in Node, NEW p,
             HandlePromise(n, p) \/ HandleRejection(n, p) \/ HandleAccepted(n, p)
      PROVE  OnceInv(O)'
  BY <1>3, OncePromise, OnceRejection, OnceAccepted
<1>4. ASSUME \/ DropMessage \/ EndRound \/ UNCHANGED vars
             \/ \E n \in Node : IgnoreResponse(n) \/ Crash(n)
      PROVE  OnceInv(O)'
  BY <1>4, OnceQuietSteps
<1>5. ASSUME NEW n \in Node, NEW v \in Value, Broadcast(n, v) PROVE OnceInv(O)'
  BY <1>5, OnceBroadcast
<1>6. CASE Receive
  BY <1>2, <1>3, <1>4, <1>6 DEF Receive
<1> QED
  BY <1>1, <1>2, <1>4, <1>5, <1>6 DEF Next

LEMMA OnceInvariance == Spec => []Once
<1>1. Init => Once
  BY OnceInit DEF Once
<1> QED
  BY <1>1, InvBase, Invariance, OnceNext, PTL DEF Spec

(* No node delivers a value more often than it was broadcast, whatever other *)
(* proposers complete it and however often a proposer retries or crashes:    *)
(* TOBNode queues a value again only when its slot was decided for another.  *)
THEOREM NothingTwice == Spec => []NoDuplication
<1>1. Base /\ Once /\ Agreement => NoDuplication
  <2> SUFFICES ASSUME NEW O, Base, OnceInv(O), Agreement, NEW n \in Node, NEW v \in Value
               PROVE  Cardinality({i \in 1..Len(delivered[n]) : delivered[n][i] = v})
                        =< Cardinality({m \in Node : v \in sent[m]})
    BY DEF Once, NoDuplication
  <2> DEFINE D == {i \in 1..Len(delivered[n]) : delivered[n][i] = v}
             B == {m \in Node : v \in sent[m]}
             owner == [i \in D |-> CHOOSE m \in Node : <<i, v, m>> \in O]
  <2>1. ASSUME NEW i \in D
        PROVE  i \in Slot /\ decided[n][i] = v /\ \E m \in Node : <<i, v, m>> \in O
    <3>1. delivered[n] \in Seq(Value) /\ Len(delivered[n]) <= MaxSlot
      BY DEF Base, TypesOK, TypeOK, LearnedOK
    <3>2. i \in Slot
      BY <3>1, SizeAssumption DEF Slot
    <3>3. decided[n][i] = v
      BY DEF Base, LearnedOK
    <3>4. Owned(O, i, v)
      BY <3>2, <3>3 DEF OnceInv, ValuesOwned
    <3> QED
      BY <3>2, <3>3, <3>4, NoneAssumption DEF Owned
  <2>2. \A i \in D : owner[i] \in Node /\ <<i, v, owner[i]>> \in O
    BY <2>1
  <2>3. \A i \in D : owner[i] \in B
    BY <2>1, <2>2 DEF OnceInv, OneAttempt
  <2> HIDE DEF D, B
  <2>4. owner \in [D -> B]
    BY <2>3
  <2> HIDE DEF owner
  <2>5. ASSUME NEW i \in D, NEW j \in D, owner[i] = owner[j] PROVE i = j
    <3>1. PICK m \in Node : m = owner[i] /\ <<i, v, m>> \in O /\ <<j, v, m>> \in O
      BY <2>2, <2>5
    <3>2. i = j \/ Lost(m, i, v) \/ Lost(m, j, v)
      BY <2>1, <3>1 DEF OnceInv, OneAttempt
    <3>3. ~Lost(m, i, v) /\ ~Lost(m, j, v)
      BY <2>1, NoneAssumption DEF Lost, Agreement
    <3> QED
      BY <3>2, <3>3
  <2>6. owner \in Injection(D, B)
    BY <2>4, <2>5 DEF Injection, IsInjective
  <2>7. B \in SUBSET Node /\ IsFiniteSet(B)
    BY NodesFinite DEF B
  <2>8. Cardinality(D) =< Cardinality(B)
    BY <2>6, <2>7, FS_Injection
  <2> QED
    BY <2>8 DEF D, B
<1> QED
  BY <1>1, InvBase, Invariance, OnceInvariance, NodesAgree, PTL
=============================================================================
