----------------------------- MODULE MCConsensus -----------------------------
(***************************************************************************)
(* The two replicated logs that tolerate failed nodes: Raft (crashes and   *)
(* partitions) and PBFT (a Byzantine node).  A behaviour runs one of them. *)
(***************************************************************************)
EXTENDS Raft, TLC

CONSTANTS F, Request, Modes, MaxRequests, MaxTriggers, MaxCuts

VARIABLES
    protocol,                                                           \* the protocol in use
    mode, nd, batch, pending, requests, lost, running, cuts, triggers   \* Pbft

PB == INSTANCE Pbft

bftVars == <<mode, nd, batch, pending, requests, lost, running, cuts, triggers>>
consensusVars == <<protocol, vars, bftVars>>

ConsensusInit ==
    /\ protocol \in {"raft", "pbft"}
    /\ Init /\ PB!PbftInit
    /\ protocol = "raft" => PB!HonestNodes = PB!PbftNode

ConsensusNext ==
    /\ UNCHANGED protocol
    /\ \/ protocol = "raft" /\ Next /\ UNCHANGED bftVars
       \/ protocol = "pbft" /\ PB!PbftNext /\ UNCHANGED vars

ConsensusSpec == ConsensusInit /\ [][ConsensusNext]_consensusVars

\* Requests are only compared.
ConsensusSymmetry == Permutations(Request)

(***************************************************************************)
(* Properties                                                              *)
(***************************************************************************)

\* Honest PBFT nodes accept one request for a sequence number of a view, also
\* when a view change meets requests that are prepared and not committed.
OneRequestPerSlot == PB!OneRequestPerSlot

\* Every run of the PBFT cluster that is not cut short ends with the same
\* executed log at all honest nodes, whatever the faulty node does, and with
\* every request that an honest primary took and gave a number not used before.
RunsAgree == PB!RunsAgree
=============================================================================
