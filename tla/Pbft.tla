-------------------------------- MODULE Pbft --------------------------------
(***************************************************************************)
(* byzantine-fault-tolerance/pbft.py: PBFTNode and the PBFTCluster that    *)
(* carries the messages.                                                   *)
(*                                                                         *)
(* run_protocol works in rounds: every message of the batch goes to its    *)
(* recipients in node order, the responses make up the next round.  The    *)
(* cluster's own calls run until nothing is pending: their 100 rounds are  *)
(* never used up here.  A caller may instead hand a request to the primary *)
(* and call run_protocol(max_rounds) itself, as test_pbft.py:79-85 does;   *)
(* cut short after a round or more, the protocol leaves messages pending   *)
(* that the next request or view change finds.                             *)
(*                                                                         *)
(* A digest is the request it was computed from, or Junk.  F = 1: all junk *)
(* digests come from one node, and a receiver never compares two of them.  *)
(* REPLY messages have no effect on a node and are left out; the timer is  *)
(* only advanced by trigger_view_change, past its limit.                   *)
(***************************************************************************)
EXTENDS Integers, Sequences, FiniteSets, SequencesExt

CONSTANTS
    F,              \* faulty nodes tolerated
    Request,        \* requests clients submit
    Modes,          \* byzantine modes a node may have
    MaxRequests,    \* bound: requests
    MaxTriggers,    \* bound: calls of trigger_view_change
    MaxCuts         \* bound: runs of the protocol that are cut short

PbftNode == 0 .. 3 * F
Honest == "honest"
Junk == "junk"
Offset == 1000      \* WRONG_SEQUENCE

VARIABLES
    mode,           \* byzantine_mode of each node
    nd,             \* the state of each node
    batch, pending, \* run_protocol: current_batch and pending_messages
    requests,       \* history: requests that were submitted
    lost,           \* history: requests that a faulty primary took, or that an honest one
                    \*   gave a number under which it had executed a request before
    running,        \* run_protocol: "to the end", or with max_rounds: "bounded", and
                    \*   "partly" once it has run a round
    cuts, triggers  \* how often the protocol was cut short, a view change triggered

pbftVars == <<mode, nd, batch, pending, requests, lost, running, cuts, triggers>>

HonestNodes == {n \in PbftNode : mode[n] = Honest}
Primary(view) == view % (3 * F + 1)

Msg(type, view, seq, digest, sender, data) ==
    [type |-> type, view |-> view, seq |-> seq, digest |-> digest, sender |-> sender,
     data |-> data, to |-> PbftNode \ {sender}]

\* A handler's outcome: the node's new state and the messages it sends.
Out(s, msgs) == [s |-> s, msgs |-> msgs]
Then(out, next) == Out(next.s, out.msgs \o next.msgs)

(***************************************************************************)
(* _apply_byzantine                                                        *)
(***************************************************************************)

Equivocate(m) == [i \in 1 .. 3 * F |->
    LET peer == IF i - 1 < m.sender THEN i - 1 ELSE i
    IN  [m EXCEPT !.digest = Junk, !.to = {peer}]]

\* WRONG_DIGEST alters the very messages that the node has logged as its own.
Poisoned(n, recs) == {IF r.sender = n THEN [r EXCEPT !.digest = Junk] ELSE r : r \in recs}

ApplyByzantine(n, out) ==
    CASE mode[n] = Honest -> out
      [] mode[n] = "silent" -> Out(out.s, <<>>)
      [] mode[n] = "wrong_sequence" ->
            Out(out.s, [i \in DOMAIN out.msgs |-> [out.msgs[i] EXCEPT !.seq = @ + Offset]])
      [] mode[n] = "wrong_digest" ->
            Out([out.s EXCEPT !.prepares = Poisoned(n, @), !.commits = Poisoned(n, @)],
                [i \in DOMAIN out.msgs |-> [out.msgs[i] EXCEPT !.digest = Junk]])
      [] mode[n] = "equivocating" ->
            Out(out.s, FlattenSeq([i \in DOMAIN out.msgs |-> Equivocate(out.msgs[i])]))

(***************************************************************************)
(* The three phases                                                        *)
(***************************************************************************)

Slot(view, seq) == <<view, seq>>
Logged(s, slot) == slot \in DOMAIN s.preprepared
Senders(recs, slot, digest) == {r.sender : r \in {q \in recs : q.slot = slot /\ q.digest = digest}}
Entry(m) == [slot |-> Slot(m.view, m.seq), digest |-> m.digest, sender |-> m.sender]
Set(f, x, v) == [y \in DOMAIN f \cup {x} |-> IF y = x THEN v ELSE f[y]]
\* log[PRE_PREPARE][0]: the first that was logged stays.
LogFirst(s, slot, request) ==
    IF Logged(s, slot) THEN s ELSE [s EXCEPT !.preprepared = Set(@, slot, request)]

\* _try_execute: from next_execute_seq on, as long as the next one is committed
\* here in some view and its request is known.
Executable(s, seq) == {c \in s.committed : c[2] = seq /\ Logged(s, c)}
TryExecute(s) ==
    LET first == Len(s.executed) + 1
        ready == {k \in first .. first + Cardinality(s.committed) :
                      \A j \in first .. k : Executable(s, j) # {}}
        request(seq) == s.preprepared[CHOOSE c \in Executable(s, seq) : TRUE]
    IN  [s EXCEPT !.executed = @ \o [i \in 1 .. Cardinality(ready) |-> request(first - 1 + i)]]

CommitQuorum_All == 3 * F + 1
CommitQuorum == 2 * F + 1

CheckCommitted(s, slot, digest) ==
    IF slot \in s.committed \/ Cardinality(Senders(s.commits, slot, digest)) < CommitQuorum
    THEN s
    ELSE TryExecute([s EXCEPT !.committed = @ \cup {slot}])

CheckPrepared(n, s, slot, digest) ==
    LET commit == Msg("COMMIT", slot[1], slot[2], digest, n, {})
    IN  IF \/ slot \in s.prepared \/ ~Logged(s, slot)
           \/ Cardinality(Senders(s.prepares, slot, digest)) < 2 * F
        THEN Out(s, <<>>)
        ELSE Out(CheckCommitted([s EXCEPT !.prepared = @ \cup {slot},
                                          !.commits = @ \cup {Entry(commit)},
                                          !.seen = @ \cup {<<slot, "COMMIT", n>>}],
                                slot, digest), <<commit>>)

\* _is_duplicate also records the message.
Duplicate(s, m) == <<Slot(m.view, m.seq), m.type, m.sender>> \in s.seen
Seen(s, m) == [s EXCEPT !.seen = @ \cup {<<Slot(m.view, m.seq), m.type, m.sender>>}]

HandlePrePrepare(n, s, m) ==
    LET slot == Slot(m.view, m.seq)
        prepare == Msg("PREPARE", m.view, m.seq, m.digest, n, {})
        s1 == Seen(s, m)
        s2 == LogFirst([s1 EXCEPT !.accepted = Set(@, slot, m.digest)], slot, m.data)
        s3 == [s2 EXCEPT !.prepares = @ \cup {Entry(prepare)},
                         !.seen = @ \cup {<<slot, "PREPARE", n>>}]
    IN  CASE m.sender # Primary(s.view) \/ Duplicate(s, m) -> Out(s, <<>>)
          [] \/ m.digest # m.data
             \/ slot \in DOMAIN s.accepted /\ s.accepted[slot] # m.digest -> Out(s1, <<>>)
          [] OTHER -> Then(Out(s3, <<prepare>>), CheckPrepared(n, s3, slot, m.digest))

HandlePrepare(n, s, m) ==
    LET slot == Slot(m.view, m.seq)
        s1 == Seen(s, m)
    IN  CASE m.sender = Primary(m.view) \/ Duplicate(s, m) -> Out(s, <<>>)
          [] slot \in DOMAIN s.accepted /\ s.accepted[slot] # m.digest -> Out(s1, <<>>)
          [] OTHER -> CheckPrepared(n, [s1 EXCEPT !.prepares = @ \cup {Entry(m)}], slot, m.digest)

HandleCommit(s, m) ==
    IF Duplicate(s, m) THEN Out(s, <<>>)
    ELSE LET s1 == Seen(s, m)
         IN  Out(CheckCommitted([s1 EXCEPT !.commits = @ \cup {Entry(m)}],
                                Slot(m.view, m.seq), m.digest), <<>>)

(***************************************************************************)
(* View change                                                             *)
(***************************************************************************)

\* _collect_prepared_data
PreparedData(s) ==
    {[seq |-> p[2], request |-> s.preprepared[p]] : p \in s.prepared \ s.committed}

ViewChange(n, s, view) == Msg("VIEW_CHANGE", view, 0, Junk, n, PreparedData(s))
VcLog(s, view) == IF view \in DOMAIN s.vcs THEN s.vcs[view] ELSE <<>>
AddVc(s, m) == [s EXCEPT !.vcs = Set(@, m.view, Append(VcLog(s, m.view),
                                               [sender |-> m.sender, data |-> m.data]))]

\* tick past the timeout: a node that times out again logs its own message again.
Timeout(n, s) ==
    LET vc == ViewChange(n, s, s.view + 1)
    IN  IF Primary(s.view) = n THEN Out(s, <<>>)
        ELSE ApplyByzantine(n, Out(AddVc(s, vc), <<vc>>))

\* repropose: for each sequence number the first report of it in the log.
Reproposed(vcs) ==
    LET reports(seq) == {i \in DOMAIN vcs : \E p \in vcs[i].data : p.seq = seq}
        first(seq) == CHOOSE i \in reports(seq) : \A j \in reports(seq) : i <= j
        seqs == {p.seq : p \in UNION {vcs[i].data : i \in DOMAIN vcs}}
    IN  [seq \in seqs |-> (CHOOSE p \in vcs[first(seq)].data : p.seq = seq).request]

NextSequence_Kept(s, seqs) == s.nextSeq
NextSequence(s, seqs) ==
    CHOOSE k \in {s.nextSeq} \cup {q + 1 : q \in seqs} :
        \A j \in {s.nextSeq} \cup {q + 1 : q \in seqs} : j <= k

\* The new primary enters the view and proposes again what was reported.
EnterView(n, s, view) ==
    LET re == Reproposed(s.vcs[view])
        order == SetToSortSeq(DOMAIN re, LAMBDA a, b : a < b)
        slots == {Slot(view, q) : q \in DOMAIN re}
        s1 == [s EXCEPT
                 !.view = view,
                 !.nextSeq = NextSequence(s, DOMAIN re),
                 !.accepted = [x \in DOMAIN @ \cup slots |-> IF x \in slots THEN re[x[2]] ELSE @[x]],
                 !.preprepared = [x \in DOMAIN @ \cup slots |->
                                     IF x \in DOMAIN @ THEN @[x] ELSE re[x[2]]]]
        proposals == [i \in DOMAIN order |->
                        Msg("PRE_PREPARE", view, order[i], re[order[i]], n, re[order[i]])]
    IN  ApplyByzantine(n, Out(s1, <<Msg("NEW_VIEW", view, 0, Junk, n, {})>> \o proposals))

HandleViewChange(n, s, m) ==
    LET s1 == AddVc(s, m)
        vc == ViewChange(n, s, m.view)
        sent(who) == \E i \in DOMAIN VcLog(s, m.view) : VcLog(s, m.view)[i].sender = who
    IN  CASE m.view <= s.view \/ sent(m.sender) -> Out(s, <<>>)
          [] Primary(m.view) # n /\ sent(n) -> Out(s1, <<>>)
          [] Primary(m.view) # n /\ ~sent(n) -> ApplyByzantine(n, Out(AddVc(s1, vc), <<vc>>))
          [] Primary(m.view) = n ->
                IF Len(s1.vcs[m.view]) < 2 * F + 1 THEN Out(s1, <<>>) ELSE EnterView(n, s1, m.view)

HandleNewView(s, m) ==
    Out(IF m.sender = Primary(m.view) /\ m.view > s.view THEN [s EXCEPT !.view = m.view] ELSE s,
        <<>>)

Receive(n, m) ==
    LET s == nd[n]
    IN  CASE m.type = "VIEW_CHANGE" -> HandleViewChange(n, s, m)
          [] m.type = "NEW_VIEW" -> HandleNewView(s, m)
          [] m.view # s.view -> Out(s, <<>>)
          [] m.type = "PRE_PREPARE" -> ApplyByzantine(n, HandlePrePrepare(n, s, m))
          [] m.type = "PREPARE" -> ApplyByzantine(n, HandlePrepare(n, s, m))
          [] m.type = "COMMIT" -> ApplyByzantine(n, HandleCommit(s, m))

(***************************************************************************)
(* PBFTCluster                                                             *)
(***************************************************************************)

InNodeOrder(out) == FlattenSeq([i \in 1 .. 3 * F + 1 |-> out[i - 1].msgs])

\* Next message of the round, to all its recipients.
PbftDeliver ==
    /\ batch # <<>>
    /\ LET m == Head(batch)
           out == [n \in PbftNode |-> IF n \in m.to THEN Receive(n, m) ELSE Out(nd[n], <<>>)]
       IN  /\ nd' = [n \in PbftNode |-> out[n].s]
           /\ pending' = pending \o InNodeOrder(out)
    /\ batch' = Tail(batch)
    /\ UNCHANGED <<mode, requests, lost, running, cuts, triggers>>

NextRound ==
    /\ batch = <<>> /\ pending # <<>>
    /\ batch' = pending
    /\ pending' = <<>>
    /\ running' = IF running = "bounded" THEN "partly" ELSE running
    /\ UNCHANGED <<mode, nd, requests, lost, cuts, triggers>>

\* A call finds the protocol at rest, or a bounded run of it at its end.
Called == batch = <<>> /\ (pending = <<>> \/ (running = "partly" /\ cuts < MaxCuts))
CutsAfterCall == IF pending = <<>> THEN cuts ELSE cuts + 1

FirstHonest == CHOOSE n \in HonestNodes : \A k \in HonestNodes : n <= k

\* submit_request: the primary of the first honest node's view numbers the request.
\* The run that follows is bounded, or bounded by more rounds than it takes.
PbftSubmit(r) ==
    LET p == Primary(nd[FirstHonest].view)
        s == nd[p]
        slot == Slot(s.view, s.nextSeq)
        s1 == LogFirst([s EXCEPT !.nextSeq = @ + 1,
                                 !.accepted = Set(@, slot, r),
                                 !.seen = @ \cup {<<slot, "PRE_PREPARE", p>>}], slot, r)
        out == IF Primary(s.view) # p \/ mode[p] = "silent" THEN Out(s, <<>>)
               ELSE ApplyByzantine(p, Out(s1, <<Msg("PRE_PREPARE", s.view, s.nextSeq, r, p, r)>>))
    IN  /\ Called /\ r \notin requests /\ Cardinality(requests) < MaxRequests
        /\ nd' = [nd EXCEPT ![p] = out.s]
        /\ pending' = pending \o out.msgs
        /\ requests' = requests \cup {r}
        /\ lost' = IF mode[p] # Honest \/ s.nextSeq <= Len(s.executed) THEN lost \cup {r} ELSE lost
        /\ running' = "bounded"
        /\ cuts' = CutsAfterCall
        /\ UNCHANGED <<mode, batch, triggers>>

\* trigger_view_change: every node's timer runs out.
TriggerViewChange ==
    LET out == [n \in PbftNode |-> Timeout(n, nd[n])]
    IN  /\ Called /\ triggers < MaxTriggers
        /\ triggers' = triggers + 1
        /\ nd' = [n \in PbftNode |-> out[n].s]
        /\ pending' = pending \o InNodeOrder(out)
        /\ running' = "to the end"
        /\ cuts' = CutsAfterCall
        /\ UNCHANGED <<mode, batch, requests, lost>>

NodeInit ==
    [view |-> 0, nextSeq |-> 1, preprepared |-> <<>>, accepted |-> <<>>,
     prepares |-> {}, commits |-> {}, prepared |-> {}, committed |-> {},
     executed |-> <<>>, seen |-> {}, vcs |-> <<>>]

PbftInit ==
    /\ mode \in [PbftNode -> Modes]
    /\ Cardinality({n \in PbftNode : mode[n] # Honest}) <= F
    /\ nd = [n \in PbftNode |-> NodeInit]
    /\ batch = <<>> /\ pending = <<>>
    /\ requests = {} /\ lost = {} /\ running = "to the end" /\ cuts = 0 /\ triggers = 0

PbftNext ==
    \/ PbftDeliver \/ NextRound
    \/ \E r \in Request : PbftSubmit(r)
    \/ TriggerViewChange

PbftSpec == PbftInit /\ [][PbftNext]_pbftVars

(***************************************************************************)
(* Properties                                                              *)
(***************************************************************************)

AtRest == batch = <<>> /\ pending = <<>>

\* Honest nodes accept one request for a sequence number of a view, also when a
\* view change meets requests that are prepared and not committed.
OneRequestPerSlot ==
    \A m, n \in HonestNodes : \A slot \in DOMAIN nd[m].accepted \cap DOMAIN nd[n].accepted :
        nd[m].accepted[slot] = nd[n].accepted[slot]

\* Every run of the protocol that is not cut short ends with the same executed
\* log at all honest nodes, whatever the faulty node does, and with every
\* request in it that an honest primary took and gave a number not used before.
RunsAgree ==
    AtRest /\ cuts = 0 =>
        \A m, n \in HonestNodes : /\ nd[m].executed = nd[n].executed
                                  /\ requests \ lost \subseteq ToSet(nd[n].executed)

\* test_pbft.py, "Agreement invariant: honest nodes always have identical
\* executed logs": no two honest nodes execute different requests under one number.
PbftAgreement ==
    \A m, n \in HonestNodes : \A i \in DOMAIN nd[m].executed \cap DOMAIN nd[n].executed :
        nd[m].executed[i] = nd[n].executed[i]
=============================================================================
