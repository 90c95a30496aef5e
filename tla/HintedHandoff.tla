----------------------------- MODULE HintedHandoff -----------------------------
(***************************************************************************)
(* hinted-handoff/hinted_handoff.py: Node and HintedHandoffStore, for one  *)
(* key.                                                                    *)
(*                                                                         *)
(* A put reaches the available ones of the key's preferred nodes, and      *)
(* leaves a hint for each of the others on the first available node that   *)
(* is not preferred.  A version is used for one put, so it stands for the  *)
(* value.                                                                  *)
(***************************************************************************)
EXTENDS Integers, FiniteSets, FiniteSetsExt

CONSTANTS
    HNode,          \* nodes, a set of integers in sorted order
    Preferred,      \* get_preferred_nodes(key)
    HWriteQuorum,   \* write_quorum
    HintTtl,        \* hint_ttl
    MaxHVersion,    \* bound: puts
    MaxHTime        \* bound: the times a caller passes as current_time

VARIABLES
    sloppy,         \* sloppy_quorum
    version,        \* versions[key]
    stored,         \* Node.store[key]: a version, 0 for none
    hints,          \* Node.hints: target, version and time made
    up,             \* the available nodes
    now,            \* current_time of the last call
    owed            \* history: the newest version a preferred node got or was to get

hintVars == <<sloppy, version, stored, hints, up, now, owed>>

Expired(h) == now >= h.created + HintTtl

\* Node.put: a version that is not older
Stored(n, v) == Max({v, stored[n]})

\* Node.expire_hints
Kept(hs) == {h \in hs : ~Expired(h)}

\* The node that takes the hints: the first available one that is not preferred.
Holders == {n \in HNode \ Preferred : n \in up}

\* put: a strict quorum that is not met ends it, with the copies already written.
HintedPut ==
    LET v == version + 1
        written == Preferred \cap up
        strictFailure == ~sloppy /\ Cardinality(written) < HWriteQuorum
        hinted == IF strictFailure \/ Holders = {} THEN {} ELSE Preferred \ up
    IN  /\ version < MaxHVersion
        /\ version' = v
        /\ stored' = [n \in HNode |-> IF n \in written THEN Stored(n, v) ELSE stored[n]]
        /\ hints' = [n \in HNode |-> IF hinted # {} /\ n = Min(Holders)
                       THEN hints[n] \cup [target : hinted, ver : {v}, created : {now}] ELSE hints[n]]
        /\ owed' = [n \in Preferred |-> IF n \in written \cup hinted THEN v ELSE owed[n]]
        /\ UNCHANGED <<sloppy, up, now>>

\* What a node is owed once some hints are gone, delivered or not.
OwedAfter(n, dropped, left) ==
    IF \E h \in dropped : h.target = n /\ h.ver = owed[n] THEN left ELSE owed[n]

\* remove_hints_for
Remaining_None(hs, n) == {}
Remaining(hs, n) == {h \in hs : h.target # n}

\* trigger_handoff, which looks at no node's availability
TriggerHandoff(n) ==
    LET for == {h \in UNION {hints[m] : m \in HNode \ {n}} : h.target = n}
        delivered == Kept(for)
        newest == Max({stored[n]} \cup {Stored(n, h.ver) : h \in delivered})
    IN  /\ stored' = [stored EXCEPT ![n] = newest]
        /\ hints' = [m \in HNode |-> IF m # n THEN Remaining(hints[m], n) ELSE hints[m]]
        /\ owed' = [owed EXCEPT ![n] = OwedAfter(n, for \ delivered, newest)]
        /\ UNCHANGED <<sloppy, version, up, now>>

ExpireAllHints ==
    LET gone == {h \in UNION {hints[m] : m \in HNode} : Expired(h)}
    IN  /\ hints' = [m \in HNode |-> Kept(hints[m])]
        /\ owed' = [n \in Preferred |-> OwedAfter(n, gone, stored[n])]
        /\ UNCHANGED <<sloppy, version, stored, up, now>>

SetNodeAvailable(n) ==
    /\ up' = IF n \in up THEN up \ {n} ELSE up \cup {n}
    /\ UNCHANGED <<sloppy, version, stored, hints, now, owed>>

\* The caller's next call is made at a later time.
HTick ==
    /\ now < MaxHTime
    /\ now' = now + 1
    /\ UNCHANGED <<sloppy, version, stored, hints, up, owed>>

HintInit ==
    /\ sloppy \in BOOLEAN /\ version = 0 /\ now = 0 /\ up = HNode
    /\ stored = [n \in HNode |-> 0] /\ hints = [n \in HNode |-> {}]
    /\ owed = [n \in Preferred |-> 0]

HintNext ==
    \/ HintedPut \/ ExpireAllHints \/ HTick
    \/ \E n \in Preferred : TriggerHandoff(n)
    \/ \E n \in HNode : SetNodeAvailable(n)

HintSpec == HintInit /\ [][HintNext]_hintVars

(***************************************************************************)
(* Properties                                                              *)
(***************************************************************************)

\* The newest version a preferred node got, or a hint was left for, is in its
\* store or in a hint for it, on whichever node; only expiry takes it away.  The
\* store of a node never runs ahead of that.
HintsCover ==
    \A n \in Preferred :
        /\ stored[n] <= owed[n]
        /\ \/ stored[n] = owed[n]
           \/ \E m \in HNode : \E h \in hints[m] : h.target = n /\ h.ver = owed[n]

\* Why: only nodes that are not preferred hold hints, no hint is newer than what its
\* target is owed, and a hint with an older version expires no later.
HintInv ==
    /\ version \in Nat /\ now \in Nat /\ up \subseteq HNode /\ sloppy \in BOOLEAN
    /\ stored \in [HNode -> Nat] /\ owed \in [Preferred -> Nat]
    /\ hints \in [HNode -> SUBSET [target : Preferred, ver : Nat, created : Nat]]
    /\ \A n \in Preferred : hints[n] = {} /\ owed[n] <= version
    /\ \A m \in HNode : \A h \in hints[m] : h.ver <= owed[h.target] /\ h.created <= now
    /\ \A m, n \in HNode : \A h \in hints[m], g \in hints[n] :
          h.ver <= g.ver => h.created <= g.created
    /\ HintsCover
=============================================================================
