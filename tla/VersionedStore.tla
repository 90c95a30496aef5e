----------------------------- MODULE VersionedStore -----------------------------
(***************************************************************************)
(* vector-clocks/vector_clock.py: VectorClock, and VersionedKVStore on     *)
(* several nodes.                                                          *)
(*                                                                         *)
(* A version is its index in the history; a client may hold the clocks of  *)
(* any versions it read, at any node, however long ago, and a version may  *)
(* be handed to _receive_replica of any node late, twice or never.  A      *)
(* node's clock spans its keys.                                            *)
(***************************************************************************)
EXTENDS Integers, Sequences, FiniteSets, FiniteSetsExt

CONSTANTS
    VNode,          \* node ids
    VKey,           \* keys
    MaxVersions     \* bound: puts and reconciles

VARIABLES
    vclock,         \* _clock of a node
    siblings,       \* _data: the versions of a key at a node
    versions,       \* history: the versions in the order they were written
    reached         \* history: the versions written or received at a node

versionVars == <<vclock, siblings, versions, reached>>

(***************************************************************************)
(* VectorClock: a missing entry is a zero                                  *)
(***************************************************************************)

Zero == [n \in VNode |-> 0]
Increment(c, n) == [c EXCEPT ![n] = @ + 1]
Merged(c, d) == [n \in VNode |-> Max({c[n], d[n]})]
MergedAll(cs) == [n \in VNode |-> Max({0} \cup {c[n] : c \in cs})]
Dominates(c, d) == \A n \in VNode : c[n] >= d[n]

\* compare
Less(c, d) == \E n \in VNode : c[n] < d[n]
Compare(c, d) ==
    CASE Less(c, d) /\ Less(d, c) -> "CONCURRENT"
      [] Less(c, d) /\ ~Less(d, c) -> "BEFORE"
      [] Less(d, c) /\ ~Less(c, d) -> "AFTER"
      [] OTHER -> "EQUAL"

\* find_conflicts
FindConflicts(vs) ==
    \E v, w \in vs : Compare(versions[v].vc, versions[w].vc) = "CONCURRENT"

(***************************************************************************)
(* VersionedKVStore                                                        *)
(***************************************************************************)

\* A version of k with clock c joins the history; its causal past is what the node
\* and the client knew of.
KnownFrom(vs) == vs \cup UNION {versions[v].past : v \in vs}
Write(n, k, c, read) ==
    /\ Len(versions) < MaxVersions
    /\ versions' = Append(versions, [key |-> k, vc |-> c, past |-> KnownFrom(read \cup reached[n])])
    /\ reached' = [reached EXCEPT ![n] = @ \cup {Len(versions) + 1}]

\* The siblings the new clock does not cover.
Surviving(vs, c) == {v \in vs : ~Dominates(c, versions[v].vc)}

\* put: read is the versions whose clocks make up the caller's context; none for
\* a call without a context.
PutClock(own, read) == Merged(MergedAll({versions[v].vc : v \in read}), own)
Put(n, k, read) ==
    LET own == Increment(vclock[n], n)
        c   == PutClock(own, read)
    IN  /\ Write(n, k, c, read)
        /\ vclock' = [vclock EXCEPT ![n] = Merged(own, c)]
        /\ siblings' = [siblings EXCEPT ![n][k] = Surviving(@, c) \cup {Len(versions) + 1}]

\* _receive_replica
Unseen_Always(v, vs) == TRUE
Unseen(v, vs) == ~\E w \in vs : Dominates(versions[w].vc, versions[v].vc)
ReceiveReplica(n, v) ==
    LET k    == versions[v].key
        kept == Surviving(siblings[n][k], versions[v].vc)
    IN  /\ siblings' = [siblings EXCEPT
                           ![n][k] = IF Unseen(v, kept) THEN kept \cup {v} ELSE kept]
        /\ vclock' = [vclock EXCEPT ![n] = Merged(@, versions[v].vc)]
        /\ reached' = [reached EXCEPT ![n] = @ \cup {v}]
        /\ UNCHANGED versions

\* reconcile: the merged value replaces whatever the node has for the key.
ReconcileClock(own, read, n) ==
    Increment(Merged(MergedAll({versions[v].vc : v \in read}), own), n)
Reconcile(n, k, read) ==
    LET c == ReconcileClock(vclock[n], read, n)
    IN  /\ Write(n, k, c, read)
        /\ vclock' = [vclock EXCEPT ![n] = Merged(@, c)]
        /\ siblings' = [siblings EXCEPT ![n][k] = {Len(versions) + 1}]

VersionInit ==
    /\ vclock = [n \in VNode |-> Zero]
    /\ siblings = [n \in VNode |-> [k \in VKey |-> {}]]
    /\ versions = <<>>
    /\ reached = [n \in VNode |-> {}]

VersionNext ==
    \E n \in VNode :
       \/ \E k \in VKey, read \in SUBSET DOMAIN versions : Put(n, k, read) \/ Reconcile(n, k, read)
       \/ \E v \in DOMAIN versions : ReceiveReplica(n, v)

VersionSpec == VersionInit /\ [][VersionNext]_versionVars

(***************************************************************************)
(* Properties                                                              *)
(***************************************************************************)

\* Clocks tell exactly what happened before what: a version's clock dominates
\* another's when its writer, or the node it wrote to, knew of that one, and
\* clocks of different versions differ.
ClocksAreCausal ==
    \A v, w \in DOMAIN versions :
       Compare(versions[v].vc, versions[w].vc) =
          CASE v = w -> "EQUAL"
            [] w \in versions[v].past -> "AFTER"
            [] v \in versions[w].past -> "BEFORE"
            [] OTHER -> "CONCURRENT"

\* The versions of a key that reached a node and that no other of them follows.
Latest(n, k) ==
    LET mine == {v \in reached[n] : versions[v].key = k}
    IN  mine \ UNION {versions[w].past : w \in mine}

\* A node's siblings of a key are the versions of the key that reached it and that
\* no other of them follows, in whatever order, and however often, they came; and
\* find_conflicts tells when there is more than one.
SiblingsAreLatest ==
    \A n \in VNode, k \in VKey :
       /\ siblings[n][k] = Latest(n, k)
       /\ FindConflicts(siblings[n][k]) <=> Cardinality(siblings[n][k]) > 1

(***************************************************************************)
(* The inductive invariant                                                 *)
(***************************************************************************)

\* A version and what it follows; what a node knows of.
Follows(v) == {v} \cup versions[v].past
Known(n) == KnownFrom(reached[n])

\* The entry of m, who wrote w, tells who knows of w.
Marks(m, w) ==
    /\ \A v \in DOMAIN versions : versions[v].vc[m] >= versions[w].vc[m] => w \in Follows(v)
    /\ \A n \in VNode : vclock[n][m] >= versions[w].vc[m] => w \in Known(n)

Version == [key : VKey, vc : [VNode -> Nat], past : SUBSET Nat]
VersionTypes ==
    /\ versions \in Seq(Version)
    /\ vclock \in [VNode -> [VNode -> Nat]]
    /\ reached \in [VNode -> SUBSET DOMAIN versions]
    /\ siblings \in [VNode -> [VKey -> SUBSET Nat]]
PastsNest ==
    \A v \in DOMAIN versions :
        /\ versions[v].past \subseteq 1..(v - 1)
        /\ \A w \in versions[v].past : versions[w].past \subseteq versions[v].past
\* Nobody is ahead of a node in its own entry.
OwnEntryLeads ==
    \A m \in VNode : /\ \A v \in DOMAIN versions : versions[v].vc[m] <= vclock[m][m]
                     /\ \A n \in VNode : vclock[n][m] <= vclock[m][m]
ClocksCover ==
    /\ \A v \in DOMAIN versions : \A w \in versions[v].past :
           Dominates(versions[v].vc, versions[w].vc)
    /\ \A n \in VNode : \A w \in Known(n) : Dominates(vclock[n], versions[w].vc)
VersionInv ==
    /\ VersionTypes /\ PastsNest /\ OwnEntryLeads /\ ClocksCover
    /\ \A w \in DOMAIN versions : \E m \in VNode : Marks(m, w)
    /\ \A n \in VNode, k \in VKey : siblings[n][k] = Latest(n, k)
=============================================================================
