---------------------------------- MODULE Crdt ----------------------------------
(***************************************************************************)
(* conflict-free-replicated-data-types/crdts.py: GCounter, PNCounter,      *)
(* LWWRegister and ORSet in a CRDTReplicaGroup.                            *)
(*                                                                         *)
(* A group holds replicas of one type.  A GCounter is the p of a           *)
(* PNCounter.  An update's number stands for the value a set writes.  set  *)
(* takes any timestamp a caller passes: one that is not later than what    *)
(* the register shows undoes a write at this replica only.                 *)
(***************************************************************************)
EXTENDS Integers, Sequences, FiniteSets, SequencesExt, FiniteSetsExt

CONSTANTS
    Rep,            \* replica ids, integers, in the order of replica_ids
    Elem,           \* elements of a set
    MaxUpdates,     \* bound: updates
    MaxStamp        \* bound: timestamps a caller passes

VARIABLES
    kind,           \* crdt_class: "counter", "register" or "set"
    reps,           \* the replicas
    updates,        \* history: the updates, in the order they were made
    knows,          \* history: the updates that reached a replica
    synced,         \* history: no update since the last sync_all
    orderly         \* history: every set was later than the one it replaced

crdtVars == <<kind, reps, updates, knows, synced, orderly>>

NewCounter == [p |-> [x \in Rep |-> 0], n |-> [x \in Rep |-> 0]]
NewRegister(r) == [val |-> 0, ts |-> 0, writer |-> r, clock |-> 0]
NewSet == [tags |-> {}, tombs |-> {}, seq |-> 0]

\* What every update does besides changing its replica.
Updates(r, u) ==
    /\ Len(updates) < MaxUpdates
    /\ updates' = Append(updates, u)
    /\ knows' = [knows EXCEPT ![r] = @ \cup {Len(updates) + 1}]
    /\ synced' = FALSE
    /\ UNCHANGED kind

\* PNCounter.increment and decrement
Increment(r, field, amount) ==
    /\ kind = "counter"
    /\ reps' = [reps EXCEPT ![r] = IF field = "p" THEN [@ EXCEPT !.p[r] = @ + amount]
                                   ELSE [@ EXCEPT !.n[r] = @ + amount]]
    /\ Updates(r, [op |-> field])
    /\ UNCHANGED orderly

\* LWWRegister.set: the next value of the own clock, or the caller's timestamp.
StampOf(rep, given) == IF given = 0 THEN rep.clock + 1 ELSE given
Set(r, given) ==
    LET ts == StampOf(reps[r], given)
    IN  /\ kind = "register"
        /\ orderly' = (orderly /\ ts > reps[r].ts)
        /\ reps' = [reps EXCEPT ![r].val = Len(updates) + 1, ![r].ts = ts, ![r].writer = r,
                                ![r].clock = Max({@, ts})]
        /\ Updates(r, [op |-> "set", ts |-> ts, writer |-> r])

\* ORSet.add, with _new_tag
NewTag(r) == <<r, reps[r].seq + 1>>
AddElement(r, e) ==
    /\ kind = "set"
    /\ reps' = [reps EXCEPT ![r].tags = @ \cup {<<e, NewTag(r)>>}, ![r].seq = @ + 1]
    /\ Updates(r, [op |-> "add", elem |-> e, seen |-> {}])
    /\ UNCHANGED orderly

\* ORSet.remove: the tags known here, and no others; nothing to do without any.
RemoveElement(r, e) ==
    LET mine == {t \in reps[r].tags : t[1] = e}
    IN  /\ kind = "set" /\ mine # {}
        /\ reps' = [reps EXCEPT ![r].tags = @ \ mine, ![r].tombs = @ \cup {t[2] : t \in mine}]
        /\ Updates(r, [op |-> "remove", elem |-> e,
                       seen |-> {i \in knows[r] : updates[i].op = "add" /\ updates[i].elem = e}])
        /\ UNCHANGED orderly

(***************************************************************************)
(* merge of b's state into a                                               *)
(***************************************************************************)

MergedCounts(a, b) == [x \in Rep |-> Max({a[x], b[x]})]

Wins(b, a) == b.ts > a.ts \/ (b.ts = a.ts /\ b.writer > a.writer)

MergedTags_Back(a, b) == {t \in a.tags : t[2] \notin b.tombs} \cup b.tags
MergedTags(a, b) == {t \in a.tags \cup b.tags : t[2] \notin a.tombs \cup b.tombs}

MergeCounters(a, b) == [p |-> MergedCounts(a.p, b.p), n |-> MergedCounts(a.n, b.n)]
MergeRegisters(a, b) ==
    [(IF Wins(b, a) THEN b ELSE a) EXCEPT !.clock = Max({a.clock, b.clock})]
MergeSets(a, b) ==
    [tags |-> MergedTags(a, b), tombs |-> a.tombs \cup b.tombs, seq |-> Max({a.seq, b.seq})]
Merge(a, b) ==
    CASE kind = "counter" -> MergeCounters(a, b)
      [] kind = "register" -> MergeRegisters(a, b)
      [] kind = "set" -> MergeSets(a, b)

Sync(from, to) ==
    /\ reps' = [reps EXCEPT ![to] = Merge(@, reps[from])]
    /\ knows' = [knows EXCEPT ![to] = @ \cup knows[from]]
    /\ UNCHANGED <<kind, updates, synced, orderly>>

\* sync_all: two rounds of every pair
Pairs == LET ids == SetToSortSeq(Rep, <)
             from(a) == [j \in DOMAIN ids |-> <<a, ids[j]>>]
             round == FlattenSeq([i \in DOMAIN ids |-> from(ids[i])])
         IN  SelectSeq(round \o round, LAMBDA x : x[1] # x[2])
SyncAll ==
    /\ reps' = FoldLeft(LAMBDA rs, x : [rs EXCEPT ![x[2]] = Merge(@, rs[x[1]])], reps, Pairs)
    /\ knows' = [r \in Rep |-> DOMAIN updates]
    /\ synced' = TRUE
    /\ UNCHANGED <<kind, updates, orderly>>

CrdtInit ==
    /\ kind \in {"counter", "register", "set"}
    /\ reps = [r \in Rep |-> CASE kind = "counter" -> NewCounter
                              [] kind = "register" -> NewRegister(r)
                              [] kind = "set" -> NewSet]
    /\ updates = <<>> /\ knows = [r \in Rep |-> {}] /\ synced = FALSE
    /\ orderly = TRUE

CrdtNext ==
    \/ \E r \in Rep : \/ \E f \in {"p", "n"} : Increment(r, f, 1)
                      \/ \E ts \in 0..MaxStamp : Set(r, ts)
                      \/ \E e \in Elem : AddElement(r, e) \/ RemoveElement(r, e)
                      \/ \E s \in Rep \ {r} : Sync(r, s)
    \/ SyncAll

CrdtSpec == CrdtInit /\ [][CrdtNext]_crdtVars

(***************************************************************************)
(* Reads                                                                   *)
(***************************************************************************)

\* PNCounter.value and ORSet.elements; LWWRegister.get is the field val
CounterValue(rep) == MapThenSumSet(LAMBDA x : rep.p[x] - rep.n[x], Rep)
Elements(rep) == {t[1] : t \in rep.tags}

\* all_converged, with the fields that __eq__ of each type compares
Compared(rep) ==
    CASE kind = "counter" -> <<rep.p, rep.n>>
      [] kind = "register" -> <<rep.val, rep.ts, rep.writer>>
      [] kind = "set" -> <<rep.tags, rep.tombs>>
AllConverged == \A r, s \in Rep : Compared(reps[r]) = Compared(reps[s])

(***************************************************************************)
(* Properties                                                              *)
(***************************************************************************)

\* What a replica shows, against what the updates known to it amount to.
KnownOps(r, op) == {i \in knows[r] : updates[i].op = op}
CounterRight(r) == CounterValue(reps[r]) = Cardinality(KnownOps(r, "p")) - Cardinality(KnownOps(r, "n"))

LatestSets(r) == {i \in knows[r] : \A j \in knows[r] \ {i} : Wins(updates[i], updates[j])}
RegisterRight(r) ==
    IF knows[r] = {} THEN reps[r].val = 0
    ELSE LatestSets(r) = {reps[r].val} /\ reps[r].ts = updates[reps[r].val].ts

SetRight(r) ==
    Elements(reps[r]) =
        {updates[i].elem : i \in {j \in KnownOps(r, "add") :
                                     \A m \in KnownOps(r, "remove") : j \notin updates[m].seen}}

\* Every replica shows what the updates that reached it amount to, by whatever
\* path, in whatever order and however often they came: each increment counts
\* once, the latest set wins (when callers pass timestamps that only grow), an
\* element is in exactly when some add of it was not seen by a removal.  After
\* sync_all all replicas are equal.
CrdtConverge ==
    /\ kind = "counter" => \A r \in Rep : CounterRight(r)
    /\ kind = "register" /\ orderly => \A r \in Rep : RegisterRight(r)
    /\ kind = "set" => \A r \in Rep : SetRight(r)
    /\ synced /\ orderly => AllConverged
=============================================================================
