---------------------------- MODULE PartitionedLog ----------------------------
(***************************************************************************)
(* partitioned-log/partitioned_log.py: Topic, Producer, Consumer,          *)
(* ConsumerGroup and Broker, for one topic and one consumer group.         *)
(*                                                                         *)
(* A message has a key and the number of its send, which stands for the    *)
(* rest of it.  The partition of a send is the caller's, the key's or the  *)
(* next in turn: any.  Each partition's file holds every message sent, and *)
(* the file of committed offsets is rewritten by every commit, so the      *)
(* committed offsets on disk are those in memory.  A log is a function     *)
(* from the offsets it holds to the messages.  A consumer's settings,      *)
(* auto_commit and auto_offset_reset, are chosen anew for each use.        *)
(***************************************************************************)
EXTENDS Integers, Sequences, FiniteSets, FiniteSetsExt

CONSTANTS
    Shapes,         \* pairs: num_partitions of the topic, and a bound on the messages sent
    PKey, NoKey,    \* keys of messages; a message may have none
    Consumer,       \* consumer ids, integers
    None,           \* no offset
    MaxRegroups,    \* bound: consumers joining or leaving
    MaxRestarts     \* bound: restarts of the broker

ASSUME LogAssumption == None \notin Int /\ Shapes \subseteq (Nat \ {0}) \X Nat

VARIABLES
    shape,          \* one of Shapes
    cleanup,        \* how old messages go: compact, or retention_ms
    parts,          \* Topic: _partitions and _base_offsets
    files,          \* <topic>_<partition>.jsonl
    committed,      \* _committed_offsets, and offsets.json
    consumers,      \* Consumer: in the group or not, _assignment, _offsets
    sent, regroups, restarts, \* counted for the bounds
    delivered,      \* history: messages poll returned in the group
    excused         \* history: messages removed, or that a "latest" start passed over

logVars == <<shape, cleanup, parts, files, committed, consumers, sent,
             regroups, restarts, delivered, excused>>

AllPartitions == 0..(shape[1] - 1)
MaxSends == shape[2]
Partitions == DOMAIN parts
Members == {c \in Consumer : consumers[c].member}
FreshConsumer == [member |-> FALSE, assigned |-> {}, pos |-> [p \in AllPartitions |-> None]]

\* append and latest_offset: one past the last message, or the base of an empty log.
NextOffset(part) == IF DOMAIN part.log = {} THEN part.base ELSE Max(DOMAIN part.log) + 1

Appended(part, m) ==
    [part EXCEPT !.log = [o \in DOMAIN part.log \cup {NextOffset(part)} |->
                             IF o = NextOffset(part) THEN m ELSE part.log[o]]]

\* _persist_message
Persisted(p, m) == [files EXCEPT ![p] = Append(@, m)]

\* Producer.send
Send(p, k) ==
    LET m == [id |-> sent + 1, key |-> k]
    IN  /\ sent < MaxSends
        /\ parts' = [parts EXCEPT ![p] = Appended(@, m)]
        /\ files' = Persisted(p, m)
        /\ sent' = sent + 1
        /\ UNCHANGED <<shape, cleanup, committed, consumers, regroups, restarts,
                       delivered, excused>>

\* compact_partition keeps the last message of each key and those without a key.
Stays(log, o) == log[o].key = NoKey \/ \A x \in DOMAIN log : x > o => log[x].key # log[o].key
Compacted(part) ==
    LET kept == {o \in DOMAIN part.log : Stays(part.log, o)}
    IN  IF kept = DOMAIN part.log THEN part
        ELSE [log |-> [o \in kept |-> part.log[o]], base |-> Min(kept)]

\* The messages left are those in new; a reload brings the others back.
Dropped(old, new) == {old.log[o].id : o \in DOMAIN old.log \ DOMAIN new.log}
KeepOnly(new) ==
    /\ parts' = new
    /\ excused' = excused \cup UNION {Dropped(parts[p], new[p]) : p \in Partitions}
    /\ UNCHANGED <<shape, cleanup, files, committed, consumers, sent, regroups, restarts,
                   delivered>>

Compact ==
    /\ cleanup = "compact"
    /\ KeepOnly([p \in Partitions |-> Compacted(parts[p])])

\* truncate: the first n messages go, and the base moves by their number.
Truncated(part, n) ==
    LET kept == {o \in DOMAIN part.log : Cardinality({x \in DOMAIN part.log : x < o}) >= n}
    IN  [log |-> [o \in kept |-> part.log[o]], base |-> part.base + n]

\* enforce_retention by size leaves a log of the allowed size, by age any suffix.
EnforceRetention(p, n) ==
    /\ n \in 1..Cardinality(DOMAIN parts[p].log)
    /\ cleanup = "retention_ms" \/ n < Cardinality(DOMAIN parts[p].log)
    /\ KeepOnly([parts EXCEPT ![p] = Truncated(@, n)])

\* _init_offsets: a partition whose offset the consumer knows keeps it.
StartOffset_Reset(p, reset) ==
    IF reset = "latest" THEN NextOffset(parts[p]) ELSE parts[p].base
StartOffset(p, reset) ==
    IF committed[p] # None THEN committed[p]
    ELSE IF reset = "latest" THEN NextOffset(parts[p]) ELSE parts[p].base

InitOffsets(c, reset) ==
    [c EXCEPT !.pos = [p \in AllPartitions |-> IF p \in c.assigned /\ c.pos[p] = None
                                               THEN StartOffset(p, reset) ELSE c.pos[p]]]

\* rebalance: partitions in turn to the members in order of their ids.  A consumer
\* that left keeps its assignment.
Rebalanced(cs, members, reset) ==
    LET rank(c) == Cardinality({d \in members : d < c})
        share(c) == {p \in Partitions : p % Cardinality(members) = rank(c)}
    IN  [c \in Consumer |-> IF c \in members
            THEN InitOffsets([member |-> TRUE, assigned |-> share(c), pos |-> cs[c].pos], reset)
            ELSE [cs[c] EXCEPT !.member = FALSE]]

IdsOf(part) == {part.log[o].id : o \in DOMAIN part.log}

\* Messages that a first start at the end of the log passes over.
PassedOver(old, new) ==
    LET first == {p \in Partitions : committed[p] = None
                     /\ \E c \in Consumer : old[c].pos[p] = None /\ new[c].pos[p] # None}
    IN  UNION {IdsOf(parts[p]) : p \in first}

Regroup(members, reset) ==
    /\ regroups < MaxRegroups
    /\ regroups' = regroups + 1
    /\ consumers' = Rebalanced(consumers, members, reset)
    /\ excused' = IF reset = "latest" THEN excused \cup PassedOver(consumers, consumers') ELSE excused
    /\ UNCHANGED <<shape, cleanup, parts, files, committed, sent, restarts, delivered>>

Subscribe(c, reset) == c \notin Members /\ Regroup(Members \cup {c}, reset)
Close(c, reset) == c \in Members /\ Regroup(Members \ {c}, reset)

\* read: the offsets of at most n messages, from the first at or after the offset.
ReadFrom(part, offset, n) ==
    LET at == {o \in DOMAIN part.log : o >= offset}
    IN  {o \in at : Cardinality({x \in at : x <= o}) <= n}

\* poll: the partitions of the assignment in order, until n messages are found.
PolledFrom(acc, p) ==
    LET from == Max({acc.pos[p], parts[p].base})
        read == ReadFrom(parts[p], from, acc.left)
    IN  IF acc.left = 0 THEN acc
        ELSE [left |-> acc.left - Cardinality(read),
              got |-> acc.got \cup {parts[p].log[o].id : o \in read},
              pos |-> [acc.pos EXCEPT ![p] = IF read = {} THEN from ELSE Max(read) + 1]]
Polled(c, n) ==
    LET after[i \in 0..shape[1]] ==
            IF i = 0 THEN [left |-> n, got |-> {}, pos |-> consumers[c].pos]
            ELSE IF i - 1 \in consumers[c].assigned THEN PolledFrom(after[i - 1], i - 1)
            ELSE after[i - 1]
    IN  after[shape[1]]

\* commit writes every offset the consumer knows, its partition or not.
CommittedBy(pos) == [p \in AllPartitions |-> IF pos[p] # None THEN pos[p] ELSE committed[p]]

Poll(c, n, autoCommit) ==
    LET r == Polled(c, n)
    IN  /\ consumers[c].assigned # {}
        /\ consumers' = [consumers EXCEPT ![c].pos = r.pos]
        /\ delivered' = delivered \cup r.got
        /\ committed' = IF autoCommit /\ r.got # {} THEN CommittedBy(r.pos) ELSE committed
        /\ UNCHANGED <<shape, cleanup, parts, files, sent, regroups, restarts, excused>>

Commit(c) ==
    /\ committed' = CommittedBy(consumers[c].pos)
    /\ UNCHANGED <<shape, cleanup, parts, files, consumers, sent, regroups, restarts,
                   delivered, excused>>

\* seek back, to read again what is still there
Seek(c, p, offset) ==
    /\ consumers[c].pos[p] # None /\ offset < consumers[c].pos[p]
    /\ consumers' = [consumers EXCEPT ![c].pos[p] = Max({offset, parts[p].base})]
    /\ UNCHANGED <<shape, cleanup, parts, files, committed, sent, regroups, restarts,
                   delivered, excused>>

\* A new process: _load_from_disk sends every message of the files once more.  A
\* last partition without a file is not there any more.
Restart ==
    LET found == {p \in AllPartitions : files[p] # <<>>}
    IN  /\ restarts < MaxRestarts /\ found # {}
        /\ parts' = [p \in 0..Max(found) |->
                        [log |-> [o \in 0..(Len(files[p]) - 1) |-> files[p][o + 1]], base |-> 0]]
        /\ consumers' = [c \in Consumer |-> FreshConsumer]
        /\ restarts' = restarts + 1
        /\ UNCHANGED <<shape, cleanup, files, committed, sent, regroups, delivered, excused>>

LogInit ==
    /\ shape \in Shapes
    /\ cleanup \in {"compact", "retention_ms"}
    /\ parts = [p \in AllPartitions |-> [log |-> <<>>, base |-> 0]]
    /\ files = [p \in AllPartitions |-> <<>>]
    /\ committed = [p \in AllPartitions |-> None]
    /\ consumers = [c \in Consumer |-> FreshConsumer]
    /\ sent = 0 /\ regroups = 0 /\ restarts = 0 /\ delivered = {} /\ excused = {}

LogNext ==
    \/ \E p \in Partitions : \/ \E k \in PKey \cup {NoKey} : Send(p, k)
                             \/ \E n \in 1..MaxSends : EnforceRetention(p, n)
    \/ Compact \/ Restart
    \/ \E c \in Consumer :
          \/ \E reset \in {"earliest", "latest"} : Subscribe(c, reset) \/ Close(c, reset)
          \/ \E n \in 1..2, auto \in BOOLEAN : Poll(c, n, auto)
          \/ Commit(c)
          \/ \E p \in Partitions : Seek(c, p, 0)

LogSpec == LogInit /\ [][LogNext]_logVars

(***************************************************************************)
(* Properties                                                              *)
(***************************************************************************)

\* Every message below the committed offset of its partition, and below the
\* offset of its partition's owner, was returned by a poll in the group: joins,
\* departures, stale offsets of earlier owners, commits of partitions a consumer
\* no longer has, compaction, retention and restarts skip no message.
AtLeastOnce ==
    \A p \in Partitions : \A o \in DOMAIN parts[p].log :
        \/ parts[p].log[o].id \in delivered \cup excused
        \/ /\ committed[p] = None \/ o >= committed[p]
           /\ \A c \in Members : p \in consumers[c].assigned => o >= consumers[c].pos[p]

(***************************************************************************)
(* The inductive invariant                                                 *)
(***************************************************************************)

Sent == [id : Nat, key : PKey \cup {NoKey}]

\* A partition holds messages of its file at their places there, up to the last; the
\* others are among those gone, removed or passed over.  Only compaction leaves gaps.
PartitionInv(part, file, mode, gone) ==
    /\ part = [log |-> part.log, base |-> part.base] /\ part.base \in Nat
    /\ part.log = [o \in DOMAIN part.log |-> file[o + 1]]
    /\ DOMAIN part.log \subseteq part.base..(Len(file) - 1)
    /\ NextOffset(part) = Len(file)
    /\ mode = "retention_ms" => DOMAIN part.log = part.base..(Len(file) - 1)
    /\ \A o \in 0..(Len(file) - 1) : o \in DOMAIN part.log \/ file[o + 1].id \in gone

\* Every message of the file below offset n is among those done.
Accounted(file, n, done) ==
    n <= Len(file) /\ \A o \in 0..(n - 1) : file[o + 1].id \in done

BrokerTypes ==
    /\ shape \in Shapes /\ sent \in Nat
    /\ Partitions \subseteq AllPartitions /\ files \in [AllPartitions -> Seq(Sent)]
    /\ committed \in [AllPartitions -> Nat \cup {None}]
    /\ consumers \in [Consumer -> [member : BOOLEAN, assigned : SUBSET Partitions,
                                   pos : [AllPartitions -> Nat \cup {None}]]]
    /\ \A c \in Consumer : \A p \in consumers[c].assigned : consumers[c].pos[p] # None

\* Not only the offsets of the owner: those of earlier owners may be committed.
OffsetsAccounted ==
    \A p \in AllPartitions :
        /\ committed[p] # None => Accounted(files[p], committed[p], delivered \cup excused)
        /\ \A c \in Consumer : consumers[c].pos[p] # None =>
              Accounted(files[p], consumers[c].pos[p], delivered \cup excused)

BrokerInv ==
    /\ BrokerTypes /\ OffsetsAccounted
    /\ \A p \in Partitions : PartitionInv(parts[p], files[p], cleanup, excused)
=============================================================================
