---------------------------- MODULE LeaderFollower ----------------------------
(***************************************************************************)
(* leader-follower-replication/replication.py: LeaderNode, FollowerNode    *)
(* and ReadSession.                                                        *)
(*                                                                         *)
(* The leader applies an entry at its online followers inside put and      *)
(* delete, whatever their mode; a follower that was offline fetches what   *)
(* it missed from the leader's log, of which the last Retention entries    *)
(* are kept.  A follower can be promoted when the leader is gone.          *)
(***************************************************************************)
EXTENDS Integers, Sequences, FiniteSets, SequencesExt, FiniteSetsExt

CONSTANTS
    Follower,       \* followers, a set of integers in the order of registration
    LKey, LValue, NoValue,
    Modes,          \* sync modes; "sync" and "async" differ only in the promotion below
    Retention,      \* _log_retention
    MaxLsn          \* bound: writes

VARIABLES
    nextLsn, rlog, ldata,   \* LeaderNode: _next_lsn, _log, _data
    registered,             \* _followers: their modes, "none" when not registered
    online, applied, fdata, \* FollowerNode: _online, _applied_lsn, _data
    lastSeen,               \* ReadSession._last_seen_lsn
    past,                   \* history: the leader's data after each entry
    detached                \* history: followers the log of the leader did not reach

followerVars == <<nextLsn, rlog, ldata, registered, online, applied, fdata, lastSeen,
                  past, detached>>

Lsn == nextLsn - 1
NothingStored == [k \in LKey |-> NoValue]

\* get_log_entries: the entries after lsn, by their positions in the log.
LogEntries_FromLast(lsn) == {i \in DOMAIN rlog : rlog[i].lsn > lsn + 1}
LogEntries(lsn) == {i \in DOMAIN rlog : rlog[i].lsn > lsn}

\* apply_entries, of some of the log's: they are in the order of their numbers, so
\* the last for a key counts.  Gaps are not noticed.
DataAfter(d, is) ==
    [k \in LKey |-> LET on == {i \in is : rlog[i].key = k}
                    IN  IF on = {} THEN d[k] ELSE rlog[Max(on)].value]
LsnAfter(lsn, is) == IF is = {} THEN lsn ELSE rlog[Max(is)].lsn

\* _promote_async_to_semi_sync, when the semi-sync followers are all offline:
\* the most caught-up async follower, the first of several.
ModesAfterWrite(lsns) ==
    LET semi == {f \in Follower : registered[f] = "semi_sync"}
        async == {f \in Follower : registered[f] = "async" /\ online[f]}
        best == CHOOSE f \in async : \A g \in async :
                    lsns[f] > lsns[g] \/ (lsns[f] = lsns[g] /\ f <= g)
    IN  IF semi # {} /\ (\A f \in semi : ~online[f]) /\ async # {}
        THEN [registered EXCEPT ![best] = "semi_sync"] ELSE registered

Takes(f) == registered[f] # "none" /\ online[f]

\* put and delete: _append_log, _propagate, _trim_log.  A follower skips an entry
\* up to the one it applied last.
WriteEntry(k, v) ==
    LET e == [lsn |-> nextLsn, key |-> k, value |-> v]
        applies(f) == Takes(f) /\ e.lsn > applied[f]
        lsns == [f \in Follower |-> IF applies(f) THEN e.lsn ELSE applied[f]]
    IN  /\ nextLsn <= MaxLsn
        /\ nextLsn' = nextLsn + 1
        /\ rlog' = LET l == Append(rlog, e) IN SubSeq(l, Max({1, Len(l) - Retention + 1}), Len(l))
        /\ ldata' = [ldata EXCEPT ![k] = v]
        /\ past' = [past EXCEPT ![nextLsn] = ldata']
        /\ applied' = lsns
        /\ fdata' = [f \in Follower |->
                        IF applies(f) THEN [fdata[f] EXCEPT ![k] = v] ELSE fdata[f]]
        /\ registered' = ModesAfterWrite(lsns)
        /\ UNCHANGED <<online, lastSeen, detached>>

\* Whether the next entry the follower gets is the one after its last.
Reached(f) == applied[f] = Lsn \/ ~online[f]

AddFollower(f, m) ==
    /\ registered[f] = "none"
    /\ registered' = [registered EXCEPT ![f] = m]
    /\ detached' = IF Reached(f) THEN detached ELSE detached \cup {f}
    /\ UNCHANGED <<nextLsn, rlog, ldata, online, applied, fdata, lastSeen, past>>

RemoveFollower(f) ==
    /\ registered[f] # "none"
    /\ registered' = [registered EXCEPT ![f] = "none"]
    /\ UNCHANGED <<nextLsn, rlog, ldata, online, applied, fdata, lastSeen, past, detached>>

GoOffline(f) ==
    /\ online[f]
    /\ online' = [online EXCEPT ![f] = FALSE]
    /\ UNCHANGED <<nextLsn, rlog, ldata, registered, applied, fdata, lastSeen, past, detached>>

ComeOnline(f) ==
    /\ ~online[f]
    /\ online' = [online EXCEPT ![f] = TRUE]
    /\ applied' = [applied EXCEPT ![f] = LsnAfter(@, LogEntries(@))]
    /\ fdata' = [fdata EXCEPT ![f] = DataAfter(@, LogEntries(applied[f]))]
    /\ detached' = IF applied[f] < Lsn /\ ~\E i \in DOMAIN rlog : rlog[i].lsn = applied[f] + 1
                   THEN detached \cup {f} ELSE detached
    /\ UNCHANGED <<nextLsn, rlog, ldata, registered, lastSeen, past>>

\* The leader is gone; an online follower becomes a leader with an empty log and
\* no followers.  Its node serves no reads any more.
PromoteToLeader(f) ==
    /\ Takes(f)
    /\ nextLsn' = applied[f] + 1
    /\ rlog' = <<>>
    /\ ldata' = fdata[f]
    /\ past' = [past EXCEPT ![applied[f]] = fdata[f]]
    /\ registered' = [g \in Follower |-> "none"]
    /\ online' = [online EXCEPT ![f] = FALSE]
    /\ detached' = detached \cup {f} \cup
          {g \in Follower : \/ applied[g] > applied[f]
                            \/ applied[g] = applied[f] /\ fdata[g] # fdata[f]}
    /\ UNCHANGED <<applied, fdata, lastSeen>>

\* ReadSession.read: the first online follower that has what was seen before, or
\* the most advanced one.
Current(f) == online[f] /\ applied[f] >= lastSeen
SessionRead ==
    LET ready == {f \in Follower : Current(f)}
        best == IF ready # {} THEN applied[Min(ready)]
                ELSE Max({applied[f] : f \in {g \in Follower : online[g]}})
    IN  /\ \E f \in Follower : online[f]
        /\ lastSeen' = best
        /\ UNCHANGED <<nextLsn, rlog, ldata, registered, online, applied, fdata, past, detached>>

FollowerInit ==
    /\ nextLsn = 1 /\ rlog = <<>> /\ ldata = NothingStored
    /\ registered = [f \in Follower |-> "none"]
    /\ online = [f \in Follower |-> TRUE]
    /\ applied = [f \in Follower |-> 0] /\ fdata = [f \in Follower |-> NothingStored]
    /\ lastSeen = 0 /\ past = [l \in 0..MaxLsn |-> NothingStored] /\ detached = {}

FollowerNext ==
    \/ \E k \in LKey, v \in LValue \cup {NoValue} : WriteEntry(k, v)
    \/ \E f \in Follower : \/ \E m \in Modes : AddFollower(f, m)
                           \/ RemoveFollower(f) \/ GoOffline(f) \/ ComeOnline(f)
                           \/ PromoteToLeader(f)
    \/ SessionRead

FollowerSpec == FollowerInit /\ [][FollowerNext]_followerVars

(***************************************************************************)
(* Properties                                                              *)
(***************************************************************************)

\* A follower shows what the leader had after the follower's last entry, and an
\* online registered one has every entry, through any changes of mode, absences
\* and removals; but for followers that the log no longer reached, or did not
\* reach when they were registered or their leader was promoted.
FollowersShowPast ==
    \A f \in Follower \ detached :
        /\ applied[f] <= Lsn /\ fdata[f] = past[applied[f]]
        /\ Takes(f) => applied[f] = Lsn

(***************************************************************************)
(* The inductive invariant                                                 *)
(***************************************************************************)

LValues == LValue \cup {NoValue}
LEntry == [lsn : Nat, key : LKey, value : LValues]
FollowerTypes ==
    /\ nextLsn \in 1..(MaxLsn + 1) /\ rlog \in Seq(LEntry)
    /\ ldata \in [LKey -> LValues] /\ past \in [0..MaxLsn -> [LKey -> LValues]]
    /\ applied \in [Follower -> 0..MaxLsn] /\ fdata \in [Follower -> [LKey -> LValues]]
    /\ DOMAIN registered = Follower /\ DOMAIN online = Follower

\* The log ends with the last entry and has no gaps, and it leads from what the
\* leader had before any of its entries to what it has now: the last entry for a
\* key has its value, and a key without one has not changed.
LogLeadsHere ==
    /\ Len(rlog) <= Lsn /\ \A i \in DOMAIN rlog : rlog[i].lsn = Lsn - Len(rlog) + i
    /\ past[Lsn] = ldata
    /\ \A i \in DOMAIN rlog : \/ rlog[i].value = ldata[rlog[i].key]
                              \/ \E j \in DOMAIN rlog : j > i /\ rlog[j].key = rlog[i].key
    /\ \A l \in (Lsn - Len(rlog))..Lsn, k \in LKey :
          \/ past[l][k] = ldata[k]
          \/ \E i \in LogEntries(l) : rlog[i].key = k

FollowerInv == FollowerTypes /\ LogLeadsHere /\ FollowersShowPast
=============================================================================
