------------------------------- MODULE EventStore -------------------------------
(***************************************************************************)
(* event-sourcing-store/event_store.py: EventStore, Projection and         *)
(* LiveProjection.                                                         *)
(*                                                                         *)
(* An event is its stream; its id is its place.  A projection's state is   *)
(* the ids its handlers saw, in order.  The file holds every event as soon *)
(* as it is in memory; snapshots are kept with the store object and go     *)
(* with it.                                                                *)
(***************************************************************************)
EXTENDS Integers, Sequences

CONSTANTS
    Stream,
    Polling, Live,  \* names of the projections, and of the live ones
    NoSnapshot,
    SnapshotInterval,
    MaxEvents,      \* bound: events
    MaxStops        \* bound: restarts

VARIABLES
    events,         \* _events, and the file
    proj,           \* Projection: _state, _position, _events_since_snapshot
    snaps,          \* _snapshots
    stops,          \* counted for the bound
    gapped          \* history: live projections that took an event while behind

eventVars == <<events, proj, snaps, stops, gapped>>

Projections == Polling \cup Live
NewProjection == [state |-> <<>>, pos |-> 0, since |-> 0]
StreamVersion(s) == Len(SelectSeq(events, LAMBDA e : e = s))

Snapshot(p, pr) == [state |-> pr.state, pos |-> pr.pos, gapped |-> gapped[p]]

\* One event through the handlers: the position, the count, and the snapshot when due.
Handled(acc, id) ==
    LET pr == [state |-> Append(acc.pr.state, id), pos |-> id, since |-> acc.pr.since + 1]
    IN  IF pr.since >= SnapshotInterval
        THEN [pr |-> [pr EXCEPT !.since = 0],
              snap |-> [state |-> pr.state, pos |-> id, gapped |-> acc.gap], gap |-> acc.gap]
        ELSE [acc EXCEPT !.pr = pr]

\* LiveProjection._on_event: an event that is not the next one is taken as well.
OnEvent(acc, id) ==
    IF id <= acc.pr.pos THEN acc
    ELSE Handled([acc EXCEPT !.gap = @ \/ id # acc.pr.pos + 1], id)

Account(p) == [pr |-> proj[p], snap |-> snaps[p], gap |-> gapped[p]]
SetAccounts(as) ==
    /\ proj' = [p \in Projections |-> as[p].pr]
    /\ snaps' = [p \in Projections |-> as[p].snap]
    /\ gapped' = [p \in Projections |-> as[p].gap]

\* The next n events, one after the other
Delivered(acc, n) ==
    LET after[i \in 0..n] == IF i = 0 THEN acc ELSE OnEvent(after[i - 1], Len(events) + i)
    IN  after[n]

\* append (n = 1) and append_batch: the expected version is checked, if one is
\* given, and the events are stored before the first is delivered.
AppendEvents(s, n, expected) ==
    /\ Len(events) + n <= MaxEvents
    /\ expected \in {StreamVersion(s), -1}
    /\ events' = events \o [i \in 1..n |-> s]
    /\ SetAccounts([p \in Projections |-> IF p \in Live THEN Delivered(Account(p), n) ELSE Account(p)])
    /\ UNCHANGED stops

\* The process stops, after storing n events of a batch, and starts with what the
\* file holds and projections made anew.
Stop(s, n) ==
    /\ stops < MaxStops /\ Len(events) + n <= MaxEvents
    /\ events' = events \o [i \in 1..n |-> s]
    /\ proj' = [p \in Projections |-> NewProjection]
    /\ snaps' = [p \in Projections |-> NoSnapshot]
    /\ gapped' = [p \in Projections |-> FALSE]
    /\ stops' = stops + 1

\* catch_up: what follows the position.
FromPosition_Inclusive(acc) == acc.pr.pos
FromPosition(acc) == acc.pr.pos + 1
CaughtUp(acc) ==
    LET after[id \in 0..Len(events)] ==
            IF id = 0 THEN acc
            ELSE IF id < FromPosition(acc) THEN after[id - 1] ELSE Handled(after[id - 1], id)
    IN  after[Len(events)]
CatchUp(p) ==
    /\ SetAccounts([q \in Projections |-> IF q = p THEN CaughtUp(Account(p)) ELSE Account(q)])
    /\ UNCHANGED <<events, stops>>

SaveSnapshot(p) ==
    /\ snaps' = [snaps EXCEPT ![p] = Snapshot(p, proj[p])]
    /\ UNCHANGED <<events, proj, stops, gapped>>

\* load_snapshot leaves _events_since_snapshot alone.
LoadSnapshot(p) ==
    /\ snaps[p] # NoSnapshot
    /\ proj' = [proj EXCEPT ![p].state = snaps[p].state, ![p].pos = snaps[p].pos]
    /\ gapped' = [gapped EXCEPT ![p] = snaps[p].gapped]
    /\ UNCHANGED <<events, snaps, stops>>

Reset(p) ==
    /\ proj' = [proj EXCEPT ![p] = NewProjection]
    /\ gapped' = [gapped EXCEPT ![p] = FALSE]
    /\ UNCHANGED <<events, snaps, stops>>

EventInit ==
    /\ events = <<>> /\ stops = 0
    /\ proj = [p \in Projections |-> NewProjection]
    /\ snaps = [p \in Projections |-> NoSnapshot]
    /\ gapped = [p \in Projections |-> FALSE]

EventNext ==
    \/ \E s \in Stream, n \in 1..2, e \in -1..MaxEvents : AppendEvents(s, n, e)
    \/ \E s \in Stream, n \in 0..2 : Stop(s, n)
    \/ \E p \in Projections : CatchUp(p) \/ SaveSnapshot(p) \/ LoadSnapshot(p) \/ Reset(p)

EventSpec == EventInit /\ [][EventNext]_eventVars

(***************************************************************************)
(* Properties                                                              *)
(***************************************************************************)

UpTo(n) == [i \in 1..n |-> i]

\* A projection, and each snapshot of one, reflects exactly the events up to its
\* position, each once and in order, through any mix of live events, catching up,
\* automatic and manual snapshots, loads, resets and restarts; but for a live
\* projection that was behind when an event came.
ProjectionsExact ==
    \A p \in Projections :
        /\ ~gapped[p] => proj[p].state = UpTo(proj[p].pos) /\ proj[p].pos <= Len(events)
        /\ snaps[p] # NoSnapshot /\ ~snaps[p].gapped => snaps[p].state = UpTo(snaps[p].pos)
        /\ p \in Polling => ~gapped[p]

(***************************************************************************)
(* The inductive invariant                                                 *)
(***************************************************************************)

Saved == [state : Seq(Nat), pos : Nat, gapped : BOOLEAN]
Accounts == [pr : [state : Seq(Nat), pos : Nat, since : Nat],
             snap : Saved \cup {NoSnapshot}, gap : BOOLEAN]

\* An account is exact when n events are stored.
Exact(acc, n) ==
    /\ acc \in Accounts
    /\ acc.pr.pos <= n /\ (~acc.gap => acc.pr.state = UpTo(acc.pr.pos))
    /\ acc.snap # NoSnapshot =>
          acc.snap.pos <= n /\ (~acc.snap.gapped => acc.snap.state = UpTo(acc.snap.pos))
NoGap(acc) == ~acc.gap /\ (acc.snap # NoSnapshot => ~acc.snap.gapped)

EventInv ==
    /\ events \in Seq(Stream)
    /\ DOMAIN proj = Projections /\ DOMAIN snaps = Projections /\ DOMAIN gapped = Projections
    /\ \A p \in Projections : Exact(Account(p), Len(events)) /\ (p \in Polling => NoGap(Account(p)))
=============================================================================
