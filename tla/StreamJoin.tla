------------------------------ MODULE StreamJoin ------------------------------
(***************************************************************************)
(* stream-join-processor/stream_join_processor.py: StreamJoinProcessor,    *)
(* and a TumblingWindowAggregator as its on_result.                        *)
(*                                                                         *)
(* An event is its index in the history; a result is the pair of its       *)
(* events, 0 for the missing side of a miss.  Timestamps are 0 and above,  *)
(* so that -1 serves as the first watermark.  The aggregator is never      *)
(* advanced past the watermark of the join that feeds it.                  *)
(***************************************************************************)
EXTENDS Integers, Sequences, FiniteSets, Bags, FiniteSetsExt

CONSTANTS
    JKey,           \* join keys
    Duration,       \* duration of the join window
    Latenesses,     \* values of allowed_lateness
    WindowSize,     \* window_seconds of the aggregator
    MaxArrivals,    \* bound: events
    MaxTs           \* bound: timestamps

VARIABLES
    joinType,       \* _join_type
    lateness,       \* _allowed_lateness
    arrived,        \* history: the events [side, key, ts, late]
    buffered,       \* _left_buffer and _right_buffer
    matched,        \* the buffered events with matched set
    watermark,      \* _watermark
    emitted,        \* history: bag of the results
    aggregating,    \* _windows: the results of the windows still open
    closed          \* history: bag of the windows returned by advance_time

joinVars == <<joinType, lateness, arrived, buffered, matched, watermark, emitted, aggregating, closed>>

Added(bag, new) == bag (+) SetToBag(new)

(***************************************************************************)
(* TumblingWindowAggregator                                                *)
(***************************************************************************)

KeyOf(evs, r) == evs[Max({r[1], r[2]})].key
JoinTime(evs, r) == Max({evs[i].ts : i \in {r[1], r[2]} \ {0}})
WindowStart(t) == (t \div WindowSize) * WindowSize
WindowOf(evs, r) == <<KeyOf(evs, r), WindowStart(JoinTime(evs, r))>>

Complete(w, t) == w[2] + WindowSize <= WindowStart(t)

\* advance_time of the aggregator
CloseWindows(t) ==
    LET done == {r \in aggregating : Complete(WindowOf(arrived, r), t)}
    IN  /\ t <= watermark
        /\ closed' = Added(closed, {WindowOf(arrived, r) : r \in done})
        /\ aggregating' = aggregating \ done
        /\ UNCHANGED <<joinType, lateness, arrived, buffered, matched, watermark, emitted>>

(***************************************************************************)
(* StreamJoinProcessor                                                     *)
(***************************************************************************)

InWindow(e, f) == Max({e.ts - f.ts, f.ts - e.ts}) <= Duration

\* _expire_events: what is older than the window leaves the buffers; without a
\* match it is a miss of an outer join.
Expired_Inclusive(evs, buf, wm) == {i \in buf : evs[i].ts <= wm - Duration}
Expired(evs, buf, wm) == {i \in buf : evs[i].ts < wm - Duration}
EmitsMiss(type, e) == type = "full_outer" \/ (type = "left" /\ e.side = "left")
Miss(evs, i) == IF evs[i].side = "left" THEN <<i, 0>> ELSE <<0, i>>
Expire(evs, buf, hit, results, wm) ==
    LET old    == Expired(evs, buf, wm)
        misses == {Miss(evs, i) : i \in {j \in old \ hit : EmitsMiss(joinType, evs[j])}}
    IN  /\ watermark' = wm
        /\ buffered' = buf \ old
        /\ matched' = hit \ old
        /\ emitted' = Added(Added(emitted, results), misses)
        /\ aggregating' = aggregating \cup results \cup misses
        /\ UNCHANGED <<joinType, lateness, closed>>

IsLate(ts) == ts < watermark - lateness

\* process_event: the event is matched with the other buffer before the watermark
\* moves.
Partners(e) == {i \in buffered : /\ arrived[i].side # e.side /\ arrived[i].key = e.key
                                 /\ InWindow(arrived[i], e)}
ProcessEvent(side, key, ts) ==
    LET e     == [side |-> side, key |-> key, ts |-> ts, late |-> IsLate(ts)]
        n     == Len(arrived) + 1
        found == Partners(e)
        pairs == {IF side = "left" THEN <<n, i>> ELSE <<i, n>> : i \in found}
    IN  /\ n <= MaxArrivals
        /\ arrived' = Append(arrived, e)
        /\ IF e.late
           THEN UNCHANGED <<joinType, lateness, buffered, matched, watermark, emitted, aggregating, closed>>
           ELSE Expire(arrived', buffered \cup {n},
                       matched \cup found \cup (IF found = {} THEN {} ELSE {n}),
                       pairs, Max({watermark, ts}))

\* advance_time of the processor
AdvanceTime(ts) ==
    /\ ts > watermark
    /\ UNCHANGED arrived
    /\ Expire(arrived, buffered, matched, {}, ts)

JoinInit ==
    /\ joinType \in {"inner", "left", "full_outer"}
    /\ lateness \in Latenesses
    /\ arrived = <<>> /\ buffered = {} /\ matched = {} /\ watermark = -1
    /\ emitted = EmptyBag /\ aggregating = {} /\ closed = EmptyBag

JoinNext ==
    \E t \in 0..MaxTs :
       \/ \E side \in {"left", "right"}, key \in JKey : ProcessEvent(side, key, t)
       \/ AdvanceTime(t)
       \/ CloseWindows(t)

JoinSpec == JoinInit /\ [][JoinNext]_joinVars

(***************************************************************************)
(* Properties                                                              *)
(***************************************************************************)

Results == BagToSet(emitted)
Taken(evs) == {i \in DOMAIN evs : ~evs[i].late}
Joins(evs) == {r \in Taken(evs) \X Taken(evs) :
                  /\ evs[r[1]].side = "left" /\ evs[r[2]].side = "right"
                  /\ evs[r[1]].key = evs[r[2]].key
                  /\ InWindow(evs[r[1]], evs[r[2]])}
InPair(evs, results, i) == \E r \in results \cap Joins(evs) : i \in {r[1], r[2]}
Missed(evs, results, i) == Miss(evs, i) \in results

\* The join of what was accepted: a result is emitted once and is a pair within the
\* window or a miss; an event reported as a miss is in no pair, and one that is
\* neither in a pair nor reported is still buffered.  Without lateness no pair is
\* left out.
ResultsAreJoin ==
    /\ \A r \in Results : emitted[r] = 1 /\ (r \in Joins(arrived) \/ 0 \in {r[1], r[2]})
    /\ \A i \in Taken(arrived) :
          /\ Missed(arrived, Results, i) => ~InPair(arrived, Results, i) /\ i \notin buffered
          /\ EmitsMiss(joinType, arrived[i]) =>
                InPair(arrived, Results, i) \/ Missed(arrived, Results, i) \/ i \in buffered
    /\ lateness = 0 => Joins(arrived) \subseteq Results

\* The windows of an inner join without lateness are complete when they close: none
\* is opened again.
WindowsCloseOnce ==
    joinType = "inner" /\ lateness = 0 =>
       \A w \in BagToSet(closed) : /\ closed[w] = 1
                                   /\ \A r \in aggregating : WindowOf(arrived, r) # w

(***************************************************************************)
(* The inductive invariant                                                 *)
(***************************************************************************)

Arrival == [side : {"left", "right"}, key : JKey, ts : Int, late : BOOLEAN]

\* The buffers and what was emitted so far: an event that left its buffer is too
\* old for any event to come, and has been in a pair or reported as the type of
\* join asks; the mark of a buffered event says whether it has been in a pair.
JoinState(type, late, evs, buf, hit, results, wm) ==
    /\ evs \in Seq(Arrival) /\ wm \in Int /\ buf \subseteq Taken(evs) /\ hit \subseteq buf
    /\ \A r \in results : \/ r \in Joins(evs)
                          \/ \E i \in Taken(evs) \ buf : r = Miss(evs, i) /\ ~InPair(evs, results, i)
    /\ \A i \in buf : i \in hit <=> InPair(evs, results, i)
    /\ \A i \in Taken(evs) \ buf :
          /\ evs[i].ts < wm - Duration
          /\ EmitsMiss(type, evs[i]) => InPair(evs, results, i) \/ Missed(evs, results, i)
    /\ late = 0 => Joins(evs) \subseteq results

\* Results wait in windows that are open; a closed window ended at the watermark or
\* before it.
WindowState(evs, results, wm, windows) ==
    /\ results \subseteq Joins(evs)
    /\ \A w \in windows : /\ w[2] \in Int /\ Complete(w, wm)
                          /\ \A r \in results : WindowOf(evs, r) # w

JoinInv ==
    /\ lateness \in Latenesses
    /\ JoinState(joinType, lateness, arrived, buffered, matched, Results, watermark)
    /\ \A r \in Results : emitted[r] = 1
    /\ joinType = "inner" /\ lateness = 0 =>
          /\ WindowState(arrived, aggregating, watermark, BagToSet(closed))
          /\ \A w \in BagToSet(closed) : closed[w] = 1
=============================================================================
