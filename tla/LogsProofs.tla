------------------------------ MODULE LogsProofs ------------------------------
(***************************************************************************)
(* The log-based components, for every value of their constants.  In turn: *)
(* the results of stream-join-processor are the windowed join of the       *)
(* events accepted; the projections of event-sourced-store are what the    *)
(* log says; the derived systems of change-data-capture agree with its     *)
(* log; a consumer group of partitioned-log skips no message.              *)
(***************************************************************************)
EXTENDS MCLogs, NumberLemmas

(***************************************************************************)
(* Windows and events                                                      *)
(***************************************************************************)

LEMMA MaxOfTwo ==
  ASSUME NEW a \in Int, NEW b \in Int
  PROVE  /\ SJ!Max({a, b}) \in {a, b}
         /\ SJ!Max({a, b}) >= a /\ SJ!Max({a, b}) >= b
<1>1. \E x \in {a, b} : \A y \in {a, b} : x >= y
  <2>1. CASE a >= b
    BY <2>1
  <2>2. CASE b >= a
    BY <2>2
  <2> QED
    BY <2>1, <2>2
<1> QED
  BY <1>1 DEF SJ!Max

LEMMA WindowBothWays ==
  ASSUME NEW e, NEW f, e.ts \in Int, f.ts \in Int
  PROVE  SJ!InWindow(e, f) <=> e.ts - f.ts =< Duration /\ f.ts - e.ts =< Duration
<1>1. PICK a \in Int : a = e.ts - f.ts
  OBVIOUS
<1>2. PICK b \in Int : b = f.ts - e.ts
  OBVIOUS
<1>3. SJ!InWindow(e, f) <=> SJ!Max({a, b}) =< Duration
  BY <1>1, <1>2 DEF SJ!InWindow
<1>4. /\ SJ!Max({a, b}) \in {a, b}
      /\ SJ!Max({a, b}) >= a /\ SJ!Max({a, b}) >= b
  BY MaxOfTwo
<1> HIDE DEF SJ!Max
<1>5. SJ!Max({a, b}) =< Duration <=> a =< Duration /\ b =< Duration
  BY <1>4, JoinAssumption
<1> QED
  BY <1>1, <1>2, <1>3, <1>5

LEMMA TakenEvents ==
  ASSUME NEW evs \in Seq(SJ!Arrival), NEW i \in SJ!Taken(evs)
  PROVE  /\ i \in 1..Len(evs) /\ i \in Int /\ i # 0 /\ evs[i] \in SJ!Arrival
         /\ evs[i].ts \in Int /\ evs[i].side \in {"left", "right"}
<1>1. i \in 1..Len(evs) /\ Len(evs) \in Nat
  BY DEF SJ!Taken
<1>2. evs[i] \in SJ!Arrival
  BY <1>1
<1> QED
  BY <1>1, <1>2 DEF SJ!Arrival

(* A miss names no pair, and tells which event it is of.                    *)
LEMMA MissIsNoPair ==
  ASSUME NEW evs \in Seq(SJ!Arrival), NEW i \in SJ!Taken(evs)
  PROVE  /\ SJ!Miss(evs, i) \notin SJ!Joins(evs)
         /\ 0 \in {SJ!Miss(evs, i)[1], SJ!Miss(evs, i)[2]}
         /\ \A k \in SJ!Taken(evs) : SJ!Miss(evs, i) = SJ!Miss(evs, k) => i = k
<1>1. SJ!Miss(evs, i) = <<i, 0>> \/ SJ!Miss(evs, i) = <<0, i>>
  BY DEF SJ!Miss
<1>2. \A k \in SJ!Taken(evs) : SJ!Miss(evs, k) = <<k, 0>> \/ SJ!Miss(evs, k) = <<0, k>>
  BY DEF SJ!Miss
<1>3. \A k \in SJ!Taken(evs) : k # 0
  BY TakenEvents
<1>4. \A r \in SJ!Joins(evs) : r[1] # 0 /\ r[2] # 0
  BY <1>3 DEF SJ!Joins
<1>5. SJ!Miss(evs, i) \notin SJ!Joins(evs)
  BY <1>1, <1>4
<1>6. ASSUME NEW k \in SJ!Taken(evs), SJ!Miss(evs, i) = SJ!Miss(evs, k) PROVE i = k
  BY <1>1, <1>2, <1>3, <1>6
<1> QED
  BY <1>1, <1>5, <1>6

LEMMA Arrives ==
  ASSUME NEW evs \in Seq(SJ!Arrival), NEW e \in SJ!Arrival
  PROVE  /\ Append(evs, e) \in Seq(SJ!Arrival)
         /\ Len(evs) + 1 \notin SJ!Taken(evs) /\ Len(evs) + 1 # 0
         /\ Append(evs, e)[Len(evs) + 1] = e
         /\ \A i \in SJ!Taken(evs) : Append(evs, e)[i] = evs[i]
         /\ SJ!Taken(Append(evs, e)) = IF e.late THEN SJ!Taken(evs)
                                       ELSE SJ!Taken(evs) \cup {Len(evs) + 1}
         /\ \A i \in SJ!Taken(evs) : SJ!Miss(Append(evs, e), i) = SJ!Miss(evs, i)
         /\ \A r \in SJ!Taken(evs) \X SJ!Taken(evs) :
              r \in SJ!Joins(Append(evs, e)) <=> r \in SJ!Joins(evs)
<1>1. PICK w : w = Append(evs, e)
  OBVIOUS
<1>2. PICK n : n = Len(evs) + 1
  OBVIOUS
<1>3. /\ w \in Seq(SJ!Arrival) /\ Len(evs) \in Nat /\ n \in Nat \ {0}
      /\ DOMAIN evs = 1..Len(evs) /\ DOMAIN w = 1..n
      /\ w[n] = e /\ \A i \in 1..Len(evs) : w[i] = evs[i]
  BY <1>1, <1>2
<1>4. \A i \in SJ!Taken(evs) : i \in 1..Len(evs)
  BY TakenEvents
<1>5. n \notin SJ!Taken(evs)
  BY <1>2, <1>3, <1>4
<1>6. \A i \in SJ!Taken(evs) : w[i] = evs[i]
  BY <1>3, <1>4
<1>7. \A i : i \in DOMAIN w <=> i \in DOMAIN evs \/ i = n
  BY <1>2, <1>3
<1>8. \A i : i \in SJ!Taken(w) <=> i \in SJ!Taken(evs) \/ (i = n /\ ~e.late)
  BY <1>3, <1>7 DEF SJ!Taken
<1>9. SJ!Taken(w) = IF e.late THEN SJ!Taken(evs) ELSE SJ!Taken(evs) \cup {n}
  BY <1>8
<1>10. \A i \in SJ!Taken(evs) : SJ!Miss(w, i) = SJ!Miss(evs, i)
  BY <1>6 DEF SJ!Miss
<1>11. ASSUME NEW r \in SJ!Taken(evs) \X SJ!Taken(evs)
       PROVE  r \in SJ!Joins(w) <=> r \in SJ!Joins(evs)
  <2>1. w[r[1]] = evs[r[1]] /\ w[r[2]] = evs[r[2]]
    BY <1>6
  <2>2. r \in SJ!Taken(w) \X SJ!Taken(w)
    BY <1>8
  <2> QED
    BY <2>1, <2>2 DEF SJ!Joins
<1> QED
  BY <1>1, <1>2, <1>3, <1>5, <1>6, <1>9, <1>10, <1>11

LEMMA AddedOnce ==
  ASSUME NEW B, \A r \in DOMAIN B : B[r] = 1, NEW S, S \cap DOMAIN B = {}
  PROVE  /\ DOMAIN SJ!Added(B, S) = DOMAIN B \cup S
         /\ \A r \in DOMAIN B \cup S : SJ!Added(B, S)[r] = 1
<1>1. \A r : r \in DOMAIN B => r \notin S
  OBVIOUS
<1> QED
  BY <1>1 DEF SJ!Added, SJ!SetToBag, SJ!(+)

(***************************************************************************)
(* What a step does to the buffers and the results                         *)
(***************************************************************************)

(* The parts of the results: pairs of accepted events, and misses.         *)
LEMMA ResultParts ==
  ASSUME NEW type, NEW late, NEW evs, NEW buf, NEW hit, NEW R, NEW wm,
         SJ!JoinState(type, late, evs, buf, hit, R, wm)
  PROVE  /\ evs \in Seq(SJ!Arrival) /\ wm \in Int
         /\ buf \subseteq SJ!Taken(evs) /\ hit \subseteq buf
         /\ \A r \in R : \/ r \in SJ!Joins(evs)
                         \/ \E i \in SJ!Taken(evs) \ buf :
                               r = SJ!Miss(evs, i) /\ ~SJ!InPair(evs, R, i)
         /\ \A i \in buf : i \in hit <=> SJ!InPair(evs, R, i)
         /\ \A i \in SJ!Taken(evs) \ buf :
              /\ evs[i].ts < wm - Duration
              /\ SJ!EmitsMiss(type, evs[i]) => SJ!InPair(evs, R, i) \/ SJ!Missed(evs, R, i)
         /\ late = 0 => SJ!Joins(evs) \subseteq R
BY DEF SJ!JoinState

(* An event that came too late changes nothing but the history.            *)
LEMMA LateKeeps ==
  ASSUME NEW type, NEW late, NEW evs, NEW buf, NEW hit, NEW R, NEW wm,
         SJ!JoinState(type, late, evs, buf, hit, R, wm),
         NEW e \in SJ!Arrival, e.late
  PROVE  SJ!JoinState(type, late, Append(evs, e), buf, hit, R, wm)
<1>1. PICK w : w = Append(evs, e)
  OBVIOUS
<1>2. evs \in Seq(SJ!Arrival)
  BY ResultParts
<1>3. /\ w \in Seq(SJ!Arrival) /\ SJ!Taken(w) = SJ!Taken(evs)
      /\ \A i \in SJ!Taken(evs) : w[i] = evs[i] /\ SJ!Miss(w, i) = SJ!Miss(evs, i)
      /\ \A r \in SJ!Taken(evs) \X SJ!Taken(evs) : r \in SJ!Joins(w) <=> r \in SJ!Joins(evs)
  BY <1>1, <1>2, Arrives
<1>4. SJ!Joins(w) \subseteq SJ!Taken(evs) \X SJ!Taken(evs)
      /\ SJ!Joins(evs) \subseteq SJ!Taken(evs) \X SJ!Taken(evs)
  BY <1>3 DEF SJ!Joins
<1>5. SJ!Joins(w) = SJ!Joins(evs)
  BY <1>3, <1>4
<1>6. \A i : SJ!InPair(w, R, i) <=> SJ!InPair(evs, R, i)
  BY <1>5 DEF SJ!InPair
<1>7. \A i \in SJ!Taken(evs) : SJ!Missed(w, R, i) <=> SJ!Missed(evs, R, i)
  BY <1>3 DEF SJ!Missed
<1> QED
  BY <1>1, <1>3, <1>5, <1>6, <1>7 DEF SJ!JoinState

(* The misses among the unmatched events that leave the buffers.           *)
Reported(type, evs, out) == {SJ!Miss(evs, i) : i \in {j \in out : SJ!EmitsMiss(type, evs[j])}}

(* What leaves the buffers when the watermark moves on is reported if it    *)
(* was in no pair; nothing is reported twice.                               *)
LEMMA ExpireKeeps ==
  ASSUME NEW type, NEW late, NEW evs, NEW buf, NEW hit, NEW R, NEW wm \in Int,
         SJ!JoinState(type, late, evs, buf, hit, R, wm),
         NEW new \in Int, new >= wm, NEW old, old = SJ!Expired(evs, buf, new),
         NEW misses, misses = Reported(type, evs, old \ hit)
  PROVE  SJ!JoinState(type, late, evs, buf \ old, hit \ old, R \cup misses, new)
<1>10. /\ \A r \in misses : \E i \in old \ hit : r = SJ!Miss(evs, i)
       /\ \A i \in old \ hit : SJ!EmitsMiss(type, evs[i]) => SJ!Miss(evs, i) \in misses
  BY DEF Reported
<1>1. /\ evs \in Seq(SJ!Arrival) /\ wm \in Int
      /\ buf \subseteq SJ!Taken(evs) /\ hit \subseteq buf
  BY ResultParts
<1>2. old \subseteq buf /\ \A i \in old : evs[i].ts < new - Duration
  BY DEF SJ!Expired
<1>3. ASSUME NEW r \in misses PROVE r \notin SJ!Joins(evs)
  <2>1. PICK i \in old : r = SJ!Miss(evs, i)
    BY <1>10
  <2>2. i \in SJ!Taken(evs)
    BY <1>1, <1>2
  <2> QED
    BY <1>1, <2>1, <2>2, MissIsNoPair
<1>4. \A i : SJ!InPair(evs, R \cup misses, i) <=> SJ!InPair(evs, R, i)
  BY <1>3 DEF SJ!InPair
<1>5. ASSUME NEW r \in R \cup misses
      PROVE  \/ r \in SJ!Joins(evs)
             \/ \E i \in SJ!Taken(evs) \ (buf \ old) :
                   r = SJ!Miss(evs, i) /\ ~SJ!InPair(evs, R \cup misses, i)
  <2>1. CASE r \in R
    <3>1. CASE r \in SJ!Joins(evs)
      BY <3>1
    <3>2. CASE r \notin SJ!Joins(evs)
      <4>1. PICK i \in SJ!Taken(evs) \ buf : r = SJ!Miss(evs, i) /\ ~SJ!InPair(evs, R, i)
        BY <2>1, <3>2, ResultParts
      <4> QED
        BY <1>4, <4>1
    <3> QED
      BY <3>1, <3>2
  <2>2. CASE r \in misses
    <3>1. PICK i \in old \ hit : r = SJ!Miss(evs, i)
      BY <1>10, <2>2
    <3>2. ~SJ!InPair(evs, R, i)
      BY <1>2, ResultParts
    <3> QED
      BY <1>1, <1>2, <1>4, <3>1, <3>2
  <2> QED
    BY <2>1, <2>2
<1>0. \A i \in buf : i \in hit <=> SJ!InPair(evs, R, i)
  BY ResultParts
<1>6. \A i \in buf \ old : i \in hit \ old <=> SJ!InPair(evs, R \cup misses, i)
  BY <1>0, <1>4
<1>7. ASSUME NEW i \in SJ!Taken(evs) \ (buf \ old)
      PROVE  /\ evs[i].ts < new - Duration
             /\ SJ!EmitsMiss(type, evs[i]) =>
                  SJ!InPair(evs, R \cup misses, i) \/ SJ!Missed(evs, R \cup misses, i)
  <2>1. CASE i \in old
    <3>1. CASE i \in hit
      BY <1>0, <1>1, <1>2, <1>4, <2>1, <3>1
    <3>2. CASE i \notin hit
      <4>1. SJ!EmitsMiss(type, evs[i]) => SJ!Miss(evs, i) \in misses
        BY <1>10, <2>1, <3>2
      <4> QED
        BY <1>2, <2>1, <4>1 DEF SJ!Missed
    <3> QED
      BY <3>1, <3>2
  <2>2. CASE i \notin old
    <3>1. /\ evs[i].ts < wm - Duration
          /\ SJ!EmitsMiss(type, evs[i]) => SJ!InPair(evs, R, i) \/ SJ!Missed(evs, R, i)
      BY <2>2, ResultParts
    <3>2. evs[i].ts \in Int
      BY <1>1, TakenEvents
    <3>3. evs[i].ts < new - Duration
      BY <1>1, <3>1, <3>2, JoinAssumption
    <3> QED
      BY <1>4, <3>1, <3>3 DEF SJ!Missed
  <2> QED
    BY <2>1, <2>2
<1>8. late = 0 => SJ!Joins(evs) \subseteq R \cup misses
  BY ResultParts
<1> QED
  BY <1>1, <1>5, <1>6, <1>7, <1>8 DEF SJ!JoinState

LEMMA MissesAreNew ==
  ASSUME NEW type, NEW late, NEW evs, NEW buf, NEW hit, NEW R, NEW wm,
         SJ!JoinState(type, late, evs, buf, hit, R, wm),
         NEW old \in SUBSET buf, NEW r \in Reported(type, evs, old \ hit)
  PROVE  r \notin R
<1> SUFFICES ASSUME r \in R PROVE FALSE
  OBVIOUS
<1>1. evs \in Seq(SJ!Arrival) /\ buf \subseteq SJ!Taken(evs)
  BY ResultParts
<1>2. PICK i \in old : r = SJ!Miss(evs, i)
  BY DEF Reported
<1>3. i \in buf /\ i \in SJ!Taken(evs)
  BY <1>1
<1>4. r \notin SJ!Joins(evs)
  BY <1>1, <1>2, <1>3, MissIsNoPair
<1>5. PICK k \in SJ!Taken(evs) \ buf : r = SJ!Miss(evs, k)
  BY <1>4, ResultParts
<1>6. i = k
  BY <1>1, <1>2, <1>3, <1>5, MissIsNoPair
<1> QED
  BY <1>3, <1>6

(* The partners of a new event in the buffers, the pairs it makes with      *)
(* them, and what is new about these pairs.                                 *)
PartnersOf(evs, buf, e) ==
    {i \in buf : /\ evs[i].side # e.side /\ evs[i].key = e.key
                 /\ SJ!InWindow(evs[i], e)}
PairsWith(e, n, found) == {IF e.side = "left" THEN <<n, i>> ELSE <<i, n>> : i \in found}
NewPairs(evs, R, n, pairs) ==
    /\ pairs \cap R = {} /\ pairs \subseteq SJ!Joins(evs)
    /\ \A r \in pairs : n \in {r[1], r[2]}

\* An event that is accepted
OnTime(e, wm, late) == ~e.late /\ ~(e.ts < wm - late)

\* Event e arrives as number n and finds its partners: the events, the pairs, the
\* buffer and the marks there are then.
Accepted(evs, buf, hit, e, n, w, found, pairs, buf2, hit2) ==
    /\ n = Len(evs) + 1 /\ w = Append(evs, e)
    /\ found = PartnersOf(evs, buf, e) /\ pairs = PairsWith(e, n, found)
    /\ buf2 = buf \cup {n} /\ hit2 = hit \cup found \cup (IF found = {} THEN {} ELSE {n})

(* An accepted event makes a pair with every partner still buffered, and,   *)
(* without lateness, no partner has left: it would be out of the window.    *)
LEMMA ArriveKeeps ==
  ASSUME NEW type, NEW late \in Int, NEW evs, NEW buf, NEW hit, NEW R, NEW wm,
         SJ!JoinState(type, late, evs, buf, hit, R, wm),
         NEW e \in SJ!Arrival, OnTime(e, wm, late),
         NEW n, NEW w, NEW found, NEW pairs, NEW buf2, NEW hit2,
         Accepted(evs, buf, hit, e, n, w, found, pairs, buf2, hit2)
  PROVE  SJ!JoinState(type, late, w, buf2, hit2, R \cup pairs, wm) /\ NewPairs(w, R, n, pairs)
<1> /\ n = Len(evs) + 1 /\ w = Append(evs, e)
    /\ found = PartnersOf(evs, buf, e) /\ pairs = PairsWith(e, n, found)
  BY DEF Accepted
<1> SUFFICES /\ SJ!JoinState(type, late, w, buf \cup {n},
                             hit \cup found \cup (IF found = {} THEN {} ELSE {n}), R \cup pairs, wm)
             /\ NewPairs(w, R, n, pairs)
  BY DEF Accepted
<1> ~e.late /\ ~(e.ts < wm - late)
  BY DEF OnTime
<1> found = {i \in buf : /\ evs[i].side # e.side /\ evs[i].key = e.key
                         /\ SJ!InWindow(evs[i], e)}
  BY DEF PartnersOf
<1> pairs = {IF e.side = "left" THEN <<n, i>> ELSE <<i, n>> : i \in found}
  BY DEF PairsWith
<1>1. /\ evs \in Seq(SJ!Arrival) /\ wm \in Int
      /\ buf \subseteq SJ!Taken(evs) /\ hit \subseteq buf
  BY ResultParts
<1>2. /\ w \in Seq(SJ!Arrival)
      /\ n \notin SJ!Taken(evs) /\ n # 0 /\ w[n] = e
      /\ \A i \in SJ!Taken(evs) : w[i] = evs[i] /\ SJ!Miss(w, i) = SJ!Miss(evs, i)
      /\ SJ!Taken(w) = SJ!Taken(evs) \cup {n}
      /\ \A r \in SJ!Taken(evs) \X SJ!Taken(evs) : r \in SJ!Joins(w) <=> r \in SJ!Joins(evs)
  <2>1. /\ w \in Seq(SJ!Arrival)
        /\ n \notin SJ!Taken(evs) /\ n # 0 /\ w[n] = e
    <3>1. w \in Seq(SJ!Arrival) /\ n \notin SJ!Taken(evs)
      BY <1>1, Arrives
    <3>2. n # 0 /\ w[n] = e
      BY <1>1
    <3> QED
      BY <3>1, <3>2
  <2>2. \A i \in SJ!Taken(evs) : w[i] = evs[i]
    <3>1. \A i \in SJ!Taken(evs) : i \in 1..Len(evs)
      BY <1>1, TakenEvents
    <3> QED
      BY <1>1, <3>1
  <2>3. \A i \in SJ!Taken(evs) : SJ!Miss(w, i) = SJ!Miss(evs, i)
    BY <2>2 DEF SJ!Miss
  <2>4. SJ!Taken(w) = SJ!Taken(evs) \cup {n}
    BY <1>1, Arrives
  <2>5. \A r \in SJ!Taken(evs) \X SJ!Taken(evs) : r \in SJ!Joins(w) <=> r \in SJ!Joins(evs)
    BY <1>1, Arrives
  <2> QED
    BY <2>1, <2>2, <2>3, <2>4, <2>5
<1>3. found \subseteq buf /\ found \subseteq SJ!Taken(evs)
      /\ \A i \in found : evs[i].side # e.side /\ evs[i].key = e.key /\ SJ!InWindow(evs[i], e)
  BY <1>1
<1>4. e.side \in {"left", "right"} /\ e.ts \in Int
  BY DEF SJ!Arrival
<1>5. SJ!Joins(evs) \subseteq SJ!Taken(evs) \X SJ!Taken(evs)
      /\ SJ!Joins(w) \subseteq SJ!Taken(w) \X SJ!Taken(w)
  BY DEF SJ!Joins
<1>6. ASSUME NEW r \in pairs
      PROVE  /\ r \in SJ!Joins(w) /\ r \notin R /\ n \in {r[1], r[2]}
             /\ \E i \in found : {r[1], r[2]} = {n, i}
             /\ r[1] \in Nat \ {0} /\ r[2] \in Nat \ {0}
  <2>1. PICK i \in found : r = IF e.side = "left" THEN <<n, i>> ELSE <<i, n>>
    OBVIOUS
  <2>2. i \in SJ!Taken(evs) /\ w[i] = evs[i] /\ w[n] = e /\ i \in SJ!Taken(w) /\ n \in SJ!Taken(w)
    BY <1>2, <1>3
  <2>3. w[i].ts \in Int /\ w[i].side \in {"left", "right"} /\ i \in Nat \ {0} /\ n \in Nat \ {0}
    <3>1. w[i].ts \in Int /\ w[i].side \in {"left", "right"} /\ i \in 1..Len(evs)
      BY <1>1, <2>2, TakenEvents
    <3>2. Len(evs) \in Nat
      BY <1>1
    <3> QED
      BY <3>1, <3>2
  <2>4. w[i].side # e.side /\ w[i].key = e.key /\ SJ!InWindow(w[i], w[n])
    BY <1>3, <2>2
  <2>5. SJ!InWindow(w[n], w[i])
    BY <1>4, <2>2, <2>3, <2>4, WindowBothWays
  <2>6. r \in SJ!Joins(w)
    <3>1. CASE e.side = "left"
      <4>1. r = <<n, i>> /\ w[i].side = "right"
        BY <2>1, <2>3, <2>4, <3>1
      <4> QED
        BY <2>2, <2>4, <2>5, <3>1, <4>1 DEF SJ!Joins
    <3>2. CASE e.side = "right"
      <4>1. r = <<i, n>> /\ w[i].side = "left"
        BY <2>1, <2>3, <2>4, <3>2
      <4> QED
        BY <2>2, <2>4, <3>2, <4>1 DEF SJ!Joins
    <3> QED
      BY <1>4, <3>1, <3>2
  <2>7. r \notin R
    <3> SUFFICES ASSUME r \in R PROVE FALSE
      OBVIOUS
    <3>1. CASE r \in SJ!Joins(evs)
      BY <1>2, <1>5, <2>1, <3>1
    <3>2. CASE \E k \in SJ!Taken(evs) \ buf : r = SJ!Miss(evs, k)
      <4>1. PICK k \in SJ!Taken(evs) : r = SJ!Miss(w, k)
        BY <1>2, <3>2
      <4>2. k \in SJ!Taken(w)
        BY <1>2
      <4> QED
        BY <1>2, <2>6, <4>1, <4>2, MissIsNoPair
    <3> QED
      BY <3>1, <3>2, ResultParts
  <2> QED
    BY <2>1, <2>3, <2>6, <2>7
(* who is in a pair now *)
<1>7. ASSUME NEW r \in R, r \in SJ!Joins(w) PROVE r \in SJ!Joins(evs)
  <2> SUFFICES ASSUME r \notin SJ!Joins(evs) PROVE FALSE
    OBVIOUS
  <2>1. PICK k \in SJ!Taken(evs) : r = SJ!Miss(w, k)
    BY <1>2, ResultParts
  <2>2. k \in SJ!Taken(w)
    BY <1>2
  <2> QED
    BY <1>2, <1>7, <2>1, <2>2, MissIsNoPair
<1>8. ASSUME NEW i
      PROVE  SJ!InPair(w, R \cup pairs, i) <=>
                SJ!InPair(evs, R, i) \/ i \in found \/ (i = n /\ found # {})
  <2>1. ASSUME SJ!InPair(w, R \cup pairs, i)
        PROVE  SJ!InPair(evs, R, i) \/ i \in found \/ (i = n /\ found # {})
    <3>1. PICK r \in R \cup pairs : r \in SJ!Joins(w) /\ i \in {r[1], r[2]}
      BY <2>1 DEF SJ!InPair
    <3>2. CASE r \in R
      <4>1. r \in SJ!Joins(evs)
        BY <1>7, <3>1, <3>2
      <4> QED
        BY <3>1, <3>2, <4>1 DEF SJ!InPair
    <3>3. CASE r \in pairs
      BY <1>6, <3>1, <3>3
    <3> QED
      BY <3>2, <3>3
  <2>2. ASSUME SJ!InPair(evs, R, i) PROVE SJ!InPair(w, R \cup pairs, i)
    <3>1. PICK r \in R : r \in SJ!Joins(evs) /\ i \in {r[1], r[2]}
      BY <2>2 DEF SJ!InPair
    <3>2. r \in SJ!Joins(w)
      BY <1>2, <1>5, <3>1
    <3> QED
      BY <3>1, <3>2 DEF SJ!InPair
  <2>3. ASSUME NEW k \in found, i \in {k, n} PROVE SJ!InPair(w, R \cup pairs, i)
    <3> DEFINE r == IF e.side = "left" THEN <<n, k>> ELSE <<k, n>>
    <3>1. r \in pairs /\ i \in {r[1], r[2]}
      BY <2>3
    <3> HIDE DEF r
    <3>2. r \in SJ!Joins(w)
      BY <1>6, <3>1
    <3> QED
      BY <3>1, <3>2 DEF SJ!InPair
  <2> QED
    BY <2>1, <2>2, <2>3
<1>9. ~SJ!InPair(evs, R, n)
  BY <1>2, <1>5 DEF SJ!InPair
<1>10. ASSUME NEW r \in R \cup pairs
       PROVE  \/ r \in SJ!Joins(w)
              \/ \E i \in SJ!Taken(w) \ (buf \cup {n}) :
                    r = SJ!Miss(w, i) /\ ~SJ!InPair(w, R \cup pairs, i)
  <2>1. CASE r \in pairs
    BY <1>6, <2>1
  <2>2. CASE r \in R /\ r \in SJ!Joins(evs)
    BY <1>2, <1>5, <2>2
  <2>3. CASE \E i \in SJ!Taken(evs) \ buf : r = SJ!Miss(evs, i) /\ ~SJ!InPair(evs, R, i)
    <3>1. PICK i \in SJ!Taken(evs) \ buf : r = SJ!Miss(evs, i) /\ ~SJ!InPair(evs, R, i)
      BY <2>3
    <3>2. i # n /\ i \notin found /\ i \in SJ!Taken(w) /\ r = SJ!Miss(w, i)
      BY <1>2, <1>3, <3>1
    <3> QED
      BY <1>8, <3>1, <3>2
  <2>4. r \in R => \/ r \in SJ!Joins(evs)
                   \/ \E i \in SJ!Taken(evs) \ buf : r = SJ!Miss(evs, i) /\ ~SJ!InPair(evs, R, i)
    BY ResultParts
  <2> QED
    BY <2>1, <2>2, <2>3, <2>4
<1>11. ASSUME NEW i \in buf \cup {n}
       PROVE  i \in hit \cup found \cup (IF found = {} THEN {} ELSE {n})
                <=> SJ!InPair(w, R \cup pairs, i)
  <2>1. CASE i = n
    BY <1>1, <1>2, <1>3, <1>8, <1>9, <2>1
  <2>2. CASE i # n
    <3>1. i \in hit <=> SJ!InPair(evs, R, i)
      BY <2>2, ResultParts
    <3> QED
      BY <1>8, <2>2, <3>1
  <2> QED
    BY <2>1, <2>2
<1>12. ASSUME NEW i \in SJ!Taken(w) \ (buf \cup {n})
       PROVE  /\ w[i].ts < wm - Duration
              /\ SJ!EmitsMiss(type, w[i]) =>
                    SJ!InPair(w, R \cup pairs, i) \/ SJ!Missed(w, R \cup pairs, i)
  <2>1. i \in SJ!Taken(evs) \ buf /\ w[i] = evs[i] /\ SJ!Miss(w, i) = SJ!Miss(evs, i)
    BY <1>2
  <2>2. /\ evs[i].ts < wm - Duration
        /\ SJ!EmitsMiss(type, evs[i]) => SJ!InPair(evs, R, i) \/ SJ!Missed(evs, R, i)
    BY <2>1, ResultParts
  <2> QED
    BY <1>8, <2>1, <2>2 DEF SJ!Missed
<1>13. ASSUME late = 0, NEW r \in SJ!Joins(w) PROVE r \in R \cup pairs
  <2>1. CASE r \in SJ!Taken(evs) \X SJ!Taken(evs)
    BY <1>2, <1>13, <2>1, ResultParts
  <2>2. ASSUME NEW i \in SJ!Taken(evs), {r[1], r[2]} = {n, i},
               w[i].side # e.side, w[i].key = e.key, SJ!InWindow(w[i], e)
        PROVE  i \in found
    <3>1. evs[i].ts \in Int /\ w[i] = evs[i]
      BY <1>1, <1>2, TakenEvents
    <3>2. e.ts - evs[i].ts =< Duration
      BY <1>4, <2>2, <3>1, WindowBothWays
    <3>3. e.ts >= wm
      BY <1>1, <1>4, <1>13
    <3>4. i \notin buf => evs[i].ts < wm - Duration
      BY ResultParts
    <3>5. i \in buf
      BY <1>1, <1>4, <3>1, <3>2, <3>3, <3>4, JoinAssumption
    <3> QED
      BY <2>2, <3>1, <3>5
  <2>3. /\ r \in SJ!Taken(w) \X SJ!Taken(w)
        /\ w[r[1]].side = "left" /\ w[r[2]].side = "right" /\ w[r[1]].key = w[r[2]].key
        /\ SJ!InWindow(w[r[1]], w[r[2]])
    BY <1>13 DEF SJ!Joins
  <2>4. CASE r[1] = n
    <3>1. PICK i \in SJ!Taken(evs) : r = <<n, i>>
      BY <1>2, <2>3, <2>4
    <3>2. w[i].ts \in Int /\ e.side = "left" /\ w[i].side # e.side /\ w[i].key = e.key
      BY <1>1, <1>2, <2>3, <3>1, TakenEvents
    <3>3. SJ!InWindow(w[i], e)
      BY <1>2, <1>4, <2>3, <3>1, <3>2, WindowBothWays
    <3>4. i \in found
      BY <2>2, <3>1, <3>2, <3>3
    <3> QED
      BY <3>1, <3>2, <3>4
  <2>5. CASE r[2] = n
    <3>1. PICK i \in SJ!Taken(evs) : r = <<i, n>>
      BY <1>2, <2>3, <2>5
    <3>2. w[i].ts \in Int /\ e.side = "right" /\ w[i].side # e.side /\ w[i].key = e.key
      BY <1>1, <1>2, <2>3, <3>1, TakenEvents
    <3>3. SJ!InWindow(w[i], e)
      BY <1>2, <2>3, <3>1
    <3>4. i \in found
      BY <2>2, <3>1, <3>2, <3>3
    <3> QED
      BY <3>1, <3>2, <3>4
  <2> QED
    BY <1>2, <2>1, <2>3, <2>4, <2>5
<1>14. buf \cup {n} \subseteq SJ!Taken(w)
       /\ hit \cup found \cup (IF found = {} THEN {} ELSE {n}) \subseteq buf \cup {n}
  BY <1>1, <1>2, <1>3
<1>15. SJ!JoinState(type, late, w, buf \cup {n},
                    hit \cup found \cup (IF found = {} THEN {} ELSE {n}), R \cup pairs, wm)
  <2> DEFINE hits == hit \cup found \cup (IF found = {} THEN {} ELSE {n})
             all == R \cup pairs
             held == buf \cup {n}
  <2> HIDE DEF hits, all, held
  <2>1. SJ!JoinState(type, late, w, held, hits, all, wm)
    BY <1>1, <1>2, <1>10, <1>11, <1>12, <1>13, <1>14 DEF SJ!JoinState, hits, all, held
  <2> QED
    BY <2>1 DEF hits, all, held
<1> QED
  BY <1>6, <1>15 DEF NewPairs

(***************************************************************************)
(* The windows of the aggregator                                           *)
(***************************************************************************)

LEMMA WindowStartMonotone ==
  ASSUME NEW a \in Int, NEW b \in Int, a =< b
  PROVE  SJ!WindowStart(a) \in Int /\ SJ!WindowStart(a) =< SJ!WindowStart(b)
<1>1. PICK d \in Nat \ {0} : d = WindowSize
  BY JoinAssumption
<1>2. PICK p \in Int : p = a \div d
  OBVIOUS
<1>3. PICK q \in Int : q = b \div d
  OBVIOUS
<1>4. d * p =< a /\ a < (d * p) + d
  BY <1>2
<1>5. d * q =< b /\ b < (d * q) + d
  BY <1>3
<1>6. p =< q
  <2> SUFFICES ASSUME q + 1 =< p PROVE FALSE
    OBVIOUS
  <2>1. d * (q + 1) =< d * p
    OBVIOUS
  <2>2. d * (q + 1) = (d * q) + d
    OBVIOUS
  <2> QED
    BY <1>4, <1>5, <2>1, <2>2
<1>7. d * p =< d * q
  BY <1>6
<1>8. SJ!WindowStart(a) = d * p /\ SJ!WindowStart(b) = d * q
  BY <1>1, <1>2, <1>3 DEF SJ!WindowStart
<1> QED
  BY <1>7, <1>8

(* The time of a result is the later of its events' times.                  *)
LEMMA JoinTimeLater ==
  ASSUME NEW evs \in Seq(SJ!Arrival), NEW r \in SJ!Joins(evs)
  PROVE  /\ SJ!JoinTime(evs, r) \in Int
         /\ SJ!JoinTime(evs, r) >= evs[r[1]].ts /\ SJ!JoinTime(evs, r) >= evs[r[2]].ts
<1>1. r[1] \in SJ!Taken(evs) /\ r[2] \in SJ!Taken(evs)
  BY DEF SJ!Joins
<1>2. PICK a \in Int : a = evs[r[1]].ts
  BY <1>1, TakenEvents
<1>3. PICK b \in Int : b = evs[r[2]].ts
  BY <1>1, TakenEvents
<1>4. r[1] # 0 /\ r[2] # 0
  BY <1>1, TakenEvents
<1>5. {evs[i].ts : i \in {r[1], r[2]} \ {0}} = {a, b}
  BY <1>2, <1>3, <1>4
<1>6. SJ!JoinTime(evs, r) = SJ!Max({a, b})
  BY <1>5 DEF SJ!JoinTime
<1> QED
  BY <1>2, <1>3, <1>6, MaxOfTwo

LEMMA WindowStays ==
  ASSUME NEW evs \in Seq(SJ!Arrival), NEW e \in SJ!Arrival, NEW r \in SJ!Joins(evs)
  PROVE  SJ!WindowOf(Append(evs, e), r) = SJ!WindowOf(evs, r)
<1>1. r[1] \in SJ!Taken(evs) /\ r[2] \in SJ!Taken(evs)
  BY DEF SJ!Joins
<1>2. PICK w : w = Append(evs, e)
  OBVIOUS
<1>3. w[r[1]] = evs[r[1]] /\ w[r[2]] = evs[r[2]]
  <2>1. \A x \in SJ!Taken(evs) : Append(evs, e)[x] = evs[x]
    BY Arrives
  <2> QED
    BY <1>1, <1>2, <2>1
<1>4. PICK i \in Int : i = r[1]
  BY <1>1, TakenEvents
<1>5. PICK k \in Int : k = r[2]
  BY <1>1, TakenEvents
<1>6. SJ!Max({i, k}) \in {i, k}
  BY MaxOfTwo
<1>7. SJ!KeyOf(w, r) = SJ!KeyOf(evs, r)
  BY <1>3, <1>4, <1>5, <1>6 DEF SJ!KeyOf
<1>8. {w[x].ts : x \in {r[1], r[2]} \ {0}} = {evs[x].ts : x \in {r[1], r[2]} \ {0}}
  BY <1>3
<1>9. SJ!JoinTime(w, r) = SJ!JoinTime(evs, r)
  BY <1>8 DEF SJ!JoinTime
<1> QED
  BY <1>2, <1>7, <1>9 DEF SJ!WindowOf

LEMMA WindowsAfterArrival ==
  ASSUME NEW evs \in Seq(SJ!Arrival), NEW e \in SJ!Arrival, NEW A, NEW wm, NEW W,
         SJ!WindowState(evs, A, wm, W)
  PROVE  SJ!WindowState(Append(evs, e), A, wm, W)
<1>1. A \subseteq SJ!Joins(evs)
  BY DEF SJ!WindowState
<1>2. A \subseteq SJ!Joins(Append(evs, e))
  <2>1. SJ!Joins(evs) \subseteq SJ!Taken(evs) \X SJ!Taken(evs)
    BY DEF SJ!Joins
  <2> QED
    BY <1>1, <2>1, Arrives
<1>3. \A r \in A : SJ!WindowOf(Append(evs, e), r) = SJ!WindowOf(evs, r)
  BY <1>1, WindowStays
<1> QED
  BY <1>2, <1>3 DEF SJ!WindowState

LEMMA WindowsAdvance ==
  ASSUME NEW evs, NEW A, NEW wm \in Int, NEW W, SJ!WindowState(evs, A, wm, W),
         NEW new \in Int, new >= wm
  PROVE  SJ!WindowState(evs, A, new, W)
<1> SUFFICES ASSUME NEW w \in W PROVE SJ!Complete(w, new)
  BY DEF SJ!WindowState
<1>1. w[2] \in Int /\ w[2] + WindowSize <= SJ!WindowStart(wm)
  BY DEF SJ!WindowState, SJ!Complete
<1>2. /\ SJ!WindowStart(wm) \in Int /\ SJ!WindowStart(new) \in Int
      /\ SJ!WindowStart(wm) =< SJ!WindowStart(new)
  BY WindowStartMonotone
<1> QED
  BY <1>1, <1>2, JoinAssumption DEF SJ!Complete

(* A result of an event that is not behind the watermark falls into a       *)
(* window that is open.                                                     *)
LEMMA WindowsGain ==
  ASSUME NEW evs \in Seq(SJ!Arrival), NEW A, NEW wm \in Int, NEW W,
         SJ!WindowState(evs, A, wm, W), NEW n, evs[n].ts \in Int, evs[n].ts >= wm,
         NEW P \in SUBSET SJ!Joins(evs), \A r \in P : n \in {r[1], r[2]}
  PROVE  SJ!WindowState(evs, A \cup P, wm, W)
<1> SUFFICES ASSUME NEW w \in W, NEW r \in P PROVE SJ!WindowOf(evs, r) # w
  BY DEF SJ!WindowState
<1>1. PICK t \in Int : t = SJ!JoinTime(evs, r)
  BY JoinTimeLater
<1>2. t >= wm
  <2>1. r \in SJ!Joins(evs) /\ n \in {r[1], r[2]}
    OBVIOUS
  <2>2. t >= evs[r[1]].ts /\ t >= evs[r[2]].ts
    BY <1>1, <2>1, JoinTimeLater
  <2>3. t >= evs[n].ts
    BY <2>1, <2>2
  <2> QED
    BY <2>3
<1>3. SJ!WindowStart(wm) \in Int /\ SJ!WindowStart(t) \in Int
      /\ SJ!WindowStart(wm) =< SJ!WindowStart(t)
  <2>1. wm =< t
    BY <1>2
  <2> QED
    BY <2>1, WindowStartMonotone
<1>4. w[2] \in Int /\ w[2] + WindowSize <= SJ!WindowStart(wm)
  BY DEF SJ!WindowState, SJ!Complete
<1>5. w[2] < SJ!WindowStart(t)
  BY <1>3, <1>4, JoinAssumption
<1>6. SJ!WindowOf(evs, r)[2] = SJ!WindowStart(t)
  BY <1>1 DEF SJ!WindowOf
<1> QED
  BY <1>3, <1>4, <1>5, <1>6

(***************************************************************************)
(* The steps of the join                                                   *)
(***************************************************************************)

(* _expire_events, after the results of the new event were emitted.        *)
LEMMA ExpireStep ==
  ASSUME NEW CONSTANT evs, NEW CONSTANT buf, NEW CONSTANT hit, NEW CONSTANT P,
         NEW CONSTANT new \in Int, new >= watermark,
         SJ!Expire(evs, buf, hit, P, new),
         SJ!JoinState(joinType, lateness, evs, buf, hit, SJ!Results \cup P, watermark),
         \A r \in SJ!Results : emitted[r] = 1, P \cap SJ!Results = {},
         joinType = "inner" /\ lateness = 0 =>
            /\ SJ!WindowState(evs, aggregating \cup P, watermark, SJ!BagToSet(closed))
            /\ \A w \in SJ!BagToSet(closed) : closed[w] = 1
  PROVE  /\ SJ!JoinState(joinType', lateness', evs, buffered', matched', SJ!Results', watermark')
         /\ \A r \in SJ!Results' : emitted'[r] = 1
         /\ joinType' = "inner" /\ lateness' = 0 =>
               /\ SJ!WindowState(evs, aggregating', watermark', SJ!BagToSet(closed)')
               /\ \A w \in SJ!BagToSet(closed)' : closed'[w] = 1
         /\ lateness' = lateness
<1>1. PICK type : type = joinType
  OBVIOUS
<1>2. PICK late : late = lateness
  OBVIOUS
<1>3. PICK B : B = emitted
  OBVIOUS
<1>4. PICK wm : wm = watermark
  OBVIOUS
<1>5. PICK A : A = aggregating
  OBVIOUS
<1>6. PICK C : C = closed
  OBVIOUS
<1>7. PICK old : old = SJ!Expired(evs, buf, new)
  OBVIOUS
<1>8. PICK misses : misses = Reported(type, evs, old \ hit)
  OBVIOUS
<1>9. SJ!Results = DOMAIN B /\ SJ!BagToSet(closed) = DOMAIN C /\ SJ!BagToSet(closed)' = SJ!BagToSet(closed')
  BY <1>3, <1>6 DEF SJ!Results, SJ!BagToSet
<1>10. /\ watermark' = new /\ buffered' = buf \ old /\ matched' = hit \ old
       /\ emitted' = SJ!Added(SJ!Added(B, P), misses)
       /\ aggregating' = A \cup P \cup misses
       /\ joinType' = type /\ lateness' = late /\ closed' = C
  BY <1>1, <1>2, <1>3, <1>5, <1>6, <1>7, <1>8 DEF SJ!Expire, Reported
<1>11. SJ!JoinState(type, late, evs, buf, hit, DOMAIN B \cup P, wm)
  BY <1>1, <1>2, <1>4, <1>9
<1>12. /\ SJ!JoinState(type, late, evs, buf \ old, hit \ old, (DOMAIN B \cup P) \cup misses, new)
       /\ misses \cap (DOMAIN B \cup P) = {}
  <2>1. new >= wm /\ wm \in Int
    BY <1>4, <1>11, ResultParts
  <2>3. PICK R : R = DOMAIN B \cup P
    OBVIOUS
  <2>4. SJ!JoinState(type, late, evs, buf, hit, R, wm)
    BY <1>11, <2>3
  <2>5. SJ!JoinState(type, late, evs, buf \ old, hit \ old, R \cup misses, new)
    BY <1>7, <1>8, <2>1, <2>4, ExpireKeeps
  <2>6. ASSUME NEW r \in misses PROVE r \notin R
    <3>1. old \in SUBSET buf
      BY <1>7 DEF SJ!Expired
    <3> QED
      BY <1>8, <2>4, <3>1, MissesAreNew
  <2> QED
    BY <2>3, <2>5, <2>6
<1>13. PICK B1 : B1 = SJ!Added(B, P)
  OBVIOUS
<1>14. DOMAIN B1 = DOMAIN B \cup P /\ \A r \in DOMAIN B1 : B1[r] = 1
  <2>1. \A r \in DOMAIN B : B[r] = 1
    BY <1>3, <1>9
  <2>2. P \cap DOMAIN B = {}
    BY <1>9
  <2> QED
    BY <1>13, <2>1, <2>2, AddedOnce
<1>15. PICK B2 : B2 = SJ!Added(B1, misses)
  OBVIOUS
<1>16. DOMAIN B2 = (DOMAIN B \cup P) \cup misses /\ \A r \in DOMAIN B2 : B2[r] = 1
  <2>1. misses \cap DOMAIN B1 = {}
    BY <1>12, <1>14
  <2>2. /\ DOMAIN SJ!Added(B1, misses) = DOMAIN B1 \cup misses
        /\ \A r \in DOMAIN B1 \cup misses : SJ!Added(B1, misses)[r] = 1
    BY <1>14, <2>1, AddedOnce
  <2> QED
    BY <1>14, <1>15, <2>2
<1>17. emitted' = B2 /\ SJ!Results' = DOMAIN B2
  BY <1>10, <1>13, <1>15 DEF SJ!Results, SJ!BagToSet
<1>18. SJ!JoinState(joinType', lateness', evs, buffered', matched', SJ!Results', watermark')
  BY <1>10, <1>12, <1>16, <1>17
<1>19. \A r \in SJ!Results' : emitted'[r] = 1
  BY <1>16, <1>17
<1>20. ASSUME type = "inner", late = 0
       PROVE  /\ SJ!WindowState(evs, aggregating', watermark', SJ!BagToSet(closed)')
              /\ \A w \in SJ!BagToSet(closed)' : closed'[w] = 1
  <2>1. misses = {}
    BY <1>8, <1>20 DEF Reported, SJ!EmitsMiss
  <2>2. SJ!WindowState(evs, A \cup P, wm, DOMAIN C) /\ \A w \in DOMAIN C : C[w] = 1
    BY <1>1, <1>2, <1>4, <1>5, <1>6, <1>9, <1>20
  <2>3. wm \in Int /\ new >= wm
    BY <1>4, <1>11, ResultParts
  <2>4. SJ!WindowState(evs, A \cup P, new, DOMAIN C)
    BY <2>2, <2>3, WindowsAdvance
  <2>5. aggregating' = A \cup P /\ SJ!BagToSet(closed)' = DOMAIN C
    BY <1>10, <2>1 DEF SJ!BagToSet
  <2> QED
    BY <1>10, <2>2, <2>4, <2>5
<1> QED
  BY <1>2, <1>10, <1>18, <1>19, <1>20

(* advance_time of the processor.                                           *)
LEMMA AdvanceStep ==
  ASSUME SJ!JoinInv, NEW CONSTANT ts \in 0..MaxTs, SJ!AdvanceTime(ts)
  PROVE  SJ!JoinInv'
<1>1. PICK evs : evs = arrived
  OBVIOUS
<1>2. PICK buf : buf = buffered
  OBVIOUS
<1>3. PICK hit : hit = matched
  OBVIOUS
<1> PICK P : P = {}
  OBVIOUS
<1>4. SJ!Expire(evs, buf, hit, P, ts) /\ ts > watermark /\ arrived' = evs
  BY <1>1, <1>2, <1>3 DEF SJ!AdvanceTime
<1>5. /\ SJ!JoinState(joinType, lateness, evs, buf, hit, SJ!Results, watermark)
      /\ (\A r \in SJ!Results : emitted[r] = 1) /\ lateness \in Latenesses
      /\ joinType = "inner" /\ lateness = 0 =>
            /\ SJ!WindowState(evs, aggregating, watermark, SJ!BagToSet(closed))
            /\ \A w \in SJ!BagToSet(closed) : closed[w] = 1
  BY <1>1, <1>2, <1>3 DEF SJ!JoinInv
<1>6. watermark \in Int
  BY <1>5 DEF SJ!JoinState
<1>7. /\ ts \in Int /\ ts >= watermark
      /\ SJ!Results \cup P = SJ!Results /\ aggregating \cup P = aggregating
      /\ P \cap SJ!Results = {}
  BY <1>4, <1>6
<1>8. /\ SJ!JoinState(joinType', lateness', evs, buffered', matched', SJ!Results', watermark')
      /\ \A r \in SJ!Results' : emitted'[r] = 1
      /\ joinType' = "inner" /\ lateness' = 0 =>
            /\ SJ!WindowState(evs, aggregating', watermark', SJ!BagToSet(closed)')
            /\ \A w \in SJ!BagToSet(closed)' : closed'[w] = 1
      /\ lateness' = lateness
  BY <1>4, <1>5, <1>7, ExpireStep
<1> QED
  BY <1>4, <1>5, <1>8 DEF SJ!JoinInv

(* process_event.                                                           *)
LEMMA ProcessStep ==
  ASSUME SJ!JoinInv, NEW CONSTANT side \in {"left", "right"}, NEW CONSTANT key \in JKey,
         NEW CONSTANT ts \in 0..MaxTs, SJ!ProcessEvent(side, key, ts)
  PROVE  SJ!JoinInv'
<1> PICK type : type = joinType
  OBVIOUS
<1> PICK late : late = lateness
  OBVIOUS
<1> PICK evs : evs = arrived
  OBVIOUS
<1> PICK buf : buf = buffered
  OBVIOUS
<1> PICK hit : hit = matched
  OBVIOUS
<1> PICK R : R = SJ!Results
  OBVIOUS
<1> PICK wm : wm = watermark
  OBVIOUS
<1> PICK A : A = aggregating
  OBVIOUS
<1> PICK W : W = SJ!BagToSet(closed)
  OBVIOUS
<1> PICK e : e = [side |-> side, key |-> key, ts |-> ts, late |-> SJ!IsLate(ts)]
  OBVIOUS
<1> PICK w : w = Append(evs, e)
  OBVIOUS
<1> PICK n : n = Len(evs) + 1
  OBVIOUS
<1> PICK found : found = PartnersOf(evs, buf, e)
  OBVIOUS
<1> PICK pairs : pairs = PairsWith(e, n, found)
  OBVIOUS
<1>1. /\ late \in Latenesses /\ SJ!JoinState(type, late, evs, buf, hit, R, wm)
      /\ \A r \in R : emitted[r] = 1
      /\ type = "inner" /\ late = 0 =>
            /\ SJ!WindowState(evs, A, wm, W)
            /\ \A v \in W : closed[v] = 1
  BY DEF SJ!JoinInv
<1>2. /\ late \in Int /\ ts \in Int /\ wm \in Int /\ evs \in Seq(SJ!Arrival)
  BY <1>1, JoinAssumption DEF SJ!JoinState
<1>3. e.late <=> ts < wm - late
  BY DEF SJ!IsLate
<1>4. e \in SJ!Arrival /\ e.side = side /\ e.key = key /\ e.ts = ts
  BY <1>2 DEF SJ!Arrival, SJ!IsLate
<1>5. arrived' = w
  BY DEF SJ!ProcessEvent
<1>6. CASE e.late
  <2>1. UNCHANGED <<joinType, lateness, buffered, matched, watermark, emitted, aggregating, closed>>
    BY <1>6 DEF SJ!ProcessEvent
  <2>2. /\ joinType' = type /\ lateness' = late /\ buffered' = buf /\ matched' = hit
        /\ watermark' = wm /\ aggregating' = A /\ SJ!Results' = R /\ SJ!BagToSet(closed)' = W
    BY <2>1 DEF SJ!Results, SJ!BagToSet
  <2>3. SJ!JoinState(type, late, w, buf, hit, R, wm)
    BY <1>1, <1>4, <1>6, LateKeeps
  <2>4. SJ!WindowState(evs, A, wm, W) => SJ!WindowState(w, A, wm, W)
    BY <1>2, <1>4, WindowsAfterArrival
  <2> QED
    BY <1>1, <1>5, <2>1, <2>2, <2>3, <2>4 DEF SJ!JoinInv
<1>7. CASE ~e.late
  <2> PICK new : new = SJ!Max({wm, ts})
    OBVIOUS
  <2> PICK buf2 : buf2 = buf \cup {n}
    OBVIOUS
  <2> PICK hit2 : hit2 = hit \cup found \cup (IF found = {} THEN {} ELSE {n})
    OBVIOUS
  <2>1. SJ!Partners(e) = found
    BY DEF SJ!Partners, PartnersOf
  <2>2. SJ!Expire(w, buf2, hit2, pairs, new)
    BY <1>4, <1>5, <1>7, <2>1 DEF SJ!ProcessEvent, PairsWith
  <2>3. new \in Int /\ new >= watermark
    BY <1>2, MaxOfTwo
  <2>4. /\ SJ!JoinState(type, late, w, buf2, hit2, R \cup pairs, wm)
        /\ pairs \cap R = {} /\ pairs \subseteq SJ!Joins(w)
        /\ \A r \in pairs : n \in {r[1], r[2]}
    <3>1. SJ!JoinState(type, late, evs, buf, hit, R, wm)
      BY <1>1
    <3>2. OnTime(e, wm, late)
      BY <1>3, <1>4, <1>7 DEF OnTime
    <3>3. late \in Int /\ e \in SJ!Arrival
      BY <1>2, <1>4
    <3>4. Accepted(evs, buf, hit, e, n, w, found, pairs, buf2, hit2)
      BY DEF Accepted
    <3>5. SJ!JoinState(type, late, w, buf2, hit2, R \cup pairs, wm) /\ NewPairs(w, R, n, pairs)
      BY <3>1, <3>2, <3>3, <3>4, ArriveKeeps
    <3> QED
      BY <3>5 DEF NewPairs
  <2>5. ASSUME type = "inner", late = 0
        PROVE  SJ!WindowState(w, A \cup pairs, wm, W) /\ \A v \in W : closed[v] = 1
    <3>1. SJ!WindowState(w, A, wm, W)
      BY <1>1, <1>2, <1>4, <2>5, WindowsAfterArrival
    <3>2. w \in Seq(SJ!Arrival) /\ w[n] = e
      BY <1>2, <1>4
    <3>3. w[n].ts \in Int /\ w[n].ts >= wm
      BY <1>2, <1>3, <1>4, <1>7, <2>5, <3>2
    <3>4. pairs \in SUBSET SJ!Joins(w) /\ \A r \in pairs : n \in {r[1], r[2]}
      BY <2>4
    <3>5. SJ!WindowState(w, A \cup pairs, wm, W)
      BY <1>2, <3>1, <3>2, <3>3, <3>4, WindowsGain
    <3> QED
      BY <1>1, <2>5, <3>5
  <2>6. /\ SJ!JoinState(joinType', lateness', w, buffered', matched', SJ!Results', watermark')
        /\ \A r \in SJ!Results' : emitted'[r] = 1
        /\ joinType' = "inner" /\ lateness' = 0 =>
              /\ SJ!WindowState(w, aggregating', watermark', SJ!BagToSet(closed)')
              /\ \A v \in SJ!BagToSet(closed)' : closed'[v] = 1
        /\ lateness' = lateness
    <3>1. SJ!JoinState(joinType, lateness, w, buf2, hit2, SJ!Results \cup pairs, watermark)
      BY <2>4
    <3>2. pairs \cap SJ!Results = {}
      BY <2>4
    <3>3. joinType = "inner" /\ lateness = 0 =>
             /\ SJ!WindowState(w, aggregating \cup pairs, watermark, SJ!BagToSet(closed))
             /\ \A v \in SJ!BagToSet(closed) : closed[v] = 1
      BY <2>5
    <3>4. \A r \in SJ!Results : emitted[r] = 1
      BY <1>1
    <3> QED
      BY <2>2, <2>3, <3>1, <3>2, <3>3, <3>4, ExpireStep
  <2> QED
    BY <1>1, <1>5, <2>6 DEF SJ!JoinInv
<1> QED
  BY <1>6, <1>7

(* advance_time of the aggregator.                                          *)
LEMMA CloseStep ==
  ASSUME SJ!JoinInv, NEW CONSTANT t \in 0..MaxTs, SJ!CloseWindows(t)
  PROVE  SJ!JoinInv'
<1>1. /\ UNCHANGED <<joinType, lateness, arrived, buffered, matched, watermark, emitted>>
      /\ SJ!Results' = SJ!Results
  BY DEF SJ!CloseWindows, SJ!Results
<1>2. SJ!JoinState(joinType, lateness, arrived, buffered, matched, SJ!Results, watermark)'
  BY <1>1 DEF SJ!JoinInv
<1>3. ASSUME joinType = "inner", lateness = 0
      PROVE  /\ SJ!WindowState(arrived, aggregating, watermark, SJ!BagToSet(closed))'
             /\ \A w \in SJ!BagToSet(closed)' : closed'[w] = 1
  <2>1. PICK evs : evs = arrived
    OBVIOUS
  <2>2. PICK A : A = aggregating
    OBVIOUS
  <2>3. PICK wm : wm = watermark
    OBVIOUS
  <2>4. PICK C : C = closed
    OBVIOUS
  <2>5. PICK done : done = {r \in A : SJ!Complete(SJ!WindowOf(evs, r), t)}
    OBVIOUS
  <2>6. PICK D : D = {SJ!WindowOf(evs, r) : r \in done}
    OBVIOUS
  <2>7. /\ t =< wm /\ closed' = SJ!Added(C, D) /\ aggregating' = A \ done
        /\ arrived' = evs /\ watermark' = wm
    BY <2>1, <2>2, <2>3, <2>4, <2>5, <2>6 DEF SJ!CloseWindows
  <2>8. /\ A \subseteq SJ!Joins(evs) /\ \A w \in DOMAIN C : C[w] = 1
        /\ \A w \in DOMAIN C : /\ w[2] \in Int /\ SJ!Complete(w, wm)
                               /\ \A r \in A : SJ!WindowOf(evs, r) # w
    BY <1>3, <2>1, <2>2, <2>3, <2>4 DEF SJ!JoinInv, SJ!WindowState, SJ!BagToSet
  <2>9. evs \in Seq(SJ!Arrival) /\ wm \in Int /\ t \in Int
    BY <2>1, <2>3 DEF SJ!JoinInv, SJ!JoinState
  <2>10. D \cap DOMAIN C = {}
    BY <2>5, <2>6, <2>8
  <2>11. PICK C2 : C2 = SJ!Added(C, D)
    OBVIOUS
  <2>12. DOMAIN C2 = DOMAIN C \cup D /\ \A w \in DOMAIN C \cup D : C2[w] = 1
    BY <2>8, <2>10, <2>11, AddedOnce
  <2>13. ASSUME NEW w \in D
         PROVE  /\ w[2] \in Int /\ SJ!Complete(w, wm)
                /\ \A r \in A \ done : SJ!WindowOf(evs, r) # w
    <3>1. PICK r \in done : w = SJ!WindowOf(evs, r)
      BY <2>6
    <3>2. SJ!Complete(w, t) /\ r \in SJ!Joins(evs)
      BY <2>5, <2>8, <3>1
    <3>3. \A q \in A \ done : SJ!WindowOf(evs, q) # w
      BY <2>5, <3>2
    <3>4. PICK x \in Int : x = SJ!JoinTime(evs, r)
      BY <2>9, <3>2, JoinTimeLater
    <3>5. w[2] = SJ!WindowStart(x)
      BY <3>1, <3>4 DEF SJ!WindowOf
    <3>6. SJ!WindowStart(x) \in Int
      BY WindowStartMonotone
    <3>7. /\ SJ!WindowStart(t) \in Int /\ SJ!WindowStart(wm) \in Int
          /\ SJ!WindowStart(t) =< SJ!WindowStart(wm)
      BY <2>7, <2>9, WindowStartMonotone
    <3>8. SJ!Complete(w, wm)
      BY <3>2, <3>5, <3>6, <3>7, JoinAssumption DEF SJ!Complete
    <3> QED
      BY <3>3, <3>5, <3>6, <3>8
  <2>14. SJ!WindowState(evs, A \ done, wm, DOMAIN C2)
    BY <2>8, <2>12, <2>13 DEF SJ!WindowState
  <2>15. SJ!BagToSet(closed)' = DOMAIN C2
    BY <2>7, <2>11 DEF SJ!BagToSet
  <2> QED
    BY <2>7, <2>11, <2>12, <2>14, <2>15
<1> QED
  BY <1>1, <1>2, <1>3 DEF SJ!JoinInv

LEMMA JoinStep ==
  ASSUME SJ!JoinInv, SJ!JoinNext
  PROVE  SJ!JoinInv'
<1>1. PICK t \in 0..MaxTs :
         \/ \E side \in {"left", "right"}, key \in JKey : SJ!ProcessEvent(side, key, t)
         \/ SJ!AdvanceTime(t)
         \/ SJ!CloseWindows(t)
  BY DEF SJ!JoinNext
<1>2. CASE \E side \in {"left", "right"}, key \in JKey : SJ!ProcessEvent(side, key, t)
  BY <1>2, ProcessStep
<1>3. CASE SJ!AdvanceTime(t)
  BY <1>3, AdvanceStep
<1>4. CASE SJ!CloseWindows(t)
  BY <1>4, CloseStep
<1> QED
  BY <1>1, <1>2, <1>3, <1>4

LEMMA JoinStarts ==
  ASSUME SJ!JoinInit
  PROVE  SJ!JoinInv
<1>1. /\ arrived = <<>> /\ buffered = {} /\ matched = {} /\ watermark = -1
      /\ aggregating = {} /\ lateness \in Latenesses
  BY DEF SJ!JoinInit
<1>2. DOMAIN emitted = {} /\ DOMAIN closed = {}
  BY DEF SJ!JoinInit, SJ!EmptyBag, SJ!SetToBag
<1>3. SJ!Results = {} /\ SJ!BagToSet(closed) = {}
  BY <1>2 DEF SJ!Results, SJ!BagToSet
<1>4. <<>> \in Seq(SJ!Arrival) /\ DOMAIN <<>> = {}
  OBVIOUS
<1>5. SJ!Taken(arrived) = {}
  BY <1>1, <1>4 DEF SJ!Taken
<1>6. SJ!Joins(arrived) = {}
  BY <1>5 DEF SJ!Joins
<1>7. SJ!JoinState(joinType, lateness, arrived, buffered, matched, SJ!Results, watermark)
  BY <1>1, <1>3, <1>4, <1>5, <1>6 DEF SJ!JoinState
<1>8. SJ!WindowState(arrived, aggregating, watermark, SJ!BagToSet(closed))
  BY <1>1, <1>3 DEF SJ!WindowState
<1> QED
  BY <1>1, <1>3, <1>7, <1>8 DEF SJ!JoinInv

(* The invariant says what the results are.                                 *)
LEMMA JoinSound ==
  ASSUME SJ!JoinInv
  PROVE  SJ!ResultsAreJoin /\ SJ!WindowsCloseOnce
<1>1. PICK type : type = joinType
  OBVIOUS
<1>2. PICK late : late = lateness
  OBVIOUS
<1>3. PICK evs : evs = arrived
  OBVIOUS
<1>4. PICK buf : buf = buffered
  OBVIOUS
<1>5. PICK hit : hit = matched
  OBVIOUS
<1>6. PICK R : R = SJ!Results
  OBVIOUS
<1>7. PICK wm : wm = watermark
  OBVIOUS
<1>8. SJ!JoinState(type, late, evs, buf, hit, R, wm)
  BY <1>1, <1>2, <1>3, <1>4, <1>5, <1>6, <1>7 DEF SJ!JoinInv
<1>9. evs \in Seq(SJ!Arrival)
  BY <1>8, ResultParts
<1>10. ASSUME NEW r \in R PROVE r \in SJ!Joins(evs) \/ 0 \in {r[1], r[2]}
  <2>1. CASE r \in SJ!Joins(evs)
    BY <2>1
  <2>2. CASE r \notin SJ!Joins(evs)
    <3>1. PICK i \in SJ!Taken(evs) \ buf : r = SJ!Miss(evs, i)
      BY <1>8, <2>2, ResultParts
    <3>2. r = <<i, 0>> \/ r = <<0, i>>
      BY <3>1 DEF SJ!Miss
    <3> QED
      BY <3>2
  <2> QED
    BY <2>1, <2>2
<1>11. ASSUME NEW i \in SJ!Taken(evs), SJ!Missed(evs, R, i)
       PROVE  ~SJ!InPair(evs, R, i) /\ i \notin buf
  <2>1. SJ!Miss(evs, i) \in R /\ SJ!Miss(evs, i) \notin SJ!Joins(evs)
    BY <1>9, <1>11, MissIsNoPair DEF SJ!Missed
  <2>2. PICK k \in SJ!Taken(evs) \ buf : SJ!Miss(evs, i) = SJ!Miss(evs, k) /\ ~SJ!InPair(evs, R, k)
    BY <1>8, <2>1, ResultParts
  <2>3. i = k
    BY <1>9, <2>2, MissIsNoPair
  <2> QED
    BY <2>2, <2>3
<1>12. ASSUME NEW i \in SJ!Taken(evs), SJ!EmitsMiss(type, evs[i])
       PROVE  SJ!InPair(evs, R, i) \/ SJ!Missed(evs, R, i) \/ i \in buf
  <2>1. \A k \in SJ!Taken(evs) \ buf :
           SJ!EmitsMiss(type, evs[k]) => SJ!InPair(evs, R, k) \/ SJ!Missed(evs, R, k)
    BY <1>8, ResultParts
  <2> QED
    BY <1>12, <2>1
<1>13. late = 0 => SJ!Joins(evs) \subseteq R
  BY <1>8, ResultParts
<1>14. \A r \in R : emitted[r] = 1
  BY <1>6 DEF SJ!JoinInv
<1>15. SJ!ResultsAreJoin
  BY <1>1, <1>2, <1>3, <1>4, <1>6, <1>10, <1>11, <1>12, <1>13, <1>14 DEF SJ!ResultsAreJoin
<1>16. SJ!WindowsCloseOnce
  BY DEF SJ!JoinInv, SJ!WindowState, SJ!WindowsCloseOnce
<1> QED
  BY <1>15, <1>16

(* stream-join-processor: whatever the type of join, its lateness, its      *)
(* window and the order of the events, the results are the windowed join    *)
(* of the accepted events, each emitted once, and the aggregator of an      *)
(* inner join without lateness closes each of its windows once.             *)
THEOREM StreamsJoined == LogsSpec => []JoinExact
<1>1. LogsInit => SJ!JoinInv
  BY JoinStarts DEF LogsInit
<1>2. SJ!JoinInv /\ [LogsNext]_logsVars => SJ!JoinInv'
  <2> SUFFICES ASSUME SJ!JoinInv, [LogsNext]_logsVars PROVE SJ!JoinInv'
    OBVIOUS
  <2>1. CASE UNCHANGED joinVars
    BY <2>1 DEF joinVars, SJ!JoinInv, SJ!Results, SJ!BagToSet
  <2>2. CASE SJ!JoinNext
    BY <2>2, JoinStep
  <2>3. UNCHANGED joinVars \/ SJ!JoinNext
    BY DEF LogsNext, logsVars
  <2> QED
    BY <2>1, <2>2, <2>3
<1>3. SJ!JoinInv => JoinExact
  BY JoinSound DEF JoinExact
<1> QED
  BY <1>1, <1>2, <1>3, PTL DEF LogsSpec

(***************************************************************************)
(* event-sourcing-store                                                    *)
(***************************************************************************)

LEMMA OneMore ==
  ASSUME NEW n \in Nat
  PROVE  Append(ES!UpTo(n), n + 1) = ES!UpTo(n + 1)
BY DEF ES!UpTo

(* One event through the handlers of a projection that is just behind it,   *)
(* or that is known to have left one out.                                   *)
LEMMA HandledType ==
  ASSUME NEW acc \in ES!Accounts, NEW id \in Nat
  PROVE  /\ ES!Handled(acc, id) \in ES!Accounts
         /\ ES!Handled(acc, id).pr.pos = id /\ ES!Handled(acc, id).gap = acc.gap
         /\ ES!Handled(acc, id).pr.state = Append(acc.pr.state, id)
         /\ \/ ES!Handled(acc, id).snap = acc.snap
            \/ ES!Handled(acc, id).snap =
                  [state |-> Append(acc.pr.state, id), pos |-> id, gapped |-> acc.gap]
<1>1. PICK st \in Seq(Nat) : st = Append(acc.pr.state, id)
  <2>1. PICK q \in Seq(Nat) : q = acc.pr.state
    BY DEF ES!Accounts
  <2>2. Append(q, id) \in Seq(Nat)
    OBVIOUS
  <2> QED
    BY <2>1, <2>2
<1>2. PICK k \in Nat : k = acc.pr.since + 1
  <2>1. acc.pr.since \in Nat
    BY DEF ES!Accounts
  <2> QED
    BY <2>1
<1>3. acc.snap \in ES!Saved \cup {NoSnapshot} /\ acc.gap \in BOOLEAN
  BY DEF ES!Accounts
<1>4. CASE k >= SnapshotInterval
  <2>1. ES!Handled(acc, id) =
           [pr |-> [state |-> st, pos |-> id, since |-> 0],
            snap |-> [state |-> st, pos |-> id, gapped |-> acc.gap], gap |-> acc.gap]
    BY <1>1, <1>2, <1>4 DEF ES!Handled
  <2>2. [state |-> st, pos |-> id, gapped |-> acc.gap] \in ES!Saved
    BY <1>3 DEF ES!Saved
  <2> QED
    BY <1>1, <1>3, <2>1, <2>2 DEF ES!Accounts
<1>5. CASE ~(k >= SnapshotInterval)
  <2>1. ES!Handled(acc, id) =
           [acc EXCEPT !.pr = [state |-> st, pos |-> id, since |-> k]]
    BY <1>1, <1>2, <1>5 DEF ES!Handled
  <2>2. acc = [pr |-> acc.pr, snap |-> acc.snap, gap |-> acc.gap]
    BY DEF ES!Accounts
  <2>3. ES!Handled(acc, id) =
           [pr |-> [state |-> st, pos |-> id, since |-> k], snap |-> acc.snap, gap |-> acc.gap]
    BY <2>1, <2>2
  <2> QED
    BY <1>1, <1>3, <2>3 DEF ES!Accounts
<1> QED
  BY <1>4, <1>5

LEMMA HandledExact ==
  ASSUME NEW n \in Nat, NEW acc, ES!Exact(acc, n), NEW id \in 1..n,
         acc.gap \/ acc.pr.pos + 1 = id
  PROVE  /\ ES!Exact(ES!Handled(acc, id), n) /\ ES!Handled(acc, id).pr.pos = id
         /\ ES!NoGap(acc) => ES!NoGap(ES!Handled(acc, id))
<1>1. acc \in ES!Accounts /\ id \in Nat
  BY DEF ES!Exact
<1>2. PICK h : h = ES!Handled(acc, id)
  OBVIOUS
<1>3. /\ h \in ES!Accounts /\ h.pr.pos = id /\ h.gap = acc.gap
      /\ h.pr.state = Append(acc.pr.state, id)
      /\ \/ h.snap = acc.snap
         \/ h.snap = [state |-> Append(acc.pr.state, id), pos |-> id, gapped |-> acc.gap]
  BY <1>1, <1>2, HandledType
<1>4. ~acc.gap => Append(acc.pr.state, id) = ES!UpTo(id)
  <2> SUFFICES ASSUME ~acc.gap PROVE Append(acc.pr.state, id) = ES!UpTo(id)
    OBVIOUS
  <2>1. PICK k \in Nat : k = acc.pr.pos
    BY <1>1 DEF ES!Accounts
  <2>2. acc.pr.state = ES!UpTo(k) /\ id = k + 1
    BY <2>1 DEF ES!Exact
  <2> QED
    BY <2>2, OneMore
<1>5. h.snap # NoSnapshot =>
         h.snap.pos <= n /\ (~h.snap.gapped => h.snap.state = ES!UpTo(h.snap.pos))
  <2>1. CASE h.snap = acc.snap
    BY <2>1 DEF ES!Exact
  <2>2. CASE h.snap = [state |-> Append(acc.pr.state, id), pos |-> id, gapped |-> acc.gap]
    BY <1>4, <2>2
  <2> QED
    BY <1>3, <2>1, <2>2
<1>6. ES!Exact(h, n)
  BY <1>3, <1>4, <1>5 DEF ES!Exact
<1>7. ES!NoGap(acc) => ES!NoGap(h)
  BY <1>3 DEF ES!NoGap
<1> QED
  BY <1>2, <1>3, <1>6, <1>7

LEMMA OnEventExact ==
  ASSUME NEW n \in Nat, NEW acc, ES!Exact(acc, n), NEW id \in 1..n
  PROVE  ES!Exact(ES!OnEvent(acc, id), n)
<1>1. acc \in ES!Accounts
  BY DEF ES!Exact
<1>2. CASE id <= acc.pr.pos
  BY <1>2 DEF ES!OnEvent
<1>3. CASE ~(id <= acc.pr.pos)
  <2>1. PICK g \in BOOLEAN : g = (acc.gap \/ id # acc.pr.pos + 1)
    OBVIOUS
  <2>2. PICK b : b = [acc EXCEPT !.gap = g]
    OBVIOUS
  <2>3. b = [pr |-> acc.pr, snap |-> acc.snap, gap |-> g]
    BY <1>1, <2>2 DEF ES!Accounts
  <2>4. b \in ES!Accounts
    BY <1>1, <2>3 DEF ES!Accounts
  <2>5. ES!Exact(b, n)
    BY <2>1, <2>3, <2>4 DEF ES!Exact
  <2>6. b.gap \/ b.pr.pos + 1 = id
    BY <2>1, <2>3
  <2>7. ES!OnEvent(acc, id) = ES!Handled(b, id)
    BY <1>3, <2>1, <2>2 DEF ES!OnEvent
  <2> QED
    BY <2>5, <2>6, <2>7, HandledExact
<1> QED
  BY <1>2, <1>3

(* The events of an append or a batch, handed to a live projection.         *)
LEMMA DeliveredExact ==
  ASSUME NEW CONSTANT acc, NEW CONSTANT n \in Nat, events \in Seq(Stream),
         ES!Exact(acc, Len(events))
  PROVE  ES!Exact(ES!Delivered(acc, n), Len(events) + n)
<1>1. PICK l \in Nat : l = Len(events)
  OBVIOUS
<1> DEFINE Step(x, i) == ES!OnEvent(x, l + i)
           S == {x \in ES!Accounts : ES!Exact(x, l + n)}
           st == [i \in 1..n |-> [x \in S |-> Step(x, i)]]
<1>2. acc \in S
  <2>1. ES!Exact(acc, l)
    BY <1>1
  <2>2. acc.pr.pos \in Nat /\ acc.snap \in ES!Saved \cup {NoSnapshot}
    BY <2>1 DEF ES!Exact, ES!Accounts
  <2>3. acc.snap # NoSnapshot => acc.snap.pos \in Nat
    BY <2>2 DEF ES!Saved
  <2> QED
    BY <2>1, <2>2, <2>3 DEF ES!Exact
<1>3. ASSUME NEW x \in S, NEW i \in 1..n PROVE Step(x, i) \in S
  <2>1. PICK k, id : k = l + n /\ id = l + i
    OBVIOUS
  <2>2. k \in Nat /\ id \in 1..k /\ ES!Exact(x, k)
    BY <2>1
  <2>3. ES!Exact(ES!OnEvent(x, id), k)
    BY <2>2, OnEventExact
  <2> QED
    BY <2>1, <2>3 DEF ES!Exact
<1> HIDE DEF Step
<1>4. PICK g \in [0..n -> S] : g[0] = acc /\ \A i \in 1..n : g[i] = st[i][g[i - 1]]
  <2>1. st \in [1..n -> [S -> S]]
    BY <1>3
  <2> HIDE DEF st, S
  <2>2. PICK T, step : T = S /\ step = st
    OBVIOUS
  <2>3. acc \in T /\ step \in [1..n -> [T -> T]]
    BY <1>2, <2>1, <2>2
  <2>4. PICK g : Iterates(n, T, acc, step, g)
    BY <2>3, Iteration
  <2>5. g \in [0..n -> T] /\ g[0] = acc /\ \A i \in 1..n : g[i] = step[i][g[i - 1]]
    BY <2>4 DEF Iterates
  <2> QED
    BY <2>2, <2>5
<1> DEFINE Is(f) == f = [i \in 0..n |-> IF i = 0 THEN acc ELSE Step(f[i - 1], i)]
<1>5. Is(g)
  <2>1. ASSUME NEW i \in 1..n PROVE g[i] = Step(g[i - 1], i)
    <3>1. g[i - 1] \in S
      BY <1>4
    <3> QED
      BY <1>4, <3>1
  <2>2. \A i \in 0..n : g[i] = IF i = 0 THEN acc ELSE Step(g[i - 1], i)
    BY <1>4, <2>1
  <2>3. g = [i \in 0..n |-> g[i]]
    BY <1>4
  <2> HIDE DEF S, st
  <2> QED
    BY <2>2, <2>3
<1>6. PICK after : Is(after) /\ ES!Delivered(acc, n) = after[n]
  <2>1. Is(CHOOSE f : Is(f))
    BY <1>5
  <2>2. ES!Delivered(acc, n) = (CHOOSE f : Is(f))[n]
    BY <1>1 DEF ES!Delivered, Step
  <2> HIDE DEF Is
  <2> QED
    BY <2>1, <2>2
<1>7. after[0] = acc /\ \A i \in 1..n : after[i] = Step(after[i - 1], i)
  BY <1>6
<1> DEFINE P == {i \in 0..n : after[i] \in S}
<1>8. 0 \in P
  BY <1>2, <1>7
<1>9. ASSUME NEW i \in 0..(n - 1), i \in P PROVE i + 1 \in P
  <2>1. PICK k \in 1..n : k = i + 1 /\ k - 1 = i
    OBVIOUS
  <2>2. after[i] \in S /\ after[k] = Step(after[i], k)
    BY <1>7, <1>9, <2>1
  <2>3. PICK x \in S : x = after[i]
    BY <2>2
  <2>4. Step(x, k) \in S
    BY <1>3
  <2> HIDE DEF S
  <2> QED
    BY <2>1, <2>2, <2>3, <2>4
<1>10. after[n] \in S
  <2> HIDE DEF P
  <2>1. PICK Q : Q = P
    OBVIOUS
  <2>2. \A i \in 0..n : i \in Q
    BY <1>8, <1>9, <2>1, CountUp
  <2>3. n \in P
    BY <2>1, <2>2
  <2> QED
    BY <2>3 DEF P
<1> QED
  BY <1>1, <1>6, <1>10

(* catch_up takes a projection to the end of the events.                    *)
LEMMA CaughtUpExact ==
  ASSUME NEW CONSTANT acc, events \in Seq(Stream), ES!Exact(acc, Len(events))
  PROVE  /\ ES!Exact(ES!CaughtUp(acc), Len(events))
         /\ ES!NoGap(acc) => ES!NoGap(ES!CaughtUp(acc))
<1>1. PICK n \in Nat : n = Len(events)
  OBVIOUS
<1>2. ES!Exact(acc, n) /\ acc \in ES!Accounts
  BY <1>1 DEF ES!Exact
<1>3. PICK from \in Nat \ {0} : from = acc.pr.pos + 1
  <2>1. acc.pr.pos \in Nat
    BY <1>2 DEF ES!Accounts
  <2> QED
    BY <2>1
<1> DEFINE Step(x, i) == IF i < from THEN x ELSE ES!Handled(x, i)
           S == ES!Accounts
           st == [i \in 1..n |-> [x \in S |-> Step(x, i)]]
<1>4. ASSUME NEW x \in S, NEW i \in 1..n PROVE Step(x, i) \in S
  <2>1. PICK k \in Nat : k = i
    OBVIOUS
  <2>2. ES!Handled(x, k) \in ES!Accounts
    BY HandledType
  <2> QED
    BY <2>1, <2>2
<1> HIDE DEF Step
<1>5. PICK g \in [0..n -> S] : g[0] = acc /\ \A i \in 1..n : g[i] = st[i][g[i - 1]]
  <2>1. st \in [1..n -> [S -> S]]
    BY <1>4
  <2> HIDE DEF st, S
  <2>2. PICK T, step : T = S /\ step = st
    OBVIOUS
  <2>3. acc \in T /\ step \in [1..n -> [T -> T]]
    BY <1>2, <2>1, <2>2 DEF S
  <2>4. PICK g : Iterates(n, T, acc, step, g)
    BY <2>3, Iteration
  <2>5. g \in [0..n -> T] /\ g[0] = acc /\ \A i \in 1..n : g[i] = step[i][g[i - 1]]
    BY <2>4 DEF Iterates
  <2> QED
    BY <2>2, <2>5
<1> DEFINE Is(f) == f = [i \in 0..n |-> IF i = 0 THEN acc ELSE Step(f[i - 1], i)]
<1>6. Is(g)
  <2> HIDE DEF S
  <2>1. ASSUME NEW i \in 1..n PROVE g[i] = Step(g[i - 1], i)
    <3>1. g[i - 1] \in S
      BY <1>5
    <3> QED
      BY <1>5, <3>1
  <2>2. \A i \in 0..n : g[i] = IF i = 0 THEN acc ELSE Step(g[i - 1], i)
    BY <1>5, <2>1
  <2>3. g = [i \in 0..n |-> g[i]]
    BY <1>5
  <2> HIDE DEF st
  <2> QED
    BY <2>2, <2>3
<1>7. PICK after : Is(after) /\ ES!CaughtUp(acc) = after[n]
  <2>1. Is(CHOOSE f : Is(f))
    BY <1>6
  <2>2. ES!CaughtUp(acc) = (CHOOSE f : Is(f))[n]
    BY <1>1, <1>3 DEF ES!CaughtUp, ES!FromPosition, Step
  <2> HIDE DEF Is
  <2> QED
    BY <2>1, <2>2
<1>8. after[0] = acc /\ \A i \in 1..n : after[i] = Step(after[i - 1], i)
  BY <1>7
<1> DEFINE Good(x, i) == /\ ES!Exact(x, n) /\ (ES!NoGap(acc) => ES!NoGap(x))
                         /\ x.pr.pos = IF i < from THEN from - 1 ELSE i
           P == {i \in 0..n : Good(after[i], i)}
<1>9. 0 \in P
  <2>1. acc.pr.pos = from - 1
    <3>1. acc.pr.pos \in Nat
      BY <1>2 DEF ES!Accounts
    <3> QED
      BY <1>3, <3>1
  <2>2. Good(acc, 0)
    <3>1. 0 < from
      OBVIOUS
    <3> QED
      BY <1>2, <1>3, <2>1, <3>1
  <2> QED
    BY <1>8, <2>2
<1>10. ASSUME NEW i \in 0..(n - 1), i \in P PROVE i + 1 \in P
  <2>1. PICK k \in 1..n : k = i + 1 /\ k - 1 = i
    OBVIOUS
  <2>2. PICK x : x = after[i]
    OBVIOUS
  <2>3. after[k] = Step(x, k)
    BY <1>8, <2>1, <2>2
  <2>4. Good(x, i)
    BY <1>10, <2>2
  <2>5. Good(Step(x, k), k)
    <3>1. CASE k < from
      BY <2>1, <2>4, <3>1 DEF Step
    <3>2. CASE ~(k < from)
      <4>1. x.pr.pos + 1 = k
        <5>1. CASE i < from
          BY <2>1, <2>4, <3>2, <5>1
        <5>2. CASE ~(i < from)
          BY <2>1, <2>4, <5>2
        <5> QED
          BY <5>1, <5>2
      <4>2. PICK h : h = ES!Handled(x, k)
        OBVIOUS
      <4>3. ES!Exact(x, n)
        BY <2>4
      <4>4. ES!Exact(h, n) /\ h.pr.pos = k /\ (ES!NoGap(x) => ES!NoGap(h))
        BY <4>1, <4>2, <4>3, HandledExact
      <4> QED
        BY <2>4, <3>2, <4>2, <4>4 DEF Step
    <3> QED
      BY <3>1, <3>2
  <2> HIDE DEF Good
  <2> QED
    BY <2>1, <2>3, <2>5
<1>11. Good(after[n], n)
  <2> HIDE DEF P, Good
  <2>1. PICK Q : Q = P
    OBVIOUS
  <2>2. \A i \in 0..n : i \in Q
    BY <1>9, <1>10, <2>1, CountUp
  <2>3. n \in P
    BY <2>1, <2>2
  <2> QED
    BY <2>3 DEF P
<1> QED
  BY <1>1, <1>7, <1>11

(* Each operation sets the accounts of the projections.                     *)
LEMMA AccountsSet ==
  ASSUME NEW CONSTANT as, ES!SetAccounts(as), NEW CONSTANT p \in ES!Projections,
         as[p] \in ES!Accounts
  PROVE  ES!Account(p)' = as[p]
<1>1. proj'[p] = as[p].pr /\ snaps'[p] = as[p].snap /\ gapped'[p] = as[p].gap
  BY DEF ES!SetAccounts
<1>2. as[p] = [pr |-> as[p].pr, snap |-> as[p].snap, gap |-> as[p].gap]
  BY DEF ES!Accounts
<1> QED
  BY <1>1, <1>2 DEF ES!Account

(* An exact account stays exact when events are stored.                     *)
LEMMA ExactLater ==
  ASSUME NEW acc, NEW l \in Nat, NEW n \in Nat, ES!Exact(acc, l)
  PROVE  ES!Exact(acc, l + n)
<1>1. acc.pr.pos \in Nat /\ acc.snap \in ES!Saved \cup {NoSnapshot}
  BY DEF ES!Exact, ES!Accounts
<1>2. acc.snap # NoSnapshot => acc.snap.pos \in Nat
  BY <1>1 DEF ES!Saved
<1> QED
  BY <1>1, <1>2 DEF ES!Exact

LEMMA NewIsExact ==
  ASSUME NEW n \in Nat, NEW acc, NEW s \in ES!Saved \cup {NoSnapshot},
         acc = [pr |-> ES!NewProjection, snap |-> s, gap |-> FALSE],
         s # NoSnapshot => s.pos <= n /\ (~s.gapped => s.state = ES!UpTo(s.pos))
  PROVE  ES!Exact(acc, n)
<1>1. ES!UpTo(0) = << >> /\ << >> \in Seq(Nat)
  BY DEF ES!UpTo
<1> QED
  BY <1>1 DEF ES!Exact, ES!Accounts, ES!NewProjection

LEMMA EventStep ==
  ASSUME ES!EventInv, ES!EventNext
  PROVE  ES!EventInv'
<1> DEFINE Good(p) == ES!Exact(ES!Account(p), Len(events)) /\ (p \in Polling => ES!NoGap(ES!Account(p)))
<1>1. events \in Seq(Stream) /\ Len(events) \in Nat /\ \A p \in ES!Projections : Good(p)
  BY DEF ES!EventInv
<1>2. \A p \in ES!Projections : ES!Account(p) \in ES!Accounts
  BY <1>1 DEF ES!Exact
<1>3. \A p \in ES!Projections : p \in Polling => p \notin Live
  BY ProjectionAssumption
<1>4. ASSUME NEW s \in Stream, NEW n \in 1..2, NEW e \in -1..MaxEvents, ES!AppendEvents(s, n, e)
      PROVE  ES!EventInv'
  <2>1. PICK l \in Nat : l = Len(events)
    BY <1>1
  <2>2. events' \in Seq(Stream) /\ Len(events') = l + n
    <3>1. PICK more : more = [i \in 1..n |-> s]
      OBVIOUS
    <3>2. more \in Seq(Stream) /\ Len(more) = n
      BY <3>1
    <3>3. events' = events \o more
      BY <1>4, <3>1 DEF ES!AppendEvents
    <3> QED
      BY <1>1, <2>1, <3>2, <3>3
  <2>3. PICK as : as = [p \in ES!Projections |->
                          IF p \in Live THEN ES!Delivered(ES!Account(p), n) ELSE ES!Account(p)]
    OBVIOUS
  <2>4. ES!SetAccounts(as)
    BY <1>4, <2>3 DEF ES!AppendEvents
  <2>5. ASSUME NEW p \in ES!Projections
        PROVE  ES!Exact(ES!Account(p)', l + n) /\ (p \in Polling => ES!NoGap(ES!Account(p)'))
    <3>1. PICK acc : acc = ES!Account(p)
      OBVIOUS
    <3>2. ES!Exact(acc, Len(events)) /\ (p \in Polling => ES!NoGap(acc))
      BY <1>1, <3>1
    <3>3. CASE p \in Live
      <4>1. ES!Exact(as[p], l + n)
        BY <1>1, <2>1, <2>3, <3>1, <3>2, <3>3, DeliveredExact
      <4>2. ES!Account(p)' = as[p]
        BY <2>4, <4>1, AccountsSet DEF ES!Exact
      <4> QED
        BY <1>3, <3>3, <4>1, <4>2
    <3>4. CASE p \notin Live
      <4>1. as[p] = acc /\ acc \in ES!Accounts
        BY <1>2, <2>3, <3>1, <3>4
      <4>2. ES!Account(p)' = acc
        BY <2>4, <4>1, AccountsSet
      <4>3. ES!Exact(acc, l + n)
        BY <2>1, <3>2, ExactLater
      <4> QED
        BY <3>2, <4>2, <4>3
    <3> QED
      BY <3>3, <3>4
  <2> QED
    BY <2>2, <2>4, <2>5 DEF ES!EventInv, ES!SetAccounts
<1>5. ASSUME NEW s \in Stream, NEW n \in 0..2, ES!Stop(s, n)
      PROVE  ES!EventInv'
  <2>1. PICK l \in Nat : l = Len(events)
    BY <1>1
  <2>2. events' \in Seq(Stream) /\ Len(events') = l + n
    <3>1. PICK more : more = [i \in 1..n |-> s]
      OBVIOUS
    <3>2. more \in Seq(Stream) /\ Len(more) = n
      BY <3>1
    <3>3. events' = events \o more
      BY <1>5, <3>1 DEF ES!Stop
    <3> QED
      BY <1>1, <2>1, <3>2, <3>3
  <2>3. ASSUME NEW p \in ES!Projections
        PROVE  ES!Exact(ES!Account(p)', l + n) /\ ES!NoGap(ES!Account(p)')
    <3>1. PICK acc : acc = ES!Account(p)'
      OBVIOUS
    <3>2. acc = [pr |-> ES!NewProjection, snap |-> NoSnapshot, gap |-> FALSE]
      BY <1>5, <3>1 DEF ES!Stop, ES!Account
    <3>3. PICK k \in Nat : k = l + n
      OBVIOUS
    <3>4. ES!Exact(acc, k)
      BY <3>2, NewIsExact
    <3> QED
      BY <3>1, <3>2, <3>3, <3>4 DEF ES!NoGap
  <2> QED
    BY <1>5, <2>2, <2>3 DEF ES!EventInv, ES!Stop
<1>6. ASSUME NEW p \in ES!Projections, ES!CatchUp(p)
      PROVE  ES!EventInv'
  <2>1. PICK as : as = [q \in ES!Projections |->
                          IF q = p THEN ES!CaughtUp(ES!Account(p)) ELSE ES!Account(q)]
    OBVIOUS
  <2>2. ES!SetAccounts(as) /\ events' = events
    BY <1>6, <2>1 DEF ES!CatchUp
  <2>3. ASSUME NEW q \in ES!Projections
        PROVE  ES!Exact(ES!Account(q)', Len(events)) /\ (q \in Polling => ES!NoGap(ES!Account(q)'))
    <3>1. PICK acc : acc = ES!Account(q)
      OBVIOUS
    <3>2. ES!Exact(acc, Len(events)) /\ (q \in Polling => ES!NoGap(acc))
      BY <1>1, <3>1
    <3>3. ES!Exact(as[q], Len(events)) /\ (ES!NoGap(acc) => ES!NoGap(as[q]))
      <4>1. CASE q = p
        <5>1. as[q] = ES!CaughtUp(acc)
          BY <2>1, <3>1, <4>1
        <5> QED
          BY <1>1, <3>2, <5>1, CaughtUpExact
      <4>2. CASE q # p
        <5>1. as[q] = acc
          BY <2>1, <3>1, <4>2
        <5> QED
          BY <3>2, <5>1
      <4> QED
        BY <4>1, <4>2
    <3>4. ES!Account(q)' = as[q]
      BY <2>2, <3>3, AccountsSet DEF ES!Exact
    <3> QED
      BY <3>2, <3>3, <3>4
  <2> QED
    BY <1>1, <2>2, <2>3 DEF ES!EventInv, ES!SetAccounts
<1>7. ASSUME NEW p \in ES!Projections, ES!SaveSnapshot(p)
      PROVE  ES!EventInv'
  <2>1. ASSUME NEW q \in ES!Projections
        PROVE  ES!Exact(ES!Account(q)', Len(events)) /\ (q \in Polling => ES!NoGap(ES!Account(q)'))
    <3>1. PICK acc : acc = ES!Account(q)
      OBVIOUS
    <3>2. /\ ES!Exact(acc, Len(events)) /\ (q \in Polling => ES!NoGap(acc))
          /\ acc.pr = proj[q] /\ acc.gap = gapped[q] /\ acc.snap = snaps[q]
          /\ acc \in ES!Accounts
      BY <1>1, <3>1 DEF ES!Account, ES!Exact
    <3>3. CASE q # p
      <4>1. proj'[q] = proj[q] /\ snaps'[q] = snaps[q] /\ gapped'[q] = gapped[q]
        BY <1>7, <3>3 DEF ES!SaveSnapshot, ES!EventInv
      <4>2. ES!Account(q)' = acc
        BY <3>1, <4>1 DEF ES!Account
      <4> QED
        BY <3>2, <4>2
    <3>4. CASE q = p
      <4>1. PICK snap : snap = [state |-> acc.pr.state, pos |-> acc.pr.pos, gapped |-> acc.gap]
        OBVIOUS
      <4>2. PICK b : b = [pr |-> acc.pr, snap |-> snap, gap |-> acc.gap]
        OBVIOUS
      <4>3. ES!Account(q)' = b
        BY <1>7, <3>2, <3>4, <4>1, <4>2 DEF ES!SaveSnapshot, ES!EventInv, ES!Account, ES!Snapshot
      <4>4. b \in ES!Accounts
        BY <3>2, <4>1, <4>2 DEF ES!Accounts, ES!Saved
      <4>5. ES!Exact(b, Len(events)) /\ (ES!NoGap(acc) => ES!NoGap(b))
        BY <3>2, <4>1, <4>2, <4>4 DEF ES!Exact, ES!NoGap
      <4> QED
        BY <3>2, <4>3, <4>5
    <3> QED
      BY <3>3, <3>4
  <2> QED
    BY <1>1, <1>7, <2>1 DEF ES!EventInv, ES!SaveSnapshot
<1>8. ASSUME NEW p \in ES!Projections, ES!LoadSnapshot(p)
      PROVE  ES!EventInv'
  <2>1. ASSUME NEW q \in ES!Projections
        PROVE  ES!Exact(ES!Account(q)', Len(events)) /\ (q \in Polling => ES!NoGap(ES!Account(q)'))
    <3>1. PICK acc : acc = ES!Account(q)
      OBVIOUS
    <3>2. /\ ES!Exact(acc, Len(events)) /\ (q \in Polling => ES!NoGap(acc))
          /\ acc.pr = proj[q] /\ acc.gap = gapped[q] /\ acc.snap = snaps[q]
          /\ acc \in ES!Accounts
      BY <1>1, <3>1 DEF ES!Account, ES!Exact
    <3>3. CASE q # p
      <4>1. proj'[q] = proj[q] /\ snaps'[q] = snaps[q] /\ gapped'[q] = gapped[q]
        BY <1>8, <3>3 DEF ES!LoadSnapshot, ES!EventInv
      <4>2. ES!Account(q)' = acc
        BY <3>1, <4>1 DEF ES!Account
      <4> QED
        BY <3>2, <4>2
    <3>4. CASE q = p
      <4>1. acc.snap # NoSnapshot /\ acc.snap \in ES!Saved
        BY <1>8, <3>2, <3>4 DEF ES!LoadSnapshot, ES!Accounts
      <4>2. PICK pr : pr = [state |-> acc.snap.state, pos |-> acc.snap.pos, since |-> acc.pr.since]
        OBVIOUS
      <4>3. PICK b : b = [pr |-> pr, snap |-> acc.snap, gap |-> acc.snap.gapped]
        OBVIOUS
      <4>4. proj'[q] = pr
        <5>1. proj[q] = [state |-> proj[q].state, pos |-> proj[q].pos, since |-> proj[q].since]
          BY <3>2 DEF ES!Accounts
        <5> QED
          BY <1>8, <3>2, <3>4, <4>2, <5>1 DEF ES!LoadSnapshot, ES!EventInv
      <4>5. snaps'[q] = acc.snap /\ gapped'[q] = acc.snap.gapped
        BY <1>8, <3>2, <3>4 DEF ES!LoadSnapshot, ES!EventInv
      <4>6. ES!Account(q)' = b
        BY <4>3, <4>4, <4>5 DEF ES!Account
      <4>7. b \in ES!Accounts
        BY <3>2, <4>1, <4>2, <4>3 DEF ES!Accounts, ES!Saved
      <4>8. ES!Exact(b, Len(events)) /\ (ES!NoGap(acc) => ES!NoGap(b))
        BY <3>2, <4>1, <4>2, <4>3, <4>7 DEF ES!Exact, ES!NoGap
      <4> QED
        BY <3>2, <4>6, <4>8
    <3> QED
      BY <3>3, <3>4
  <2> QED
    BY <1>1, <1>8, <2>1 DEF ES!EventInv, ES!LoadSnapshot
<1>9. ASSUME NEW p \in ES!Projections, ES!Reset(p)
      PROVE  ES!EventInv'
  <2>1. ASSUME NEW q \in ES!Projections
        PROVE  ES!Exact(ES!Account(q)', Len(events)) /\ (q \in Polling => ES!NoGap(ES!Account(q)'))
    <3>1. PICK acc : acc = ES!Account(q)
      OBVIOUS
    <3>2. /\ ES!Exact(acc, Len(events)) /\ (q \in Polling => ES!NoGap(acc))
          /\ acc.pr = proj[q] /\ acc.gap = gapped[q] /\ acc.snap = snaps[q]
          /\ acc \in ES!Accounts
      BY <1>1, <3>1 DEF ES!Account, ES!Exact
    <3>3. CASE q # p
      <4>1. proj'[q] = proj[q] /\ snaps'[q] = snaps[q] /\ gapped'[q] = gapped[q]
        BY <1>9, <3>3 DEF ES!Reset, ES!EventInv
      <4>2. ES!Account(q)' = acc
        BY <3>1, <4>1 DEF ES!Account
      <4> QED
        BY <3>2, <4>2
    <3>4. CASE q = p
      <4>1. PICK s : s = acc.snap
        OBVIOUS
      <4>2. PICK b : b = [pr |-> ES!NewProjection, snap |-> s, gap |-> FALSE]
        OBVIOUS
      <4>3. ES!Account(q)' = b
        BY <1>9, <3>2, <3>4, <4>1, <4>2 DEF ES!Reset, ES!EventInv, ES!Account
      <4>4. PICK n \in Nat : n = Len(events)
        BY <1>1
      <4>5. /\ s \in ES!Saved \cup {NoSnapshot}
            /\ s # NoSnapshot => s.pos <= n /\ (~s.gapped => s.state = ES!UpTo(s.pos))
        BY <3>2, <4>1, <4>4 DEF ES!Exact, ES!Accounts
      <4>6. ES!Exact(b, n)
        BY <4>2, <4>5, NewIsExact
      <4>7. ES!NoGap(acc) => ES!NoGap(b)
        BY <4>1, <4>2 DEF ES!NoGap
      <4> QED
        BY <3>2, <4>3, <4>4, <4>6, <4>7
    <3> QED
      BY <3>3, <3>4
  <2> QED
    BY <1>1, <1>9, <2>1 DEF ES!EventInv, ES!Reset
<1> QED
  BY <1>4, <1>5, <1>6, <1>7, <1>8, <1>9 DEF ES!EventNext

(* event-sourcing-store: through live events, batches, catching up,         *)
(* automatic and manual snapshots, loads, resets and restarts, a projection *)
(* and each of its snapshots reflect exactly the events up to their         *)
(* position, unless it was a live projection that was behind.               *)
THEOREM ProjectionsCurrent == LogsSpec => []ProjectionsExact
<1>1. LogsInit => ES!EventInv
  <2> SUFFICES ASSUME LogsInit PROVE ES!EventInv
    OBVIOUS
  <2>1. ES!EventInit
    BY DEF LogsInit
  <2>2. events = << >> /\ events \in Seq(Stream) /\ Len(events) = 0
    BY <2>1 DEF ES!EventInit
  <2>3. ASSUME NEW p \in ES!Projections
        PROVE  ES!Exact(ES!Account(p), 0) /\ ES!NoGap(ES!Account(p))
    <3>1. PICK acc : acc = ES!Account(p)
      OBVIOUS
    <3>2. acc = [pr |-> ES!NewProjection, snap |-> NoSnapshot, gap |-> FALSE]
      BY <2>1, <3>1 DEF ES!EventInit, ES!Account
    <3>3. ES!Exact(acc, 0)
      BY <3>2, NewIsExact
    <3> QED
      BY <3>1, <3>2, <3>3 DEF ES!NoGap
  <2> QED
    BY <2>1, <2>2, <2>3 DEF ES!EventInv, ES!EventInit
<1>2. ES!EventInv /\ [LogsNext]_logsVars => ES!EventInv'
  <2> SUFFICES ASSUME ES!EventInv, [LogsNext]_logsVars PROVE ES!EventInv'
    OBVIOUS
  <2>1. CASE UNCHANGED eventVars
    BY <2>1 DEF eventVars, ES!EventInv, ES!Account
  <2>2. CASE ES!EventNext
    BY <2>2, EventStep
  <2>3. UNCHANGED eventVars \/ ES!EventNext
    BY DEF LogsNext, logsVars
  <2> QED
    BY <2>1, <2>2, <2>3
<1>3. ES!EventInv => ProjectionsExact
  BY DEF ES!EventInv, ES!Exact, ES!NoGap, ES!Account, ProjectionsExact, ES!ProjectionsExact
<1> QED
  BY <1>1, <1>2, <1>3, PTL DEF LogsSpec

(***************************************************************************)
(* change-data-capture                                                     *)
(***************************************************************************)

LEMMA MaxOfChanges ==
  ASSUME CD!LogInv, NEW CONSTANT S, S \subseteq DOMAIN changes, S # {}
  PROVE  CD!Max(S) \in S /\ \A t \in S : t =< CD!Max(S)
<1>1. PICK n \in Nat : n = nextSeq
  BY DEF CD!LogInv
<1>2. S \subseteq 0..(n - 1)
  BY <1>1 DEF CD!LogInv
<1>3. IsFiniteSet(S) /\ S \in SUBSET Int
  <2>1. IsFiniteSet(0..(n - 1))
    BY FS_Interval
  <2>2. IsFiniteSet(S)
    BY <1>2, <2>1, FS_Subset
  <2> QED
    BY <1>2, <2>2
<1>4. PICK m \in S : \A t \in S : t =< m
  BY <1>3, GreatestElement
<1>5. \E x \in S : \A y \in S : x >= y
  BY <1>3, <1>4
<1>6. PICK x : x = CD!Max(S)
  OBVIOUS
<1>7. x \in S /\ \A y \in S : x >= y
  BY <1>5, <1>6 DEF CD!Max
<1> QED
  BY <1>3, <1>6, <1>7

(* The change that is last for its key is pending with any of its changes.  *)
LEMMA LastPending ==
  ASSUME CD!LogInv, NEW CONSTANT k \in CKey, NEW CONSTANT s \in Int, CD!Pending(k, s)
  PROVE  \E t \in DOMAIN changes : t >= s /\ changes[t].key = k /\ CD!IsLast(t)
<1>1. PICK S : S = {t \in DOMAIN changes : changes[t].key = k}
  OBVIOUS
<1>2. PICK u \in DOMAIN changes : u >= s /\ changes[u].key = k
  BY DEF CD!Pending
<1>3. S \subseteq DOMAIN changes /\ S # {} /\ u \in S
  BY <1>1, <1>2
<1>4. PICK t \in S : \A x \in S : x =< t
  BY <1>3, MaxOfChanges
<1>5. t \in Int /\ u \in Int /\ u =< t
  BY <1>1, <1>3, <1>4 DEF CD!LogInv
<1>6. CD!IsLast(t)
  BY <1>1, <1>4 DEF CD!IsLast
<1> QED
  BY <1>1, <1>2, <1>4, <1>5, <1>6

(* The position of a reader is never past the end of the log.               *)
LEMMA PositionInLog ==
  ASSUME CD!LogInv, NEW CONSTANT p \in Int, p =< nextSeq
  PROVE  /\ CD!PositionAfter(p, CD!ReadFrom(p)) \in Int
         /\ CD!PositionAfter(p, CD!ReadFrom(p)) =< nextSeq
<1>1. PICK S : S = CD!ReadFrom(p)
  OBVIOUS
<1>2. S \subseteq DOMAIN changes
  BY <1>1 DEF CD!ReadFrom
<1>3. CASE S = {}
  BY <1>1, <1>3 DEF CD!PositionAfter
<1>4. CASE S # {}
  <2>1. PICK m : m = CD!Max(S)
    OBVIOUS
  <2>2. m \in DOMAIN changes
    BY <1>2, <1>4, <2>1, MaxOfChanges
  <2>3. m \in Int /\ m + 1 =< nextSeq
    BY <2>2 DEF CD!LogInv
  <2>4. CD!PositionAfter(p, CD!ReadFrom(p)) = m + 1
    BY <1>1, <1>4, <2>1 DEF CD!PositionAfter
  <2> QED
    BY <2>3, <2>4
<1> QED
  BY <1>3, <1>4

LEMMA ChangeStep ==
  ASSUME CD!CdcInv, NEW CONSTANT k \in CKey, NEW CONSTANT op \in {"INSERT", "UPDATE", "DELETE"},
         NEW CONSTANT v \in CD!Row, (op = "DELETE") <=> (v = NoRow), CD!Change(k, op, v)
  PROVE  CD!CdcInv'
<1>1. CD!LogInv
  BY DEF CD!CdcInv
<1>2. PICK n \in Nat : n = nextSeq
  BY <1>1 DEF CD!LogInv
<1>3. PICK D : D = DOMAIN changes
  OBVIOUS
<1>4. /\ DOMAIN changes' = D \cup {n} /\ n \notin D
      /\ changes'[n] = [op |-> op, key |-> k, after |-> v]
      /\ \A s \in D : changes'[s] = changes[s]
  <2>1. D \subseteq 0..(n - 1)
    BY <1>1, <1>2, <1>3 DEF CD!LogInv
  <2>2. n \notin D
    BY <2>1
  <2>3. changes' = CD!Logged(k, op, v)
    BY DEF CD!Change
  <2> QED
    BY <1>2, <1>3, <2>2, <2>3 DEF CD!Logged
<1>5. /\ nextSeq' = n + 1 /\ rows' = [rows EXCEPT ![k] = v]
      /\ (op = "INSERT") <=> (rows[k] = NoRow)
      /\ UNCHANGED <<overlooked, cpos, handled, view, index>>
  BY <1>2 DEF CD!Change
<1>6. /\ \A s \in D : s \in Int /\ 0 =< s /\ s < n
      /\ rows \in [CKey -> CD!Row] /\ \A s \in D : changes[s] \in CD!ChangeEvent
      /\ \A s \in D : (changes[s].op = "DELETE") <=> (changes[s].after = NoRow)
      /\ \A s \in D : CD!IsLast(s) => changes[s].after = rows[changes[s].key]
  BY <1>1, <1>2, <1>3 DEF CD!LogInv
<1>7. /\ rows' \in [CKey -> CD!Row] /\ rows'[k] = v /\ \A x \in CKey \ {k} : rows'[x] = rows[x]
  BY <1>5, <1>6
<1>8. ASSUME NEW s \in D
      PROVE  changes[s].key \in CKey
  BY <1>6 DEF CD!ChangeEvent
<1>9. CD!LogInv'
  <2>1. nextSeq' \in Nat /\ DOMAIN changes' \subseteq 0..(nextSeq' - 1)
    BY <1>4, <1>5, <1>6
  <2>2. \A s \in DOMAIN changes' : changes'[s] \in CD!ChangeEvent
    BY <1>4, <1>6 DEF CD!ChangeEvent
  <2>3. \A s \in DOMAIN changes' : (changes'[s].op = "DELETE") <=> (changes'[s].after = NoRow)
    BY <1>4, <1>6
  <2>4. ASSUME NEW s \in DOMAIN changes', CD!IsLast(s)'
        PROVE  changes'[s].after = rows'[changes'[s].key]
    <3>1. CASE s = n
      BY <1>4, <1>7, <3>1
    <3>2. CASE s \in D
      <4>1. changes'[s] = changes[s] /\ changes[s].key \in CKey
        BY <1>4, <1>8, <3>2
      <4>2. changes[s].key # k
        BY <1>4, <1>6, <2>4, <3>2, <4>1 DEF CD!IsLast
      <4>3. CD!IsLast(s)
        BY <1>3, <1>4, <2>4, <3>2 DEF CD!IsLast
      <4> QED
        BY <1>6, <1>7, <3>2, <4>1, <4>2, <4>3
    <3> QED
      BY <1>4, <3>1, <3>2
  <2>5. ASSUME NEW s \in DOMAIN changes', NEW t \in DOMAIN changes',
               s < t, changes'[s].key = changes'[t].key, changes'[t].op = "INSERT",
               \A u \in DOMAIN changes' : u \in (s + 1)..(t - 1) => changes'[u].key # changes'[s].key
        PROVE  changes'[s].after = NoRow
    <3>1. s \in D /\ s \in Int /\ t \in Int
      BY <1>4, <1>6, <2>5
    <3>2. \A u \in D : u \in (s + 1)..(t - 1) => changes[u].key # changes[s].key
      BY <1>4, <2>5, <3>1
    <3>3. CASE t \in D
      <4>1. changes'[s] = changes[s] /\ changes'[t] = changes[t]
        BY <1>4, <3>1, <3>3
      <4> QED
        BY <1>1, <1>3, <1>5, <2>5, <3>1, <3>2, <3>3, <4>1 DEF CD!LogInv
    <3>4. CASE t = n
      <4>1. changes[s].key = k /\ changes'[s] = changes[s]
        BY <1>4, <2>5, <3>1, <3>4
      <4>2. CD!IsLast(s)
        <5> SUFFICES ASSUME NEW u \in D, changes[u].key = changes[s].key, ~(u =< s) PROVE FALSE
          BY <1>3 DEF CD!IsLast
        <5>1. u \in (s + 1)..(t - 1)
          BY <1>6, <3>1, <3>4
        <5> QED
          BY <3>2, <5>1
      <4>3. changes[s].after = rows[k]
        BY <1>6, <3>1, <4>1, <4>2
      <4> QED
        BY <1>4, <1>5, <2>5, <3>4, <4>1, <4>3
    <3> QED
      BY <1>4, <3>3, <3>4
  <2> QED
    BY <1>7, <2>1, <2>2, <2>3, <2>4, <2>5 DEF CD!LogInv
<1>10. ASSUME NEW CONSTANT s \in Int, s =< n, NEW x \in CKey
       PROVE  /\ CD!Pending(x, s) => CD!Pending(x, s)' /\ CD!Pending(k, s)'
              /\ CD!Pending(x, s)' \/ (rows'[x] = rows[x] /\ ~CD!Pending(x, s))
  <2>1. CD!Pending(k, s)'
    BY <1>4, <1>10 DEF CD!Pending
  <2>2. CD!Pending(x, s) => CD!Pending(x, s)'
    BY <1>3, <1>4 DEF CD!Pending
  <2> QED
    BY <1>7, <2>1, <2>2
<1>11. CD!ViewAt(view.data, view.pos)'
  <2>1. PICK s \in Int : s = view.pos /\ s =< n
    BY <1>2 DEF CD!CdcInv
  <2>2. CD!ViewAt(view.data, s)
    BY <2>1 DEF CD!CdcInv
  <2>3. ASSUME NEW x \in CKey PROVE CD!Pending(x, s)' \/ view.data[x] = CD!ShownRow(x)'
    BY <1>10, <2>1, <2>2 DEF CD!ViewAt, CD!ShownRow
  <2> QED
    BY <1>5, <2>1, <2>2, <2>3 DEF CD!ViewAt
<1>12. CD!IndexAt(index, index.pos)'
  <2>1. CD!IndexAt(index, index.pos)
    BY DEF CD!CdcInv
  <2>2. PICK s \in Int : s = index.pos /\ s =< n
    BY <1>2, <2>1 DEF CD!CdcInv, CD!IndexAt
  <2>3. PICK ix : ix = index
    OBVIOUS
  <2>4. CD!IndexAt(ix, s)
    BY <2>1, <2>2, <2>3
  <2>5. ASSUME NEW x \in CKey PROVE CD!Pending(x, s)' \/ ix.rows[x] = rows'[x]
    BY <1>10, <2>2, <2>4 DEF CD!IndexAt
  <2>6. ASSUME NEW t \in DOMAIN changes', t >= s,
               changes'[t].op = "INSERT", changes'[t].key \notin overlooked,
               \A u \in DOMAIN changes' : u \in s..(t - 1) => changes'[u].key # changes'[t].key
        PROVE  ix.rows[changes'[t].key] = NoRow
    <3>1. \A u \in D : u \in s..(t - 1) => changes[u].key # changes'[t].key
      BY <1>4, <2>6
    <3>2. CASE t \in D
      <4>1. changes'[t] = changes[t]
        BY <1>4, <3>2
      <4> QED
        BY <1>3, <2>4, <2>6, <3>1, <3>2, <4>1 DEF CD!IndexAt
    <3>3. CASE t = n
      <4>1. changes'[t].key = k /\ changes'[t].op = op
        BY <1>4, <3>3
      <4>2. ~CD!Pending(k, s)
        <5> SUFFICES ASSUME NEW u \in D, u >= s, changes[u].key = k PROVE FALSE
          BY <1>3 DEF CD!Pending
        <5>1. u \in s..(t - 1)
          BY <1>6, <3>3
        <5> QED
          BY <3>1, <4>1, <5>1
      <4>3. ix.rows[k] = rows[k]
        BY <2>4, <4>2 DEF CD!IndexAt
      <4> QED
        BY <1>5, <2>6, <4>1, <4>3
    <3> QED
      BY <1>4, <3>2, <3>3
  <2>7. CD!IndexAt(ix, s)'
    BY <1>5, <2>4, <2>5, <2>6 DEF CD!IndexAt
  <2> QED
    BY <1>5, <2>2, <2>3, <2>7
<1>13. /\ view'.pos \in Int /\ view'.pos =< nextSeq' /\ index'.pos =< nextSeq'
       /\ cpos' \in Int /\ cpos' =< nextSeq'
       /\ \A s \in DOMAIN changes' : s < cpos' => s \in handled'
  <2>1. /\ view.pos \in Int /\ view.pos =< n /\ index.pos \in Int /\ index.pos =< n
        /\ cpos \in Int /\ cpos =< n /\ \A s \in D : s < cpos => s \in handled
    BY <1>2, <1>3 DEF CD!CdcInv, CD!IndexAt
  <2> QED
    BY <1>4, <1>5, <2>1
<1> QED
  BY <1>9, <1>11, <1>12, <1>13 DEF CD!CdcInv

(* compact keeps the last change of every key, so nothing that is pending   *)
(* is lost.  If that is an insert, the change before it was a delete: the   *)
(* index had read it, or the key is one of those that are overlooked.       *)
LEMMA CompactStep ==
  ASSUME CD!CdcInv, CD!Compact
  PROVE  CD!CdcInv'
<1>1. CD!LogInv
  BY DEF CD!CdcInv
<1>2. PICK kept : kept = {s \in DOMAIN changes : CD!IsLast(s)}
  OBVIOUS
<1>3. /\ DOMAIN changes' = kept /\ kept \subseteq DOMAIN changes
      /\ \A s \in kept : changes'[s] = changes[s] /\ CD!IsLast(s)
      /\ overlooked \subseteq overlooked'
      /\ \A u \in DOMAIN changes \ kept :
            u >= index.pos /\ changes[u].op = "DELETE" => changes[u].key \in overlooked'
      /\ UNCHANGED <<rows, nextSeq, cpos, handled, view, index>>
  BY <1>2 DEF CD!Compact
<1>4. ASSUME NEW s \in kept, NEW t \in kept, changes[s].key = changes[t].key PROVE s = t
  <2>1. s \in Int /\ t \in Int /\ s \in DOMAIN changes /\ t \in DOMAIN changes
    BY <1>1, <1>3 DEF CD!LogInv
  <2> QED
    BY <1>3, <1>4, <2>1 DEF CD!IsLast
<1>5. CD!LogInv'
  <2>1. ASSUME NEW s \in DOMAIN changes', NEW t \in DOMAIN changes', s < t
        PROVE  changes'[s].key # changes'[t].key
    <3>1. s \in Int /\ t \in Int
      BY <1>1, <1>3 DEF CD!LogInv
    <3> QED
      BY <1>3, <1>4, <2>1, <3>1
  <2>2. /\ nextSeq' \in Nat /\ DOMAIN changes' \subseteq 0..(nextSeq' - 1)
        /\ rows' \in [CKey -> CD!Row] /\ \A s \in DOMAIN changes' : changes'[s] \in CD!ChangeEvent
        /\ \A s \in DOMAIN changes' : (changes'[s].op = "DELETE") <=> (changes'[s].after = NoRow)
        /\ \A s \in DOMAIN changes' : changes'[s].after = rows'[changes'[s].key]
    BY <1>1, <1>3 DEF CD!LogInv
  <2> QED
    BY <2>1, <2>2 DEF CD!LogInv
<1>6. ASSUME NEW CONSTANT s \in Int, NEW CONSTANT x \in CKey
      PROVE  CD!Pending(x, s) => CD!Pending(x, s)'
  <2> SUFFICES ASSUME CD!Pending(x, s) PROVE CD!Pending(x, s)'
    OBVIOUS
  <2>1. PICK t \in DOMAIN changes : t >= s /\ changes[t].key = x /\ CD!IsLast(t)
    BY <1>1, LastPending
  <2>2. t \in kept
    BY <1>2, <2>1
  <2> QED
    BY <1>3, <2>1, <2>2 DEF CD!Pending
<1>7. CD!ViewAt(view.data, view.pos)'
  <2>1. PICK s \in Int : s = view.pos
    BY DEF CD!CdcInv
  <2>2. CD!ViewAt(view.data, s)
    BY <2>1 DEF CD!CdcInv
  <2>3. ASSUME NEW CONSTANT x \in CKey PROVE CD!Pending(x, s)' \/ view.data[x] = CD!ShownRow(x)'
    BY <1>3, <1>6, <2>2 DEF CD!ViewAt, CD!ShownRow
  <2> QED
    BY <1>3, <2>1, <2>2, <2>3 DEF CD!ViewAt
<1>8. CD!IndexAt(index, index.pos)'
  <2>1. CD!IndexAt(index, index.pos)
    BY DEF CD!CdcInv
  <2>2. PICK s \in Int : s = index.pos
    BY <2>1 DEF CD!IndexAt
  <2>3. PICK ix : ix = index
    OBVIOUS
  <2>4. CD!IndexAt(ix, s)
    BY <2>1, <2>2, <2>3
  <2>5. ASSUME NEW CONSTANT x \in CKey PROVE CD!Pending(x, s)' \/ ix.rows[x] = rows'[x]
    BY <1>3, <1>6, <2>4 DEF CD!IndexAt
  <2>6. ASSUME NEW t \in DOMAIN changes', t >= s,
               changes'[t].op = "INSERT", changes'[t].key \notin overlooked'
        PROVE  ix.rows[changes'[t].key] = NoRow
    <3>1. PICK k \in CKey : k = changes[t].key
      BY <1>1, <1>3 DEF CD!LogInv, CD!ChangeEvent
    <3>2. t \in kept /\ t \in DOMAIN changes /\ changes'[t] = changes[t] /\ k \notin overlooked
      BY <1>3, <2>6, <3>1
    <3>3. \A u \in DOMAIN changes : u \in Int /\ changes[u] \in CD!ChangeEvent
      BY <1>1 DEF CD!LogInv
    <3>4. CASE \A u \in DOMAIN changes : u \in s..(t - 1) => changes[u].key # k
      BY <2>4, <2>6, <3>1, <3>2, <3>4 DEF CD!IndexAt
    <3>5. CASE \E u \in DOMAIN changes : u \in s..(t - 1) /\ changes[u].key = k
      <4>1. PICK S : S = {u \in DOMAIN changes : u \in s..(t - 1) /\ changes[u].key = k}
        OBVIOUS
      <4>2. S \subseteq DOMAIN changes /\ S # {}
        BY <3>5, <4>1
      <4>3. PICK w \in S : \A u \in S : u =< w
        BY <1>1, <4>2, MaxOfChanges
      <4>4. w \in DOMAIN changes /\ w \in Int /\ w >= s /\ w < t /\ changes[w].key = k
        <5>1. w \in DOMAIN changes /\ w \in s..(t - 1) /\ changes[w].key = k
          BY <4>1
        <5>2. t \in Int
          BY <3>2, <3>3
        <5> QED
          BY <5>1, <5>2
      <4>5. \A u \in DOMAIN changes : u \in (w + 1)..(t - 1) => changes[u].key # k
        BY <2>2, <3>3, <4>1, <4>3, <4>4
      <4>6. changes[w].after = NoRow
        BY <1>1, <2>6, <3>1, <3>2, <4>4, <4>5 DEF CD!LogInv
      <4>7. changes[w].op = "DELETE"
        BY <1>1, <4>4, <4>6 DEF CD!LogInv
      <4>8. w \notin kept
        BY <1>4, <3>1, <3>2, <4>4
      <4>9. k \in overlooked'
        BY <1>3, <2>2, <4>4, <4>7, <4>8
      <4> QED
        BY <2>6, <3>1, <3>2, <4>9
    <3> QED
      BY <3>4, <3>5
  <2>7. CD!IndexAt(ix, s)'
    BY <1>3, <2>4, <2>5, <2>6 DEF CD!IndexAt
  <2> QED
    BY <1>3, <2>2, <2>3, <2>7
<1>9. /\ view'.pos \in Int /\ view'.pos =< nextSeq' /\ index'.pos =< nextSeq'
      /\ cpos' \in Int /\ cpos' =< nextSeq'
      /\ \A s \in DOMAIN changes' : s < cpos' => s \in handled'
  BY <1>3 DEF CD!CdcInv
<1> QED
  BY <1>5, <1>7, <1>8, <1>9 DEF CD!CdcInv

(* What a reader knows is about the log and the table only.                 *)
LEMMA LogUntouched ==
  ASSUME UNCHANGED <<rows, changes, nextSeq, overlooked>>
  PROVE  /\ CD!LogInv => CD!LogInv'
         /\ \A d, s : CD!ViewAt(d, s) => CD!ViewAt(d, s)'
         /\ \A ix, s : CD!IndexAt(ix, s) => CD!IndexAt(ix, s)'
<1>1. CD!LogInv => CD!LogInv'
  BY DEF CD!LogInv, CD!IsLast
<1>2. \A d, s : CD!ViewAt(d, s) => CD!ViewAt(d, s)'
  BY DEF CD!ViewAt, CD!Pending, CD!ShownRow
<1>3. \A ix, s : CD!IndexAt(ix, s) => CD!IndexAt(ix, s)'
  BY DEF CD!IndexAt, CD!Pending
<1> QED
  BY <1>1, <1>2, <1>3

(* The consumer: a position is moved past a change only when the change was *)
(* handled.                                                                 *)
LEMMA ConsumerStep ==
  ASSUME CD!CdcInv, UNCHANGED <<rows, changes, nextSeq, overlooked, view, index>>,
         cpos' \in Int, cpos' =< nextSeq,
         \A s \in DOMAIN changes : s < cpos' => s \in handled'
  PROVE  CD!CdcInv'
<1>1. CD!LogInv' /\ CD!ViewAt(view.data, view.pos)'
  BY LogUntouched DEF CD!CdcInv
<1>2. CD!IndexAt(index, index.pos)'
  BY LogUntouched DEF CD!CdcInv
<1> QED
  BY <1>1, <1>2 DEF CD!CdcInv

LEMMA PollStep ==
  ASSUME CD!CdcInv, CD!Poll
  PROVE  CD!CdcInv'
<1>1. PICK p \in Int : p = cpos /\ p =< nextSeq
  BY DEF CD!CdcInv
<1>2. cpos' \in Int /\ cpos' =< nextSeq
  BY <1>1, PositionInLog DEF CD!Poll, CD!CdcInv
<1>3. ASSUME NEW s \in DOMAIN changes, s < cpos' PROVE s \in handled'
  <2>1. CASE s < p
    BY <1>1, <2>1 DEF CD!CdcInv, CD!Poll
  <2>2. CASE ~(s < p)
    <3>1. s \in Int
      BY DEF CD!CdcInv, CD!LogInv
    <3> QED
      BY <1>1, <2>2, <3>1 DEF CD!Poll, CD!ReadFrom
  <2> QED
    BY <2>1, <2>2
<1> QED
  BY <1>2, <1>3, ConsumerStep DEF CD!Poll

LEMMA PollCutShortStep ==
  ASSUME CD!CdcInv, NEW CONSTANT n, CD!PollCutShort(n)
  PROVE  CD!CdcInv'
<1>1. cpos' = cpos /\ handled \subseteq handled'
  BY DEF CD!PollCutShort
<1>2. /\ cpos' \in Int /\ cpos' =< nextSeq
      /\ \A s \in DOMAIN changes : s < cpos' => s \in handled'
  BY <1>1 DEF CD!CdcInv
<1> QED
  BY <1>2, ConsumerStep DEF CD!PollCutShort

LEMMA SeekStep ==
  ASSUME CD!CdcInv, NEW CONSTANT n \in Int, CD!Seek(n)
  PROVE  CD!CdcInv'
<1>1. cpos \in Int /\ cpos =< nextSeq /\ nextSeq \in Int /\ n < cpos /\ cpos' = n /\ handled' = handled
  BY DEF CD!Seek, CD!CdcInv, CD!LogInv
<1>2. \A s \in DOMAIN changes : s \in Int /\ (s < cpos => s \in handled)
  BY DEF CD!CdcInv, CD!LogInv
<1>3. /\ cpos' \in Int /\ cpos' =< nextSeq
      /\ \A s \in DOMAIN changes : s < cpos' => s \in handled'
  BY <1>1, <1>2
<1> QED
  BY <1>3, ConsumerStep DEF CD!Seek

(* A reader that has read on is past every change of the log.               *)
LEMMA AllRead ==
  ASSUME CD!LogInv, NEW CONSTANT p \in Int, NEW CONSTANT t \in DOMAIN changes
  PROVE  t \in Int /\ t < CD!PositionAfter(p, CD!ReadFrom(p))
<1>1. PICK S : S = CD!ReadFrom(p)
  OBVIOUS
<1>2. S \subseteq DOMAIN changes /\ (t \in S <=> t >= p)
  BY <1>1 DEF CD!ReadFrom
<1>3. \A u \in DOMAIN changes : u \in Int
  BY DEF CD!LogInv
<1>4. CASE S = {}
  BY <1>1, <1>2, <1>3, <1>4 DEF CD!PositionAfter
<1>5. CASE S # {}
  <2>1. PICK m : m = CD!Max(S)
    OBVIOUS
  <2>2. m \in S /\ \A u \in S : u =< m
    BY <1>2, <1>5, <2>1, MaxOfChanges
  <2>3. m \in Int /\ m >= p
    BY <1>1, <1>2, <1>3, <2>2 DEF CD!ReadFrom
  <2>4. t =< m
    BY <1>2, <1>3, <2>2, <2>3
  <2>5. CD!PositionAfter(p, CD!ReadFrom(p)) = m + 1
    BY <1>1, <1>5, <2>1 DEF CD!PositionAfter
  <2> QED
    BY <1>3, <2>3, <2>4, <2>5
<1> QED
  BY <1>4, <1>5

(* A change that no other change of its key follows is the last one.        *)
LEMMA NothingFollows ==
  ASSUME CD!LogInv, NEW CONSTANT s \in DOMAIN changes, ~CD!Pending(changes[s].key, s + 1)
  PROVE  changes[s].after = rows[changes[s].key]
<1>1. \A t \in DOMAIN changes : t \in Int
  BY DEF CD!LogInv
<1>2. CD!IsLast(s)
  BY <1>1 DEF CD!IsLast, CD!Pending
<1> QED
  BY <1>2 DEF CD!LogInv

(* The pending changes after s are those from s on but for s itself.        *)
LEMMA PendingNext ==
  ASSUME CD!LogInv, NEW CONSTANT s \in Int, NEW CONSTANT k, CD!Pending(k, s),
         s \in DOMAIN changes => changes[s].key # k
  PROVE  CD!Pending(k, s + 1)
<1>1. \A t \in DOMAIN changes : t \in Int
  BY DEF CD!LogInv
<1>2. PICK t \in DOMAIN changes : t >= s /\ changes[t].key = k
  BY DEF CD!Pending
<1>3. t # s /\ t \in Int
  BY <1>1, <1>2
<1>4. t >= s + 1
  BY <1>2, <1>3
<1> QED
  BY <1>2, <1>4 DEF CD!Pending

LEMMA ViewReads ==
  ASSUME CD!LogInv, NEW CONSTANT d, NEW CONSTANT s \in Int, CD!ViewAt(d, s)
  PROVE  CD!ViewAt(IF s \in DOMAIN changes THEN CD!Viewed(d, changes[s]) ELSE d, s + 1)
<1>1. d \in [CKey -> CD!Row] /\ \A k \in CKey : CD!Pending(k, s) \/ d[k] = CD!ShownRow(k)
  BY DEF CD!ViewAt
<1>2. CASE s \notin DOMAIN changes
  <2>1. \A k \in CKey : CD!Pending(k, s) => CD!Pending(k, s + 1)
    BY <1>2, PendingNext
  <2> QED
    BY <1>1, <1>2, <2>1 DEF CD!ViewAt
<1>3. CASE s \in DOMAIN changes
  <2>1. PICK e \in CD!ChangeEvent : e = changes[s]
    BY <1>3 DEF CD!LogInv
  <2>2. PICK k \in CKey : k = e.key
    BY <2>1 DEF CD!ChangeEvent
  <2>3. PICK v \in CD!Row : v = IF e.after \in Shown THEN e.after ELSE NoRow
    BY <2>1 DEF CD!ChangeEvent, CD!Row
  <2>4. PICK new : new = CD!Viewed(d, e)
    OBVIOUS
  <2>5. /\ new \in [CKey -> CD!Row] /\ new[k] = v
        /\ \A x \in CKey \ {k} : new[x] = d[x]
    BY <1>1, <2>2, <2>3, <2>4 DEF CD!Viewed
  <2>6. ASSUME NEW CONSTANT x \in CKey PROVE CD!Pending(x, s + 1) \/ new[x] = CD!ShownRow(x)
    <3>1. CASE x = k
      <4>1. CD!Pending(x, s + 1) \/ e.after = rows[x]
        BY <1>3, <2>1, <2>2, <3>1, NothingFollows
      <4> QED
        BY <2>3, <2>5, <3>1, <4>1 DEF CD!ShownRow
    <3>2. CASE x # k
      <4>1. CD!Pending(x, s) => CD!Pending(x, s + 1)
        BY <2>1, <2>2, <3>2, PendingNext
      <4> QED
        BY <1>1, <2>5, <3>2, <4>1
    <3> QED
      BY <3>1, <3>2
  <2> QED
    BY <1>3, <2>1, <2>4, <2>5, <2>6 DEF CD!ViewAt
<1> QED
  BY <1>2, <1>3

(* What one change does to the search index.                                *)
LEMMA IndexedRow ==
  ASSUME NEW x \in [rows : [CKey -> CD!Row], tokens : [CValue -> SUBSET CKey], pos : Int],
         NEW e \in CD!ChangeEvent, (e.op = "DELETE") <=> (e.after = NoRow)
  PROVE  /\ CD!Indexed(x, e) \in [rows : [CKey -> CD!Row], tokens : [CValue -> SUBSET CKey], pos : Int]
         /\ CD!Indexed(x, e).rows = [x.rows EXCEPT ![e.key] = e.after]
         /\ CD!Indexed(x, e).tokens =
              [v \in CValue |->
                 IF v = e.after THEN x.tokens[v] \cup {e.key}
                 ELSE IF e.op # "INSERT" /\ v = x.rows[e.key] THEN x.tokens[v] \ {e.key}
                 ELSE x.tokens[v]]
<1>1. PICK R \in [CKey -> CD!Row] : R = x.rows
  OBVIOUS
<1>2. PICK T \in [CValue -> SUBSET CKey] : T = x.tokens
  OBVIOUS
<1>3. PICK p \in Int : p = x.pos
  OBVIOUS
<1>4. x = [rows |-> R, tokens |-> T, pos |-> p]
  BY <1>1, <1>2, <1>3
<1>5. PICK k \in CKey : k = e.key
  BY DEF CD!ChangeEvent
<1>6. PICK a \in CD!Row : a = e.after
  BY DEF CD!ChangeEvent
<1>7. e.op \in {"INSERT", "UPDATE", "DELETE"}
  BY DEF CD!ChangeEvent
<1>8. PICK T1 : T1 = IF e.op # "INSERT" /\ R[k] # NoRow THEN [T EXCEPT ![R[k]] = @ \ {k}] ELSE T
  OBVIOUS
<1>9. PICK R1 : R1 = IF e.op # "INSERT" /\ R[k] # NoRow THEN [R EXCEPT ![k] = NoRow] ELSE R
  OBVIOUS
<1>10. PICK old : old = IF e.op = "INSERT" THEN x ELSE CD!Unindexed(x, k)
  OBVIOUS
<1>11. old = [rows |-> R1, tokens |-> T1, pos |-> p]
  <2>1. CASE e.op = "INSERT"
    BY <1>4, <1>8, <1>9, <1>10, <2>1
  <2>2. CASE e.op # "INSERT" /\ R[k] = NoRow
    BY <1>4, <1>8, <1>9, <1>10, <2>2 DEF CD!Unindexed
  <2>3. CASE e.op # "INSERT" /\ R[k] # NoRow
    <3>1. old = [x EXCEPT !.rows[k] = NoRow, !.tokens[x.rows[k]] = @ \ {k}]
      BY <1>4, <1>10, <2>3 DEF CD!Unindexed
    <3> QED
      BY <1>4, <1>8, <1>9, <2>3, <3>1
  <2> QED
    BY <2>1, <2>2, <2>3
<1>12. /\ R1 \in [CKey -> CD!Row] /\ T1 \in [CValue -> SUBSET CKey]
       /\ \A v \in CValue : T1[v] = IF e.op # "INSERT" /\ v = R[k] THEN T[v] \ {k} ELSE T[v]
       /\ \A y \in CKey : y # k => R1[y] = R[y]
       /\ e.op # "INSERT" => R1[k] = NoRow
  <2>1. NoRow \in CD!Row /\ \A v \in CValue : v # NoRow
    BY RowAssumption DEF CD!Row
  <2>2. R[k] # NoRow => R[k] \in CValue
    BY DEF CD!Row
  <2>3. R1 \in [CKey -> CD!Row] /\ T1 \in [CValue -> SUBSET CKey]
    BY <1>8, <1>9, <2>1, <2>2
  <2>4. \A v \in CValue : T1[v] = IF e.op # "INSERT" /\ v = R[k] THEN T[v] \ {k} ELSE T[v]
    BY <1>8, <2>1, <2>2
  <2>5. (\A y \in CKey : y # k => R1[y] = R[y]) /\ (e.op # "INSERT" => R1[k] = NoRow)
    BY <1>9
  <2> QED
    BY <2>3, <2>4, <2>5
<1>13. CASE e.op = "DELETE"
  <2>1. CD!Indexed(x, e) = [rows |-> R1, tokens |-> T1, pos |-> p] /\ a = NoRow
    BY <1>5, <1>6, <1>10, <1>11, <1>13 DEF CD!Indexed
  <2>2. R1 = [R EXCEPT ![k] = a]
    BY <1>12, <1>13, <2>1
  <2>3. T1 = [v \in CValue |-> IF v = a THEN T[v] \cup {k}
                                ELSE IF e.op # "INSERT" /\ v = R[k] THEN T[v] \ {k} ELSE T[v]]
    BY <1>12, <2>1, RowAssumption
  <2> QED
    BY <1>1, <1>2, <1>5, <1>6, <1>12, <2>1, <2>2, <2>3
<1>14. CASE e.op # "DELETE"
  <2>1. a \in CValue
    BY <1>6, <1>14 DEF CD!Row
  <2>2. CD!Indexed(x, e) = [old EXCEPT !.rows[k] = a, !.tokens[a] = @ \cup {k}]
    BY <1>5, <1>6, <1>10, <1>14 DEF CD!Indexed
  <2>3. CD!Indexed(x, e) = [rows |-> [R1 EXCEPT ![k] = a], tokens |-> [T1 EXCEPT ![a] = @ \cup {k}], pos |-> p]
    BY <1>11, <2>2
  <2>4. [R1 EXCEPT ![k] = a] = [R EXCEPT ![k] = a]
    BY <1>12
  <2>5. [T1 EXCEPT ![a] = @ \cup {k}] =
          [v \in CValue |-> IF v = a THEN T[v] \cup {k}
                            ELSE IF e.op # "INSERT" /\ v = R[k] THEN T[v] \ {k} ELSE T[v]]
    <3>1. T1[a] \cup {k} = T[a] \cup {k}
      BY <1>12, <2>1
    <3> QED
      BY <1>12, <2>1, <3>1
  <2>6. [R EXCEPT ![k] = a] \in [CKey -> CD!Row] /\ [T1 EXCEPT ![a] = @ \cup {k}] \in [CValue -> SUBSET CKey]
    BY <1>12, <2>1
  <2>7. PICK R2 \in [CKey -> CD!Row] : R2 = [R EXCEPT ![k] = a]
    BY <2>6
  <2>8. PICK T2 \in [CValue -> SUBSET CKey] : T2 = [T1 EXCEPT ![a] = @ \cup {k}]
    BY <2>6
  <2>9. CD!Indexed(x, e) = [rows |-> R2, tokens |-> T2, pos |-> p]
    BY <2>3, <2>4, <2>7, <2>8
  <2>10. /\ CD!Indexed(x, e) \in [rows : [CKey -> CD!Row], tokens : [CValue -> SUBSET CKey], pos : Int]
         /\ CD!Indexed(x, e).rows = R2 /\ CD!Indexed(x, e).tokens = T2
    BY <2>9
  <2> QED
    BY <1>1, <1>2, <1>5, <1>6, <2>5, <2>7, <2>8, <2>10
<1> QED
  BY <1>13, <1>14

LEMMA IndexReads ==
  ASSUME CD!LogInv, NEW CONSTANT x, NEW CONSTANT s \in Int, CD!IndexAt(x, s)
  PROVE  CD!IndexAt(IF s \in DOMAIN changes THEN CD!Indexed(x, changes[s]) ELSE x, s + 1)
<1>1. \A t \in DOMAIN changes : t \in Int /\ changes[t] \in CD!ChangeEvent /\ changes[t].key \in CKey
  BY DEF CD!LogInv, CD!ChangeEvent
<1>2. /\ x \in [rows : [CKey -> CD!Row], tokens : [CValue -> SUBSET CKey], pos : Int]
      /\ \A k \in CKey : CD!Pending(k, s) \/ x.rows[k] = rows[k]
      /\ \A k \in CKey : x.rows[k] # NoRow => k \in x.tokens[x.rows[k]]
  BY DEF CD!IndexAt
<1>3. /\ \A k \in CKey \ overlooked, v \in CValue : k \in x.tokens[v] => x.rows[k] = v
      /\ \A t \in DOMAIN changes :
            (/\ t >= s /\ changes[t].op = "INSERT" /\ changes[t].key \notin overlooked
             /\ \A u \in DOMAIN changes : u \in s..(t - 1) => changes[u].key # changes[t].key)
            => x.rows[changes[t].key] = NoRow
  BY DEF CD!IndexAt
<1>4. CASE s \notin DOMAIN changes
  <2>1. \A k \in CKey : CD!Pending(k, s) => CD!Pending(k, s + 1)
    BY <1>4, PendingNext
  <2>2. ASSUME NEW t \in DOMAIN changes, t >= s + 1,
               changes[t].op = "INSERT", changes[t].key \notin overlooked,
               \A u \in DOMAIN changes : u \in (s + 1)..(t - 1) => changes[u].key # changes[t].key
        PROVE  x.rows[changes[t].key] = NoRow
    <3>1. \A u \in DOMAIN changes : u \in s..(t - 1) => u \in (s + 1)..(t - 1)
      BY <1>1, <1>4
    <3>2. t >= s
      BY <1>1, <2>2
    <3> QED
      BY <1>3, <2>2, <3>1, <3>2
  <2>3. CD!IndexAt(x, s + 1)
    BY <1>2, <1>3, <2>1, <2>2 DEF CD!IndexAt
  <2> QED
    BY <1>4, <2>3
<1>5. CASE s \in DOMAIN changes
  <2>1. PICK e \in CD!ChangeEvent : e = changes[s]
    BY <1>1, <1>5
  <2>2. PICK k \in CKey : k = e.key
    BY <1>1, <1>5, <2>1
  <2>3. PICK a \in CD!Row : a = e.after
    BY DEF CD!ChangeEvent
  <2>4. PICK y : y = CD!Indexed(x, e)
    OBVIOUS
  <2>5. (e.op = "DELETE") <=> (e.after = NoRow)
    BY <1>5, <2>1 DEF CD!LogInv
  <2>6. /\ y \in [rows : [CKey -> CD!Row], tokens : [CValue -> SUBSET CKey], pos : Int]
        /\ y.rows = [x.rows EXCEPT ![k] = a]
        /\ y.tokens = [v \in CValue |->
                         IF v = a THEN x.tokens[v] \cup {k}
                         ELSE IF e.op # "INSERT" /\ v = x.rows[k] THEN x.tokens[v] \ {k}
                         ELSE x.tokens[v]]
    BY <1>2, <2>2, <2>3, <2>4, <2>5, IndexedRow
  <2>7. y.rows[k] = a /\ \A z \in CKey : z # k => y.rows[z] = x.rows[z]
    BY <1>2, <2>6
  <2>8. /\ a \in CValue => k \in y.tokens[a]
        /\ \A z \in CKey, v \in CValue : z # k => (z \in y.tokens[v] <=> z \in x.tokens[v])
    BY <1>2, <2>6
  <2>9. ASSUME NEW CONSTANT z \in CKey PROVE CD!Pending(z, s + 1) \/ y.rows[z] = rows[z]
    <3>1. CASE z = k
      BY <1>5, <2>1, <2>2, <2>3, <2>7, <3>1, NothingFollows
    <3>2. CASE z # k
      <4>1. CD!Pending(z, s) => CD!Pending(z, s + 1)
        BY <2>1, <2>2, <3>2, PendingNext
      <4> QED
        BY <1>2, <2>7, <3>2, <4>1
    <3> QED
      BY <3>1, <3>2
  <2>10. ASSUME NEW z \in CKey, y.rows[z] # NoRow PROVE z \in y.tokens[y.rows[z]]
    <3>1. CASE z = k
      BY <2>3, <2>7, <2>8, <2>10, <3>1 DEF CD!Row
    <3>2. CASE z # k
      <4>1. y.rows[z] = x.rows[z] /\ x.rows[z] \in CValue
        BY <1>2, <2>7, <2>10, <3>2 DEF CD!Row
      <4> QED
        BY <1>2, <2>8, <2>10, <3>2, <4>1
    <3> QED
      BY <3>1, <3>2
  <2>11. ASSUME NEW z \in CKey \ overlooked, NEW v \in CValue, z \in y.tokens[v]
         PROVE  y.rows[z] = v
    <3>1. CASE z # k
      BY <1>3, <2>7, <2>8, <2>11, <3>1
    <3>2. CASE z = k /\ v # a
      <4>1. k \in x.tokens[v] /\ (e.op = "INSERT" \/ v # x.rows[k])
        BY <2>6, <2>11, <3>2
      <4>2. x.rows[k] = v
        BY <1>3, <2>11, <3>2, <4>1
      <4>3. e.op = "INSERT"
        BY <4>1, <4>2
      <4>4. s..(s - 1) = {} /\ s >= s
        OBVIOUS
      <4>5. x.rows[k] = NoRow
        BY <1>3, <1>5, <2>1, <2>2, <2>11, <3>2, <4>3, <4>4
      <4> QED
        BY <4>2, <4>5, RowAssumption
    <3>3. CASE z = k /\ v = a
      BY <2>7, <3>3
    <3> QED
      BY <3>1, <3>2, <3>3
  <2>12. ASSUME NEW t \in DOMAIN changes, t >= s + 1,
                changes[t].op = "INSERT", changes[t].key \notin overlooked,
                \A u \in DOMAIN changes : u \in (s + 1)..(t - 1) => changes[u].key # changes[t].key
         PROVE  y.rows[changes[t].key] = NoRow
    <3>1. CASE changes[t].key = k
      <4>1. s < t /\ changes[s].key = changes[t].key
        BY <1>1, <2>1, <2>2, <2>12, <3>1
      <4>2. changes[s].after = NoRow
        BY <1>5, <2>12, <4>1 DEF CD!LogInv
      <4> QED
        BY <2>1, <2>3, <2>7, <3>1, <4>2
    <3>2. CASE changes[t].key # k
      <4>1. t >= s /\ t \in Int
        BY <1>1, <2>12
      <4>2. ASSUME NEW u \in DOMAIN changes, u \in s..(t - 1) PROVE changes[u].key # changes[t].key
        <5>1. u = s \/ u \in (s + 1)..(t - 1)
          BY <1>1, <4>1, <4>2
        <5> QED
          BY <2>1, <2>2, <2>12, <3>2, <5>1
      <4>3. x.rows[changes[t].key] = NoRow
        BY <1>3, <2>12, <4>1, <4>2
      <4> QED
        BY <1>1, <2>7, <3>2, <4>3
    <3> QED
      BY <3>1, <3>2
  <2>13. CD!IndexAt(y, s + 1)
    BY <2>6, <2>9, <2>10, <2>11, <2>12 DEF CD!IndexAt
  <2> QED
    BY <1>5, <2>1, <2>4, <2>13
<1> QED
  BY <1>4, <1>5

(* refresh of the view: the changes in the order of their numbers.          *)
LEMMA RefreshViewStep ==
  ASSUME CD!CdcInv, CD!RefreshView
  PROVE  CD!CdcInv'
<1>1. CD!LogInv
  BY DEF CD!CdcInv
<1>2. PICK n \in Nat : n = nextSeq
  BY <1>1 DEF CD!LogInv
<1>3. PICK p \in Int : p = view.pos /\ p =< n
  BY <1>2 DEF CD!CdcInv
<1>4. PICK d : d = view.data /\ CD!ViewAt(d, p)
  BY <1>3 DEF CD!CdcInv
<1>5. PICK ch : ch = changes
  OBVIOUS
<1>6. PICK read : read = CD!ReadFrom(p)
  OBVIOUS
<1> DEFINE Step(x, i) == IF i - 1 \in read THEN CD!Viewed(x, ch[i - 1]) ELSE x
           S == [CKey -> CD!Row]
           st == [i \in 1..n |-> [x \in S |-> Step(x, i)]]
<1>7. d \in S
  BY <1>4 DEF CD!ViewAt
<1>8. ASSUME NEW x \in S, NEW i \in 1..n PROVE Step(x, i) \in S
  <2>1. CASE i - 1 \in read
    <3>1. PICK e \in CD!ChangeEvent : e = ch[i - 1]
      BY <1>1, <1>5, <1>6, <2>1 DEF CD!LogInv, CD!ReadFrom
    <3>2. e.key \in CKey /\ (IF e.after \in Shown THEN e.after ELSE NoRow) \in CD!Row
      BY DEF CD!ChangeEvent, CD!Row
    <3>3. CD!Viewed(x, e) \in S
      BY <3>2 DEF CD!Viewed
    <3> QED
      BY <2>1, <3>1, <3>3
  <2>2. CASE i - 1 \notin read
    BY <2>2
  <2> QED
    BY <2>1, <2>2
<1> HIDE DEF Step
<1>9. PICK g \in [0..n -> S] : g[0] = d /\ \A i \in 1..n : g[i] = st[i][g[i - 1]]
  <2> HIDE DEF S
  <2>1. st \in [1..n -> [S -> S]]
    BY <1>8
  <2> HIDE DEF st
  <2>2. PICK T, step : T = S /\ step = st
    OBVIOUS
  <2>3. d \in T /\ step \in [1..n -> [T -> T]]
    BY <1>7, <2>1, <2>2
  <2>4. PICK g : Iterates(n, T, d, step, g)
    BY <2>3, Iteration
  <2>5. g \in [0..n -> T] /\ g[0] = d /\ \A i \in 1..n : g[i] = step[i][g[i - 1]]
    BY <2>4 DEF Iterates
  <2> QED
    BY <2>2, <2>5
<1> DEFINE Is(f) == f = [s \in 0..n |-> IF s = 0 THEN d ELSE Step(f[s - 1], s)]
<1>10. Is(g)
  <2> HIDE DEF S
  <2>1. ASSUME NEW i \in 1..n PROVE g[i] = Step(g[i - 1], i)
    <3>1. g[i - 1] \in S
      BY <1>9
    <3> QED
      BY <1>9, <3>1
  <2>2. \A i \in 0..n : g[i] = IF i = 0 THEN d ELSE Step(g[i - 1], i)
    BY <1>9, <2>1
  <2>3. g = [i \in 0..n |-> g[i]]
    BY <1>9
  <2> HIDE DEF st
  <2> QED
    BY <2>2, <2>3
<1>11. PICK after : Is(after) /\ view'.data = after[n]
  <2>1. Is(CHOOSE f : Is(f))
    BY <1>10
  <2>2. view'.data = (CHOOSE f : Is(f))[n]
    BY <1>2, <1>3, <1>4, <1>5, <1>6 DEF CD!RefreshView, Step
  <2> HIDE DEF Is
  <2> QED
    BY <2>1, <2>2
<1>12. after[0] = d /\ \A i \in 1..n : after[i] = Step(after[i - 1], i)
  BY <1>11
<1> DEFINE At(i) == IF i < p THEN p ELSE i
           P == {i \in 0..n : CD!ViewAt(after[i], At(i))}
<1>13. 0 \in P
  <2>1. CASE 0 < p
    BY <1>4, <1>12, <2>1
  <2>2. CASE ~(0 < p)
    <3>1. \A k \in CKey : CD!Pending(k, p) => CD!Pending(k, 0)
      BY <1>1 DEF CD!LogInv, CD!Pending
    <3>2. CD!ViewAt(d, 0)
      BY <1>4, <3>1 DEF CD!ViewAt
    <3> QED
      BY <1>12, <2>2, <3>2
  <2> QED
    BY <2>1, <2>2
<1>14. ASSUME NEW i \in 0..(n - 1), i \in P PROVE i + 1 \in P
  <2>1. PICK k \in 1..n : k = i + 1 /\ k - 1 = i
    OBVIOUS
  <2>2. PICK x : x = after[i]
    OBVIOUS
  <2>3. after[k] = Step(x, k) /\ CD!ViewAt(x, At(i))
    BY <1>12, <1>14, <2>1, <2>2
  <2>4. CASE i < p
    <3>1. At(i) = p /\ At(k) = p
      BY <2>1, <2>4
    <3>2. Step(x, k) = x
      BY <1>6, <2>1, <2>4 DEF Step, CD!ReadFrom
    <3> QED
      BY <2>1, <2>3, <3>1, <3>2
  <2>5. CASE ~(i < p)
    <3>1. At(i) = i /\ At(k) = i + 1
      BY <2>1, <2>5
    <3>2. Step(x, k) = IF i \in DOMAIN changes THEN CD!Viewed(x, changes[i]) ELSE x
      BY <1>5, <1>6, <2>1, <2>5 DEF Step, CD!ReadFrom
    <3>3. CD!ViewAt(IF i \in DOMAIN changes THEN CD!Viewed(x, changes[i]) ELSE x, i + 1)
      BY <1>1, <2>3, <3>1, ViewReads
    <3> QED
      BY <2>1, <2>3, <3>1, <3>2, <3>3
  <2> QED
    BY <2>4, <2>5
<1>15. CD!ViewAt(after[n], n)
  <2> HIDE DEF P
  <2>1. PICK Q : Q = P
    OBVIOUS
  <2>2. \A i \in 0..n : i \in Q
    BY <1>13, <1>14, <2>1, CountUp
  <2>3. n \in P
    BY <2>1, <2>2
  <2>4. At(n) = n
    BY <1>3
  <2> QED
    BY <2>3, <2>4 DEF P
<1>16. PICK new : new = view'.pos
  OBVIOUS
<1>17. new \in Int /\ new =< n
  BY <1>1, <1>2, <1>3, <1>16, PositionInLog DEF CD!RefreshView
<1>18. CD!ViewAt(after[n], new)
  <2>1. \A k \in CKey : ~CD!Pending(k, n)
    BY <1>1, <1>2 DEF CD!LogInv, CD!Pending
  <2> QED
    BY <1>15, <2>1 DEF CD!ViewAt
<1>19. UNCHANGED <<rows, changes, nextSeq, overlooked, cpos, handled, index>>
  BY DEF CD!RefreshView
<1>20. CD!ViewAt(view.data, view.pos)'
  <2>1. PICK z : z = after[n]
    OBVIOUS
  <2>2. CD!ViewAt(z, new)'
    BY <1>18, <1>19, <2>1, LogUntouched
  <2> QED
    BY <1>11, <1>16, <2>1, <2>2
<1>21. CD!LogInv' /\ CD!IndexAt(index, index.pos)'
  BY <1>19, LogUntouched DEF CD!CdcInv
<1> QED
  BY <1>2, <1>16, <1>17, <1>19, <1>20, <1>21 DEF CD!CdcInv

(* refresh of the search index.                                             *)
LEMMA RefreshIndexStep ==
  ASSUME CD!CdcInv, CD!RefreshIndex
  PROVE  CD!CdcInv'
<1>1. CD!LogInv
  BY DEF CD!CdcInv
<1>2. PICK n \in Nat : n = nextSeq
  BY <1>1 DEF CD!LogInv
<1>3. PICK p \in Int : p = index.pos /\ p =< n
  BY <1>2 DEF CD!CdcInv, CD!IndexAt
<1>4. PICK d : d = index /\ CD!IndexAt(d, p)
  BY <1>3 DEF CD!CdcInv
<1>5. PICK ch : ch = changes
  OBVIOUS
<1>6. PICK read : read = CD!ReadFrom(p)
  OBVIOUS
<1> DEFINE Step(x, i) == IF i - 1 \in read THEN CD!Indexed(x, ch[i - 1]) ELSE x
           S == [rows : [CKey -> CD!Row], tokens : [CValue -> SUBSET CKey], pos : Int]
           st == [i \in 1..n |-> [x \in S |-> Step(x, i)]]
<1>7. d \in S
  BY <1>4 DEF CD!IndexAt
<1>8. ASSUME NEW x \in S, NEW i \in 1..n PROVE Step(x, i) \in S
  <2>1. CASE i - 1 \in read
    <3>1. PICK e \in CD!ChangeEvent : e = ch[i - 1]
      BY <1>1, <1>5, <1>6, <2>1 DEF CD!LogInv, CD!ReadFrom
    <3>2. (e.op = "DELETE") <=> (e.after = NoRow)
      BY <1>1, <1>5, <1>6, <2>1, <3>1 DEF CD!LogInv, CD!ReadFrom
    <3>3. CD!Indexed(x, e) \in S
      BY <3>2, IndexedRow
    <3> QED
      BY <2>1, <3>1, <3>3
  <2>2. CASE i - 1 \notin read
    BY <2>2
  <2> QED
    BY <2>1, <2>2
<1> HIDE DEF Step
<1>9. PICK g \in [0..n -> S] : g[0] = d /\ \A i \in 1..n : g[i] = st[i][g[i - 1]]
  <2> HIDE DEF S
  <2>1. st \in [1..n -> [S -> S]]
    BY <1>8
  <2> HIDE DEF st
  <2>2. PICK T, step : T = S /\ step = st
    OBVIOUS
  <2>3. d \in T /\ step \in [1..n -> [T -> T]]
    BY <1>7, <2>1, <2>2
  <2>4. PICK g : Iterates(n, T, d, step, g)
    BY <2>3, Iteration
  <2>5. g \in [0..n -> T] /\ g[0] = d /\ \A i \in 1..n : g[i] = step[i][g[i - 1]]
    BY <2>4 DEF Iterates
  <2> QED
    BY <2>2, <2>5
<1> DEFINE Is(f) == f = [s \in 0..n |-> IF s = 0 THEN d ELSE Step(f[s - 1], s)]
<1>10. Is(g)
  <2> HIDE DEF S
  <2>1. ASSUME NEW i \in 1..n PROVE g[i] = Step(g[i - 1], i)
    <3>1. g[i - 1] \in S
      BY <1>9
    <3> QED
      BY <1>9, <3>1
  <2>2. \A i \in 0..n : g[i] = IF i = 0 THEN d ELSE Step(g[i - 1], i)
    BY <1>9, <2>1
  <2>3. g = [i \in 0..n |-> g[i]]
    BY <1>9
  <2> HIDE DEF st
  <2> QED
    BY <2>2, <2>3
<1>11. PICK after : /\ Is(after)
                    /\ index' = [after[n] EXCEPT !.pos = CD!PositionAfter(p, read)]
  <2>1. Is(CHOOSE f : Is(f))
    BY <1>10
  <2>2. index' = [(CHOOSE f : Is(f))[n] EXCEPT !.pos = CD!PositionAfter(p, read)]
    BY <1>2, <1>3, <1>4, <1>5, <1>6 DEF CD!RefreshIndex, Step
  <2> HIDE DEF Is
  <2> QED
    BY <2>1, <2>2
<1>12. after[0] = d /\ \A i \in 1..n : after[i] = Step(after[i - 1], i)
  <2>1. Is(after)
    BY <1>11
  <2>2. after[0] = d
    BY <2>1
  <2>3. ASSUME NEW i \in 1..n PROVE after[i] = Step(after[i - 1], i)
    <3>1. i \in 0..n /\ i # 0
      OBVIOUS
    <3> QED
      BY <2>1, <3>1
  <2> QED
    BY <2>2, <2>3
<1> DEFINE At(i) == IF i < p THEN p ELSE i
           P == {i \in 0..n : CD!IndexAt(after[i], At(i))}
<1>13. 0 \in P
  <2>1. CASE 0 < p
    BY <1>4, <1>12, <2>1
  <2>2. CASE ~(0 < p)
    <3>1. \A t \in DOMAIN changes : t \in Int /\ t >= 0
      BY <1>1 DEF CD!LogInv
    <3>2. \A k \in CKey : CD!Pending(k, p) => CD!Pending(k, 0)
      BY <3>1 DEF CD!Pending
    <3>3. \A t \in DOMAIN changes : t >= p /\ (t \in 0..(n - 1))
      BY <1>1, <1>2, <2>2, <3>1 DEF CD!LogInv
    <3>4. \A t, u \in DOMAIN changes : u \in p..(t - 1) => u \in 0..(t - 1)
      BY <3>1
    <3>5. CD!IndexAt(d, 0)
      BY <1>4, <3>1, <3>2, <3>3, <3>4 DEF CD!IndexAt
    <3> QED
      BY <1>12, <2>2, <3>5
  <2> QED
    BY <2>1, <2>2
<1>14. ASSUME NEW i \in 0..(n - 1), i \in P PROVE i + 1 \in P
  <2>1. PICK k \in 1..n : k = i + 1 /\ k - 1 = i
    OBVIOUS
  <2>2. PICK x : x = after[i]
    OBVIOUS
  <2>3. after[k] = Step(x, k) /\ CD!IndexAt(x, At(i))
    BY <1>12, <1>14, <2>1, <2>2
  <2>4. CASE i < p
    <3>1. At(i) = p /\ At(k) = p
      BY <2>1, <2>4
    <3>2. Step(x, k) = x
      BY <1>6, <2>1, <2>4 DEF Step, CD!ReadFrom
    <3> QED
      BY <2>1, <2>3, <3>1, <3>2
  <2>5. CASE ~(i < p)
    <3>1. At(i) = i /\ At(k) = i + 1
      BY <2>1, <2>5
    <3>2. Step(x, k) = IF i \in DOMAIN changes THEN CD!Indexed(x, changes[i]) ELSE x
      BY <1>5, <1>6, <2>1, <2>5 DEF Step, CD!ReadFrom
    <3>3. CD!IndexAt(IF i \in DOMAIN changes THEN CD!Indexed(x, changes[i]) ELSE x, i + 1)
      BY <1>1, <2>3, <3>1, IndexReads
    <3> QED
      BY <2>1, <2>3, <3>1, <3>2, <3>3
  <2> QED
    BY <2>4, <2>5
<1>15. CD!IndexAt(after[n], n)
  <2> HIDE DEF P
  <2>1. PICK Q : Q = P
    OBVIOUS
  <2>2. \A i \in 0..n : i \in Q
    BY <1>13, <1>14, <2>1, CountUp
  <2>3. n \in P
    BY <2>1, <2>2
  <2>4. At(n) = n
    BY <1>3
  <2> QED
    BY <2>3, <2>4 DEF P
<1>16. PICK new : new = CD!PositionAfter(p, read)
  OBVIOUS
<1>17. new \in Int /\ new =< n /\ \A t \in DOMAIN changes : t \in Int /\ t < new
  <2>1. new \in Int /\ new =< n
    BY <1>1, <1>2, <1>3, <1>6, <1>16, PositionInLog
  <2>2. \A t \in DOMAIN changes : t \in Int /\ t < new
    BY <1>1, <1>6, <1>16, AllRead
  <2> QED
    BY <2>1, <2>2
<1>18. PICK z : z = after[n]
  OBVIOUS
<1>19. z \in S /\ index' = [rows |-> z.rows, tokens |-> z.tokens, pos |-> new]
  <2>1. z \in S
    BY <1>15, <1>18 DEF CD!IndexAt
  <2>2. z = [rows |-> z.rows, tokens |-> z.tokens, pos |-> z.pos]
    BY <2>1
  <2> QED
    BY <1>11, <1>16, <1>18, <2>1, <2>2
<1>20. PICK y : y = [rows |-> z.rows, tokens |-> z.tokens, pos |-> new]
  OBVIOUS
<1>21. CD!IndexAt(y, new)
  <2>1. /\ y \in S /\ y.rows = z.rows /\ y.tokens = z.tokens
    BY <1>17, <1>19, <1>20
  <2>2. \A k \in CKey : ~CD!Pending(k, n)
    BY <1>1, <1>2 DEF CD!LogInv, CD!Pending
  <2>3. \A t \in DOMAIN changes : ~(t >= new)
    BY <1>17
  <2>4. CD!IndexAt(z, n)
    BY <1>15, <1>18
  <2>5. \A k \in CKey \ overlooked, v \in CValue : k \in z.tokens[v] => z.rows[k] = v
    BY <2>4 DEF CD!IndexAt
  <2>6. /\ \A k \in CKey : z.rows[k] = rows[k]
        /\ \A k \in CKey : z.rows[k] # NoRow => k \in z.tokens[z.rows[k]]
    BY <2>2, <2>4 DEF CD!IndexAt
  <2> QED
    BY <2>1, <2>3, <2>5, <2>6 DEF CD!IndexAt
<1>22. UNCHANGED <<rows, changes, nextSeq, overlooked, cpos, handled, view>>
  BY DEF CD!RefreshIndex
<1>23. CD!IndexAt(index, index.pos)' /\ index'.pos = new
  <2>1. CD!IndexAt(y, new)'
    BY <1>21, <1>22, LogUntouched
  <2>2. index' = y /\ index'.pos = new
    BY <1>19, <1>20
  <2> QED
    BY <2>1, <2>2
<1>24. CD!LogInv' /\ CD!ViewAt(view.data, view.pos)'
  BY <1>22, LogUntouched DEF CD!CdcInv
<1> QED
  BY <1>2, <1>17, <1>22, <1>23, <1>24 DEF CD!CdcInv

(* A snapshot shows the table, wherever the stream is then read from.       *)
LEMMA SnapshotStep ==
  ASSUME CD!CdcInv, CD!SnapshotView
  PROVE  CD!CdcInv'
<1>1. CD!LogInv
  BY DEF CD!CdcInv
<1>2. PICK pos : pos = CD!CurrentPosition
  OBVIOUS
<1>3. pos \in Int /\ pos =< nextSeq
  <2>1. CASE DOMAIN changes = {}
    BY <1>1, <1>2, <2>1 DEF CD!CurrentPosition, CD!LogInv
  <2>2. CASE DOMAIN changes # {}
    <3>1. PICK S : S = DOMAIN changes
      OBVIOUS
    <3>2. CD!Max(S) \in DOMAIN changes
      BY <1>1, <2>2, <3>1, MaxOfChanges
    <3>3. pos \in DOMAIN changes
      BY <1>2, <2>2, <3>1, <3>2 DEF CD!CurrentPosition
    <3> QED
      BY <1>1, <3>3 DEF CD!LogInv
  <2> QED
    BY <2>1, <2>2
<1>4. PICK d : d = [k \in CKey |-> CD!ShownRow(k)]
  OBVIOUS
<1>5. CD!ViewAt(d, pos)
  <2>1. ASSUME NEW k \in CKey PROVE CD!ShownRow(k) \in CD!Row
    BY <1>1 DEF CD!LogInv, CD!ShownRow, CD!Row
  <2> QED
    BY <1>4, <2>1 DEF CD!ViewAt
<1>6. /\ view' = [data |-> d, pos |-> pos]
      /\ UNCHANGED <<rows, changes, nextSeq, overlooked, cpos, handled, index>>
  BY <1>2, <1>4 DEF CD!SnapshotView
<1>7. CD!ViewAt(view.data, view.pos)'
  <2>1. CD!ViewAt(d, pos)'
    BY <1>5, <1>6, LogUntouched
  <2> QED
    BY <1>6, <2>1
<1>8. CD!LogInv' /\ CD!IndexAt(index, index.pos)'
  BY <1>6, LogUntouched DEF CD!CdcInv
<1> QED
  BY <1>3, <1>6, <1>7, <1>8 DEF CD!CdcInv

(* change-data-capture: whatever was compacted between their reads, a view  *)
(* and a consumer that have read the log to its end agree with the table,   *)
(* and so does a search index but for old tokens of keys of which compact   *)
(* removed a delete that the index had not read.                            *)
THEOREM DerivedDataAgrees == LogsSpec => []DerivedFromLog
<1>1. LogsInit => CD!CdcInv
  <2> SUFFICES ASSUME LogsInit PROVE CD!CdcInv
    OBVIOUS
  <2>1. CD!CdcInit
    BY DEF LogsInit
  <2>2. /\ rows = [k \in CKey |-> NoRow] /\ DOMAIN changes = {} /\ nextSeq = 0 /\ cpos = 0
        /\ view = [data |-> [k \in CKey |-> NoRow], pos |-> 0]
        /\ index = [rows |-> [k \in CKey |-> NoRow], tokens |-> [v \in CValue |-> {}], pos |-> 0]
    BY <2>1 DEF CD!CdcInit, CD!NoRows, CD!NoTokens
  <2>3. CD!LogInv
    BY <2>2 DEF CD!LogInv, CD!Row
  <2>4. CD!ViewAt(view.data, view.pos)
    BY <2>2 DEF CD!ViewAt, CD!ShownRow, CD!Row
  <2>5. CD!IndexAt(index, index.pos)
    <3>1. index \in [rows : [CKey -> CD!Row], tokens : [CValue -> SUBSET CKey], pos : Int]
      BY <2>2 DEF CD!Row
    <3>2. \A k \in CKey : index.rows[k] = rows[k] /\ index.rows[k] = NoRow
      BY <2>2
    <3>3. \A v \in CValue : index.tokens[v] = {k \in CKey : index.rows[k] = v}
      BY <2>2, RowAssumption
    <3> QED
      BY <2>2, <3>1, <3>2, <3>3 DEF CD!IndexAt
  <2> QED
    BY <2>2, <2>3, <2>4, <2>5 DEF CD!CdcInv
<1>2. CD!CdcInv /\ [LogsNext]_logsVars => CD!CdcInv'
  <2> SUFFICES ASSUME CD!CdcInv, [LogsNext]_logsVars PROVE CD!CdcInv'
    OBVIOUS
  <2>1. CASE UNCHANGED cdcVars
    <3>1. UNCHANGED <<rows, changes, nextSeq, overlooked, cpos, handled, view, index>>
      BY <2>1 DEF cdcVars
    <3>2. CD!LogInv' /\ CD!ViewAt(view.data, view.pos)' /\ CD!IndexAt(index, index.pos)'
      BY <3>1, LogUntouched DEF CD!CdcInv
    <3> QED
      BY <3>1, <3>2 DEF CD!CdcInv
  <2>2. CASE CD!CdcNext
    <3>1. ASSUME NEW k \in CKey, NEW v \in CValue, NEW op \in {"INSERT", "UPDATE"}, CD!Change(k, op, v)
          PROVE  CD!CdcInv'
      <4>1. v \in CD!Row /\ v # NoRow
        BY RowAssumption DEF CD!Row
      <4> QED
        BY <3>1, <4>1, ChangeStep
    <3>2. ASSUME NEW k \in CKey, CD!Change(k, "DELETE", NoRow) PROVE CD!CdcInv'
      <4>1. NoRow \in CD!Row
        BY DEF CD!Row
      <4>2. PICK op, v : op = "DELETE" /\ v = NoRow
        OBVIOUS
      <4> QED
        BY <3>2, <4>1, <4>2, ChangeStep
    <3>3. ASSUME NEW n \in 0..MaxSeq, CD!PollCutShort(n) \/ CD!Seek(n) PROVE CD!CdcInv'
      BY <3>3, PollCutShortStep, SeekStep
    <3> QED
      BY <2>2, <3>1, <3>2, <3>3, CompactStep, PollStep, RefreshViewStep, SnapshotStep, RefreshIndexStep
         DEF CD!CdcNext
  <2>3. UNCHANGED cdcVars \/ CD!CdcNext
    BY DEF LogsNext, logsVars
  <2> QED
    BY <2>1, <2>2, <2>3
<1>3. CD!CdcInv => DerivedFromLog
  <2> SUFFICES ASSUME CD!CdcInv PROVE CD!DerivedFromLog
    BY DEF DerivedFromLog
  <2>1. PICK n \in Nat : n = nextSeq
    BY DEF CD!CdcInv, CD!LogInv
  <2>2. \A k \in CKey : ~CD!Pending(k, n)
    BY <2>1 DEF CD!CdcInv, CD!LogInv, CD!Pending
  <2>3. view.pos = nextSeq => \A k \in CKey : view.data[k] = CD!ShownRow(k)
    BY <2>1, <2>2 DEF CD!CdcInv, CD!ViewAt
  <2>4. ASSUME index.pos = nextSeq
        PROVE  /\ index.rows = rows
               /\ \A k \in CKey, v \in CValue : rows[k] = v => k \in index.tokens[v]
               /\ \A k \in CKey \ overlooked, v \in CValue : k \in index.tokens[v] => rows[k] = v
    <3>1. CD!IndexAt(index, n)
      BY <2>1, <2>4 DEF CD!CdcInv
    <3>2. \A k \in CKey : index.rows[k] = rows[k]
      BY <2>2, <3>1 DEF CD!IndexAt
    <3>3. index.rows \in [CKey -> CD!Row] /\ rows \in [CKey -> CD!Row]
      BY <3>1 DEF CD!IndexAt, CD!CdcInv, CD!LogInv
    <3>4. index.rows = rows
      BY <3>2, <3>3
    <3>5. \A k \in CKey, v \in CValue : rows[k] = v => k \in index.tokens[v]
      BY <3>1, <3>4, RowAssumption DEF CD!IndexAt
    <3> QED
      BY <3>1, <3>4, <3>5 DEF CD!IndexAt
  <2>5. \A s \in DOMAIN changes : s < cpos => s \in handled
    BY DEF CD!CdcInv
  <2> QED
    BY <2>3, <2>4, <2>5 DEF CD!DerivedFromLog
<1> QED
  BY <1>1, <1>2, <1>3, PTL DEF LogsSpec

(***************************************************************************)
(* partitioned-log: at-least-once delivery in a consumer group             *)
(***************************************************************************)

LEMMA MaxOffset ==
  ASSUME NEW S \in SUBSET Nat, S # {}, NEW n \in Nat, \A x \in S : x < n
  PROVE  Max(S) \in S /\ Max(S) < n /\ \A x \in S : x =< Max(S)
<1>1. \A x \in S : x =< n
  OBVIOUS
<1>2. PICK i \in S : \A j \in S : j =< i
  BY <1>1, GreatestNatural
<1>3. \E x \in S : \A y \in S : x >= y
  BY <1>2
<1>4. Max(S) \in S /\ \A y \in S : Max(S) >= y
  BY <1>3 DEF Max
<1> QED
  BY <1>4

LEMMA MinOffset ==
  ASSUME NEW S \in SUBSET Nat, S # {}, NEW n \in Nat, \A x \in S : x < n
  PROVE  Min(S) \in S /\ \A x \in S : Min(S) =< x
<1>1. S \subseteq 0..n /\ IsFiniteSet(0..n)
  BY FS_Interval
<1>2. IsFiniteSet(S)
  BY <1>1, FS_Subset
<1>3. S \in SUBSET Int
  OBVIOUS
<1>4. PICK i \in S : \A j \in S : i =< j
  BY <1>2, <1>3, LeastElement
<1> QED
  BY <1>4 DEF Min

LEMMA LaterOfTwo ==
  ASSUME NEW a \in Nat, NEW b \in Nat
  PROVE  Max({a, b}) \in {a, b} /\ Max({a, b}) >= a /\ Max({a, b}) >= b
<1>1. \E x \in {a, b} : \A y \in {a, b} : x >= y
  <2>1. CASE a >= b
    BY <2>1
  <2>2. CASE b >= a
    BY <2>2
  <2> QED
    BY <2>1, <2>2
<1> QED
  BY <1>1 DEF Max

(* What the invariant of a partition says, piece by piece.                  *)
LEMMA PartitionParts ==
  ASSUME NEW part, NEW file \in Seq(Sent), NEW mode, NEW gone, PartitionInv(part, file, mode, gone)
  PROVE  /\ part.base \in Nat /\ part.base =< Len(file)
         /\ DOMAIN part.log \in SUBSET Nat
         /\ \A o \in DOMAIN part.log : part.base =< o /\ o < Len(file) /\ part.log[o] = file[o + 1]
<1>1. PICK n \in Nat : n = Len(file)
  OBVIOUS
<1>2. DOMAIN part.log \subseteq part.base..(n - 1) /\ part.base \in Nat
  BY <1>1 DEF PartitionInv
<1>3. \A o \in DOMAIN part.log : o \in Nat /\ part.base =< o /\ o < n
  BY <1>2
<1>4. \A o \in DOMAIN part.log : part.log[o] = file[o + 1]
  BY DEF PartitionInv
<1>5. part.base =< n
  <2>1. CASE DOMAIN part.log = {}
    BY <1>1, <1>2, <2>1 DEF PartitionInv, NextOffset
  <2>2. CASE DOMAIN part.log # {}
    BY <1>2, <1>3, <2>2
  <2> QED
    BY <2>1, <2>2
<1> QED
  BY <1>1, <1>2, <1>3, <1>4, <1>5

(* One past the last offset.                                                *)
LEMMA NextIs ==
  ASSUME NEW part, NEW n \in Nat, n \in DOMAIN part.log, DOMAIN part.log \in SUBSET Nat,
         \A o \in DOMAIN part.log : o =< n
  PROVE  NextOffset(part) = n + 1
<1>1. PICK S : S = DOMAIN part.log
  OBVIOUS
<1>2. \A x \in S : x < n + 1
  BY <1>1
<1>3. Max(S) \in S /\ \A x \in S : x =< Max(S)
  BY <1>1, <1>2, MaxOffset
<1>4. Max(S) = n
  BY <1>1, <1>3
<1> QED
  BY <1>1, <1>4 DEF NextOffset

(* The last offset of a partition that holds a message is that of its file. *)
LEMMA LastHeld ==
  ASSUME NEW part, NEW file \in Seq(Sent), NEW mode, NEW gone, PartitionInv(part, file, mode, gone),
         DOMAIN part.log # {}
  PROVE  Len(file) - 1 \in DOMAIN part.log /\ Len(file) >= 1
<1>1. PICK S : S = DOMAIN part.log
  OBVIOUS
<1>2. PICK n \in Nat : n = Len(file)
  OBVIOUS
<1>3. S \in SUBSET Nat /\ \A x \in S : x < n
  BY <1>1, <1>2, PartitionParts
<1>4. Max(S) \in S
  <2>1. S # {}
    BY <1>1
  <2> QED
    BY <1>3, <2>1, MaxOffset
<1>5. Max(S) + 1 = n
  BY <1>1, <1>2 DEF PartitionInv, NextOffset
<1>6. Max(S) = n - 1 /\ n >= 1
  <2>1. PICK k \in Nat : k = Max(S)
    BY <1>3, <1>4
  <2>2. k + 1 = n
    BY <1>5, <2>1
  <2> QED
    BY <2>1, <2>2
<1> QED
  BY <1>1, <1>2, <1>4, <1>6

LEMMA GoneGrows ==
  ASSUME NEW part, NEW file, NEW mode, NEW gone, PartitionInv(part, file, mode, gone),
         NEW more, gone \subseteq more
  PROVE  PartitionInv(part, file, mode, more)
BY DEF PartitionInv

(* Below the base everything is gone.                                       *)
LEMMA BelowBase ==
  ASSUME NEW part, NEW file \in Seq(Sent), NEW mode, NEW gone, PartitionInv(part, file, mode, gone)
  PROVE  Accounted(file, part.base, gone)
<1>1. /\ part.base \in Nat /\ part.base =< Len(file)
      /\ \A o \in DOMAIN part.log : part.base =< o
  BY PartitionParts
<1>2. ASSUME NEW o \in 0..(part.base - 1) PROVE file[o + 1].id \in gone
  <2>1. o \in 0..(Len(file) - 1) /\ o \notin DOMAIN part.log
    BY <1>1
  <2> QED
    BY <2>1 DEF PartitionInv
<1> QED
  BY <1>1, <1>2 DEF Accounted

LEMMA AccountedMore ==
  ASSUME NEW file, NEW n, NEW done, Accounted(file, n, done), NEW more, done \subseteq more
  PROVE  Accounted(file, n, more)
BY DEF Accounted

LEMMA AccountedBefore ==
  ASSUME NEW file \in Seq(Sent), NEW n \in Nat, NEW done, Accounted(file, n, done),
         NEW k \in Nat, k < n
  PROVE  Accounted(file, k, done)
<1>1. PICK size \in Nat : size = Len(file) /\ n <= size
  BY DEF Accounted
<1>2. k <= size /\ 0..(k - 1) \subseteq 0..(n - 1)
  BY <1>1
<1> QED
  BY <1>1, <1>2 DEF Accounted

(* Producer.send.                                                           *)
LEMMA SendKeeps ==
  ASSUME NEW part, NEW file \in Seq(Sent), NEW mode, NEW gone, PartitionInv(part, file, mode, gone),
         NEW m \in Sent
  PROVE  PartitionInv(Appended(part, m), Append(file, m), mode, gone)
<1>1. PICK n \in Nat : n = Len(file)
  OBVIOUS
<1>2. PICK f : f = Append(file, m)
  OBVIOUS
<1>3. f \in Seq(Sent) /\ Len(f) = n + 1 /\ f[n + 1] = m /\ \A i \in 1..n : f[i] = file[i]
  BY <1>1, <1>2
<1>4. NextOffset(part) = n
  BY <1>1 DEF PartitionInv
<1>5. PICK new : new = Appended(part, m)
  OBVIOUS
<1>6. /\ new = [log |-> new.log, base |-> new.base] /\ new.base = part.base
      /\ new.log = [o \in DOMAIN part.log \cup {n} |-> IF o = n THEN m ELSE part.log[o]]
  BY <1>4, <1>5 DEF Appended, PartitionInv
<1>7. DOMAIN new.log = DOMAIN part.log \cup {n}
  BY <1>6
<1>8. /\ part.base \in Nat /\ part.base =< n /\ DOMAIN part.log \in SUBSET Nat
      /\ \A o \in DOMAIN part.log : part.base =< o /\ o < n /\ part.log[o] = file[o + 1]
  BY <1>1, PartitionParts
<1>9. new.log = [o \in DOMAIN new.log |-> f[o + 1]]
  <2>1. \A o \in DOMAIN part.log : new.log[o] = f[o + 1]
    BY <1>3, <1>6, <1>8
  <2>2. new.log[n] = f[n + 1]
    BY <1>3, <1>6
  <2>3. \A o \in DOMAIN new.log : new.log[o] = f[o + 1]
    BY <1>7, <2>1, <2>2
  <2>4. new.log = [o \in DOMAIN new.log |-> new.log[o]]
    BY <1>6, <1>7
  <2> QED
    BY <2>3, <2>4
<1>10. DOMAIN new.log \subseteq new.base..(Len(f) - 1)
  BY <1>3, <1>6, <1>7, <1>8
<1>11. NextOffset(new) = Len(f)
  <2>1. n \in DOMAIN new.log /\ DOMAIN new.log \in SUBSET Nat /\ \A o \in DOMAIN new.log : o =< n
    BY <1>7, <1>8
  <2> QED
    BY <1>3, <2>1, NextIs
<1>12. mode = "retention_ms" => DOMAIN new.log = new.base..(Len(f) - 1)
  <2> SUFFICES ASSUME mode = "retention_ms" PROVE DOMAIN new.log = new.base..n
    BY <1>3
  <2>1. DOMAIN part.log = part.base..(n - 1)
    BY <1>1 DEF PartitionInv
  <2> QED
    BY <1>6, <1>7, <1>8, <2>1
<1>13. \A o \in 0..(Len(f) - 1) : o \in DOMAIN new.log \/ f[o + 1].id \in gone
  <2> SUFFICES ASSUME NEW o \in 0..n, o # n PROVE o \in DOMAIN part.log \/ f[o + 1].id \in gone
    BY <1>3, <1>7
  <2>1. o \in 0..(Len(file) - 1) /\ f[o + 1] = file[o + 1]
    BY <1>1, <1>3
  <2> QED
    BY <2>1 DEF PartitionInv
<1>14. PartitionInv(new, f, mode, gone)
  BY <1>6, <1>8, <1>9, <1>10, <1>11, <1>12, <1>13 DEF PartitionInv
<1> QED
  BY <1>2, <1>5, <1>14

LEMMA AccountedAfterSend ==
  ASSUME NEW file \in Seq(Sent), NEW n \in Nat, NEW done, Accounted(file, n, done), NEW m \in Sent
  PROVE  Accounted(Append(file, m), n, done)
<1>1. n =< Len(file) /\ \A o \in 0..(n - 1) : file[o + 1].id \in done
  BY DEF Accounted
<1>2. PICK f : f = Append(file, m)
  OBVIOUS
<1>3. Len(f) = Len(file) + 1 /\ \A i \in 1..Len(file) : f[i] = file[i]
  BY <1>2
<1>4. n =< Len(f) /\ \A o \in 0..(n - 1) : f[o + 1].id \in done
  BY <1>1, <1>3
<1> QED
  BY <1>2, <1>4 DEF Accounted

(* compact_partition: the last message of the log stays, since none with    *)
(* its key follows.                                                         *)
LEMMA CompactKeeps ==
  ASSUME NEW part, NEW file \in Seq(Sent), NEW mode, NEW gone, PartitionInv(part, file, mode, gone),
         mode # "retention_ms", NEW more, gone \cup Dropped(part, Compacted(part)) \subseteq more
  PROVE  PartitionInv(Compacted(part), file, mode, more)
<1>1. PICK n \in Nat : n = Len(file)
  OBVIOUS
<1>2. PICK D : D = DOMAIN part.log
  OBVIOUS
<1>3. PICK kept : kept = {o \in D : Stays(part.log, o)}
  OBVIOUS
<1>4. CASE kept = D
  <2>1. Compacted(part) = part
    BY <1>2, <1>3, <1>4 DEF Compacted
  <2> QED
    BY <2>1, GoneGrows
<1>5. CASE kept # D
  <2>1. PICK new : new = [log |-> [o \in kept |-> part.log[o]], base |-> Min(kept)]
    OBVIOUS
  <2>2. new = Compacted(part)
    BY <1>2, <1>3, <1>5, <2>1 DEF Compacted
  <2>3. /\ D \in SUBSET Nat /\ \A o \in D : part.base =< o /\ o < n /\ part.log[o] = file[o + 1]
    BY <1>1, <1>2, PartitionParts
  <2>4. n - 1 \in D /\ n >= 1
    <3>1. D # {}
      BY <1>3, <1>5
    <3> QED
      BY <1>1, <1>2, <3>1, LastHeld
  <2>5. n - 1 \in kept
    BY <1>2, <1>3, <2>3, <2>4 DEF Stays
  <2>6. kept \in SUBSET Nat /\ kept \subseteq D /\ kept # {} /\ \A o \in kept : o < n
    BY <1>3, <2>3, <2>5
  <2>7. Min(kept) \in kept /\ \A o \in kept : Min(kept) =< o
    BY <2>6, MinOffset
  <2>8. PICK b \in Nat : b = Min(kept) /\ \A o \in kept : b =< o
    BY <2>6, <2>7
  <2>9. DOMAIN new.log = kept /\ new.base = b /\ new = [log |-> new.log, base |-> new.base]
    BY <2>1, <2>8
  <2>10. \A o \in kept : new.log[o] = file[o + 1]
    BY <2>1, <2>3, <2>6
  <2>11. new.log = [o \in DOMAIN new.log |-> file[o + 1]]
    BY <2>1, <2>9, <2>10
  <2>12. DOMAIN new.log \subseteq new.base..(Len(file) - 1)
    BY <1>1, <2>6, <2>8, <2>9
  <2>13. NextOffset(new) = Len(file)
    <3>1. PICK k \in Nat : k = n - 1
      BY <2>4
    <3>2. k \in DOMAIN new.log /\ DOMAIN new.log \in SUBSET Nat /\ \A o \in DOMAIN new.log : o =< k
      BY <2>5, <2>6, <2>9, <3>1
    <3>3. NextOffset(new) = k + 1
      BY <3>2, NextIs
    <3> QED
      BY <1>1, <3>1, <3>3
  <2>14. ASSUME NEW o \in 0..(Len(file) - 1) PROVE o \in DOMAIN new.log \/ file[o + 1].id \in more
    <3>1. CASE o \in D \ kept
      <4>1. part.log[o].id \in Dropped(part, new)
        BY <1>2, <2>9, <3>1 DEF Dropped
      <4> QED
        BY <2>2, <2>3, <3>1, <4>1
    <3>2. CASE o \in kept
      BY <2>9, <3>2
    <3>3. CASE o \notin D
      BY <1>2, <3>3 DEF PartitionInv
    <3> QED
      BY <3>1, <3>2, <3>3
  <2>15. PartitionInv(new, file, mode, more)
    BY <2>8, <2>9, <2>11, <2>12, <2>13, <2>14 DEF PartitionInv
  <2> QED
    BY <2>2, <2>15
<1> QED
  BY <1>4, <1>5

(* The n-th of a set of numbers from b on is b + n or more.                 *)
LEMMA BelowAreMany ==
  ASSUME NEW b \in Nat, NEW S \in SUBSET Nat, \A x \in S : b =< x, NEW o \in Nat, b =< o,
         NEW n \in Nat, Cardinality({x \in S : x < o}) >= n
  PROVE  b + n =< o
<1>1. PICK T : T = {x \in S : x < o}
  OBVIOUS
<1>2. T \in SUBSET (b..(o - 1))
  <2> SUFFICES ASSUME NEW x \in S, x < o PROVE x \in b..(o - 1)
    BY <1>1
  <2>1. x \in Nat /\ b =< x
    OBVIOUS
  <2> QED
    BY <2>1
<1>3. IsFiniteSet(b..(o - 1)) /\ Cardinality(b..(o - 1)) = o - b
  <2>1. PICK e \in Int : e = o - 1
    OBVIOUS
  <2>2. IsFiniteSet(b..e) /\ Cardinality(b..e) = IF b > e THEN 0 ELSE e - b + 1
    BY FS_Interval
  <2> QED
    BY <2>1, <2>2
<1>4. IsFiniteSet(T) /\ Cardinality(T) =< o - b
  BY <1>2, <1>3, FS_Subset
<1>5. Cardinality(T) \in Nat
  BY <1>4, FS_CardinalityType
<1>6. Cardinality(T) >= n
  BY <1>1
<1> QED
  BY <1>4, <1>5, <1>6

(* An element of a set of numbers below which there are no others but it.   *)
LEMMA AllButLast ==
  ASSUME NEW S \in SUBSET Nat, NEW k \in S, \A x \in S : x =< k
  PROVE  /\ IsFiniteSet(S) /\ Cardinality(S) \in Nat
         /\ Cardinality({x \in S : x < k}) = Cardinality(S) - 1
<1>1. IsFiniteSet(S)
  <2>1. S \in SUBSET (0..k)
    OBVIOUS
  <2>2. IsFiniteSet(0..k)
    BY FS_Interval
  <2> QED
    BY <2>1, <2>2, FS_Subset
<1>2. {x \in S : x < k} = S \ {k}
  <2>1. \A x \in S : x \in Nat /\ x =< k
    OBVIOUS
  <2>2. \A x \in S : x < k <=> x # k
    BY <2>1
  <2> QED
    BY <2>2
<1>3. Cardinality(S \ {k}) = Cardinality(S) - 1
  BY <1>1, FS_RemoveElement
<1>4. Cardinality(S) \in Nat
  BY <1>1, FS_CardinalityType
<1> QED
  BY <1>1, <1>2, <1>3, <1>4

(* truncate: the base stays at or below the first message left; an empty    *)
(* log keeps its next offset because it had no gaps.                        *)
LEMMA TruncateKeeps ==
  ASSUME NEW part, NEW file \in Seq(Sent), NEW mode, NEW gone, PartitionInv(part, file, mode, gone),
         NEW n \in Nat \ {0}, n =< Cardinality(DOMAIN part.log),
         mode = "retention_ms" \/ n < Cardinality(DOMAIN part.log),
         NEW more, gone \cup Dropped(part, Truncated(part, n)) \subseteq more
  PROVE  PartitionInv(Truncated(part, n), file, mode, more)
<1>1. PICK size \in Nat : size = Len(file)
  OBVIOUS
<1>2. PICK D : D = DOMAIN part.log
  OBVIOUS
<1>3. PICK b \in Nat : b = part.base
  BY DEF PartitionInv
<1>4. D \in SUBSET Nat /\ \A o \in D : b =< o /\ o < size /\ part.log[o] = file[o + 1]
  BY <1>1, <1>2, <1>3, PartitionParts
<1>5. PICK kept : kept = {o \in D : Cardinality({x \in D : x < o}) >= n}
  OBVIOUS
<1>6. PICK new : new = [log |-> [o \in kept |-> part.log[o]], base |-> b + n]
  OBVIOUS
<1>7. new = Truncated(part, n)
  BY <1>2, <1>3, <1>5, <1>6 DEF Truncated
<1>8. kept \subseteq D /\ \A o \in kept : b + n =< o
  <2> SUFFICES ASSUME NEW o \in kept PROVE o \in D /\ b + n =< o
    OBVIOUS
  <2>1. o \in D /\ Cardinality({x \in D : x < o}) >= n
    BY <1>5
  <2>2. o \in Nat /\ b =< o /\ \A x \in D : b =< x
    BY <1>4, <2>1
  <2>3. b + n =< o
    BY <1>4, <2>1, <2>2, BelowAreMany
  <2> QED
    BY <2>1, <2>3
<1>9. DOMAIN new.log = kept /\ new.base = b + n /\ new = [log |-> new.log, base |-> new.base]
  BY <1>6
<1>10. new.log = [o \in DOMAIN new.log |-> file[o + 1]]
  <2>1. \A o \in kept : new.log[o] = file[o + 1]
    BY <1>4, <1>6, <1>8
  <2> QED
    BY <1>6, <1>9, <2>1
<1>11. DOMAIN new.log \subseteq new.base..(Len(file) - 1)
  <2> SUFFICES ASSUME NEW o \in kept PROVE o \in (b + n)..(size - 1)
    BY <1>1, <1>9
  <2>1. o \in Nat /\ o < size /\ b + n =< o
    BY <1>4, <1>8
  <2> QED
    BY <2>1
<1>12. D # {}
  <2>1. SUFFICES ASSUME D = {} PROVE FALSE
    OBVIOUS
  <2>2. Cardinality(D) = 0
    BY <2>1, FS_EmptySet
  <2> QED
    BY <1>2, <2>2
<1>13. PICK last \in Nat : last = size - 1 /\ last \in D
  <2>1. size - 1 \in D /\ size >= 1
    BY <1>1, <1>2, <1>12, LastHeld
  <2> QED
    BY <2>1
<1>14. \A x \in D : x =< last
  BY <1>4, <1>13
<1>15. Cardinality(D) \in Nat /\ Cardinality({x \in D : x < last}) = Cardinality(D) - 1
  BY <1>4, <1>13, <1>14, AllButLast
<1>16. mode = "retention_ms" => D = b..last
  BY <1>1, <1>2, <1>3, <1>13 DEF PartitionInv
<1>17. mode = "retention_ms" => kept = (b + n)..last
  <2> SUFFICES ASSUME D = b..last PROVE (b + n)..last \subseteq kept
    <3>1. \A o \in kept : o \in Nat /\ b + n =< o /\ o =< last
      BY <1>4, <1>8, <1>14
    <3>2. kept \subseteq (b + n)..last
      BY <3>1
    <3> QED
      BY <1>16, <3>2
  <2> SUFFICES ASSUME NEW o \in (b + n)..last PROVE o \in kept
    OBVIOUS
  <2>1. o \in D /\ o \in Nat
    OBVIOUS
  <2>2. {x \in D : x < o} = b..(o - 1)
    OBVIOUS
  <2>3. PICK e \in Int : e = o - 1
    OBVIOUS
  <2>4. Cardinality(b..e) = IF b > e THEN 0 ELSE e - b + 1
    BY FS_Interval
  <2>5. Cardinality(b..e) >= n
    BY <2>3, <2>4
  <2> QED
    BY <1>5, <2>1, <2>2, <2>3, <2>5
<1>18. NextOffset(new) = Len(file)
  <2>1. CASE kept = {}
    <3>1. ~(n < Cardinality(D))
      <4>1. SUFFICES ASSUME n < Cardinality(D) PROVE FALSE
        OBVIOUS
      <4>2. Cardinality({x \in D : x < last}) >= n
        BY <1>15, <4>1
      <4> QED
        BY <1>5, <1>13, <2>1, <4>2
    <3>2. mode = "retention_ms"
      BY <1>2, <3>1
    <3>3. n = Cardinality(D) /\ D = b..last
      BY <1>2, <1>15, <1>16, <3>1, <3>2
    <3>4. Cardinality(b..last) = IF b > last THEN 0 ELSE last - b + 1
      BY FS_Interval
    <3>5. b =< last
      BY <1>4, <1>13
    <3>6. b + n = size
      BY <1>13, <3>3, <3>4, <3>5
    <3> QED
      BY <1>1, <1>9, <2>1, <3>6 DEF NextOffset
  <2>2. CASE kept # {}
    <3>1. last \in kept
      <4>1. CASE n < Cardinality(D)
        <5>1. Cardinality({x \in D : x < last}) >= n
          BY <1>15, <4>1
        <5> QED
          BY <1>5, <1>13, <5>1
      <4>2. CASE mode = "retention_ms"
        <5>1. PICK o \in kept : TRUE
          BY <2>2
        <5>2. o \in Nat /\ b + n =< o /\ o =< last
          BY <1>4, <1>8, <1>14
        <5> QED
          BY <1>17, <4>2, <5>2
      <4> QED
        BY <1>2, <4>1, <4>2
    <3>2. DOMAIN new.log \in SUBSET Nat /\ \A o \in DOMAIN new.log : o =< last
      BY <1>4, <1>8, <1>9, <1>14
    <3>3. NextOffset(new) = last + 1
      BY <1>9, <3>1, <3>2, NextIs
    <3> QED
      BY <1>1, <1>13, <3>3
  <2> QED
    BY <2>1, <2>2
<1>19. ASSUME NEW o \in 0..(Len(file) - 1) PROVE o \in DOMAIN new.log \/ file[o + 1].id \in more
  <2>1. CASE o \in D \ kept
    <3>1. part.log[o].id \in Dropped(part, new)
      BY <1>2, <1>9, <2>1 DEF Dropped
    <3> QED
      BY <1>4, <1>7, <2>1, <3>1
  <2>2. CASE o \in kept
    BY <1>9, <2>2
  <2>3. CASE o \notin D
    BY <1>2, <2>3 DEF PartitionInv
  <2> QED
    BY <2>1, <2>2, <2>3
<1>20. mode = "retention_ms" => DOMAIN new.log = new.base..(Len(file) - 1)
  BY <1>1, <1>9, <1>13, <1>17
<1>21. PartitionInv(new, file, mode, more)
  BY <1>9, <1>10, <1>11, <1>18, <1>19, <1>20 DEF PartitionInv
<1> QED
  BY <1>7, <1>21

(* _load_from_disk: a log that is sent once more is its file.               *)
Reloaded(file) == [log |-> [o \in 0..(Len(file) - 1) |-> file[o + 1]], base |-> 0]

LEMMA ReloadKeeps ==
  ASSUME NEW file \in Seq(Sent), NEW mode, NEW gone
  PROVE  PartitionInv(Reloaded(file), file, mode, gone)
<1>1. PICK n \in Nat : n = Len(file)
  OBVIOUS
<1>2. PICK new : new = Reloaded(file)
  OBVIOUS
<1>3. /\ new = [log |-> new.log, base |-> new.base] /\ new.base = 0
      /\ DOMAIN new.log = 0..(n - 1) /\ new.log = [o \in DOMAIN new.log |-> file[o + 1]]
  BY <1>1, <1>2 DEF Reloaded
<1>4. NextOffset(new) = n
  <2>1. CASE n = 0
    BY <1>3, <2>1 DEF NextOffset
  <2>2. CASE n # 0
    <3>1. PICK k \in Nat : k = n - 1
      BY <2>2
    <3>2. k \in DOMAIN new.log /\ DOMAIN new.log \in SUBSET Nat /\ \A o \in DOMAIN new.log : o =< k
      BY <1>3, <3>1
    <3>3. NextOffset(new) = k + 1
      BY <3>2, NextIs
    <3> QED
      BY <3>1, <3>3
  <2> QED
    BY <2>1, <2>2
<1>5. PartitionInv(new, file, mode, gone)
  BY <1>1, <1>3, <1>4 DEF PartitionInv
<1> QED
  BY <1>2, <1>5

(* What poll took from a partition, and where it stands then.               *)
ReadIds(part, read) == {part.log[o].id : o \in read}
After(from, read) == IF read = {} THEN from ELSE Max(read) + 1

PrefixOf(part, from, read) ==
  /\ read \subseteq DOMAIN part.log
  /\ \A o \in read : from =< o /\ \A x \in DOMAIN part.log : x \in from..o => x \in read

(* A read passes over no message that is in the log.                        *)
LEMMA ReadIsPrefix ==
  ASSUME NEW part, DOMAIN part.log \in SUBSET Nat, NEW n \in Nat, \A x \in DOMAIN part.log : x < n,
         NEW from \in Nat, NEW k \in Int, NEW read, read = ReadFrom(part, from, k)
  PROVE  IsFiniteSet(read) /\ PrefixOf(part, from, read)
<1>1. PICK at : at = {o \in DOMAIN part.log : o >= from}
  OBVIOUS
<1>2. read = {o \in at : Cardinality({x \in at : x <= o}) <= k}
  BY <1>1 DEF ReadFrom
<1>3. at \in SUBSET Nat /\ at \subseteq DOMAIN part.log
  BY <1>1
<1>4. IsFiniteSet(at)
  <2>1. at \in SUBSET (0..n)
    BY <1>1
  <2>2. 0 \in Int /\ n \in Int
    OBVIOUS
  <2>3. IsFiniteSet(0..n)
    BY <2>2, FS_Interval
  <2> QED
    BY <2>1, <2>3, FS_Subset
<1>5. IsFiniteSet(read)
  <2>1. read \in SUBSET at
    BY <1>2
  <2> QED
    BY <1>4, <2>1, FS_Subset
<1>6. ASSUME NEW o \in read, NEW x \in DOMAIN part.log, x \in from..o PROVE x \in read
  <2>1. o \in at /\ o \in Nat /\ x \in Nat /\ x =< o /\ from =< x
    BY <1>2, <1>3, <1>6
  <2>2. x \in at
    BY <1>1, <2>1
  <2>3. PICK X : X = {y \in at : y <= x}
    OBVIOUS
  <2>4. PICK O : O = {y \in at : y <= o}
    OBVIOUS
  <2>5. X \in SUBSET O /\ O \in SUBSET at
    <3>1. \A y \in at : y \in Nat
      BY <1>3
    <3>2. \A y \in at : y <= x => y <= o
      BY <2>1, <3>1
    <3> QED
      BY <2>3, <2>4, <3>2
  <2>6. IsFiniteSet(O) /\ IsFiniteSet(X)
    BY <1>4, <2>5, FS_Subset
  <2>7. Cardinality(X) =< Cardinality(O) /\ Cardinality(X) \in Nat /\ Cardinality(O) \in Nat
    BY <2>5, <2>6, FS_Subset, FS_CardinalityType
  <2>8. Cardinality(O) <= k
    BY <1>2, <2>4
  <2>9. Cardinality(X) <= k
    BY <2>7, <2>8
  <2> QED
    BY <1>2, <2>2, <2>3, <2>9
<1> QED
  BY <1>1, <1>2, <1>3, <1>5, <1>6 DEF PrefixOf

LEMMA ReadAccounts ==
  ASSUME NEW part, NEW file \in Seq(Sent), NEW mode, NEW gone, PartitionInv(part, file, mode, gone),
         NEW done, gone \subseteq done, NEW pos \in Nat, Accounted(file, pos, done), NEW k \in Int,
         NEW from, from = Max({pos, part.base}), NEW read, read = ReadFrom(part, from, k)
  PROVE  /\ Cardinality(read) \in Nat /\ ReadIds(part, read) \in SUBSET Nat
         /\ After(from, read) \in Nat /\ Accounted(file, After(from, read), done \cup ReadIds(part, read))
<1>1. PICK n \in Nat : n = Len(file)
  OBVIOUS
<1>2. PICK D : D = DOMAIN part.log
  OBVIOUS
<1>3. /\ part.base \in Nat /\ D \in SUBSET Nat
      /\ \A o \in D : part.base =< o /\ o < n /\ part.log[o] = file[o + 1]
  BY <1>1, <1>2, PartitionParts
<1>4. Accounted(file, part.base, done)
  BY BelowBase, AccountedMore
<1>5. from \in Nat /\ Accounted(file, from, done)
  <2>1. from \in {pos, part.base}
    BY <1>3, LaterOfTwo
  <2> QED
    BY <1>3, <1>4, <2>1
<1>6. from =< n /\ \A o \in 0..(from - 1) : file[o + 1].id \in done
  BY <1>1, <1>5 DEF Accounted
<1>7. /\ read \subseteq D /\ IsFiniteSet(read)
      /\ \A o \in read : from =< o /\ \A x \in D : x \in from..o => x \in read
  <2>1. DOMAIN part.log \in SUBSET Nat /\ \A x \in DOMAIN part.log : x < n
    BY <1>2, <1>3
  <2>2. IsFiniteSet(read) /\ PrefixOf(part, from, read)
    BY <1>5, <2>1, ReadIsPrefix
  <2> QED
    BY <1>2, <2>2 DEF PrefixOf
<1>8. Cardinality(read) \in Nat
  BY <1>7, FS_CardinalityType
<1>9. PICK ids : ids = ReadIds(part, read)
  OBVIOUS
<1>10. \A o \in read : file[o + 1].id \in ids
  BY <1>3, <1>7, <1>9 DEF ReadIds
<1>11. ids \in SUBSET Nat
  <2> SUFFICES ASSUME NEW o \in read PROVE part.log[o].id \in Nat
    BY <1>9 DEF ReadIds
  <2>1. o \in Nat /\ o < n /\ part.log[o] = file[o + 1]
    BY <1>3, <1>7
  <2>2. o + 1 \in 1..Len(file)
    BY <1>1, <2>1
  <2>3. file[o + 1] \in Sent
    BY <2>2
  <2> QED
    BY <2>1, <2>3 DEF Sent
<1>12. CASE read = {}
  <2>1. After(from, read) = from
    BY <1>12 DEF After
  <2>2. done \subseteq done \cup ids
    OBVIOUS
  <2>3. Accounted(file, from, done \cup ids)
    BY <1>6, <1>1 DEF Accounted
  <2> QED
    BY <1>5, <1>8, <1>9, <1>11, <2>1, <2>3
<1>13. CASE read # {}
  <2>1. read \in SUBSET Nat /\ \A x \in read : x < n
    BY <1>3, <1>7
  <2>2. PICK m : m = Max(read)
    OBVIOUS
  <2>3. m \in read /\ m < n
    BY <1>13, <2>1, <2>2, MaxOffset
  <2>4. m \in Nat /\ m + 1 =< n
    <3>1. m \in Nat
      BY <2>1, <2>3
    <3> QED
      BY <2>3, <3>1
  <2>5. After(from, read) = m + 1
    BY <1>13, <2>2 DEF After
  <2>6. ASSUME NEW o \in 0..((m + 1) - 1) PROVE file[o + 1].id \in done \cup ids
    <3>1. CASE o < from
      <4>1. o \in 0..(from - 1)
        BY <1>5, <3>1
      <4> QED
        BY <1>6, <4>1
    <3>2. CASE ~(o < from)
      <4>1. o \in from..m /\ o \in 0..(Len(file) - 1)
        BY <1>1, <1>5, <2>4, <3>2
      <4>2. CASE o \in D
        <5>1. o \in read
          BY <1>7, <2>3, <4>1, <4>2
        <5> QED
          BY <1>10, <5>1
      <4>3. CASE o \notin D
        BY <1>2, <4>1, <4>3 DEF PartitionInv
      <4> QED
        BY <4>2, <4>3
    <3> QED
      BY <3>1, <3>2
  <2>7. Accounted(file, m + 1, done \cup ids)
    BY <1>1, <2>4, <2>6 DEF Accounted
  <2>8. m + 1 \in Nat
    BY <2>4
  <2> QED
    BY <1>8, <1>9, <1>11, <2>5, <2>7, <2>8
<1> QED
  BY <1>12, <1>13

(* Offsets and files that stay are accounted for by more than before.       *)
LEMMA OffsetsStay ==
  ASSUME OffsetsAccounted, UNCHANGED <<shape, files, committed, consumers>>,
         delivered \cup excused \subseteq (delivered \cup excused)'
  PROVE  OffsetsAccounted'
<1>1. PICK done : done = delivered \cup excused
  OBVIOUS
<1>2. PICK more : more = (delivered \cup excused)' /\ done \subseteq more
  BY <1>1
<1>3. ASSUME NEW p \in AllPartitions PROVE committed[p] # None => Accounted(files[p], committed[p], more)
  <2>1. PICK file, n : file = files[p] /\ n = committed[p]
    OBVIOUS
  <2>2. n # None => Accounted(file, n, done)
    BY <1>1, <2>1 DEF OffsetsAccounted
  <2> QED
    BY <1>2, <2>1, <2>2, AccountedMore
<1>4. ASSUME NEW p \in AllPartitions, NEW c \in Consumer
      PROVE  consumers[c].pos[p] # None => Accounted(files[p], consumers[c].pos[p], more)
  <2>1. PICK file, n : file = files[p] /\ n = consumers[c].pos[p]
    OBVIOUS
  <2>2. n # None => Accounted(file, n, done)
    BY <1>1, <2>1 DEF OffsetsAccounted
  <2> QED
    BY <1>2, <2>1, <2>2, AccountedMore
<1>5. AllPartitions' = AllPartitions
  BY DEF AllPartitions
<1> QED
  BY <1>2, <1>3, <1>4, <1>5 DEF OffsetsAccounted

LEMMA SendStep ==
  ASSUME BrokerInv, NEW CONSTANT p, p \in Partitions, NEW CONSTANT k \in PKey \cup {NoKey}, Send(p, k)
  PROVE  BrokerInv'
<1>1. BrokerTypes /\ OffsetsAccounted /\ p \in AllPartitions
  BY DEF BrokerInv, BrokerTypes
<1>2. PICK m \in Sent : m = [id |-> sent + 1, key |-> k]
  <2>1. PICK i \in Nat : i = sent + 1
    BY <1>1 DEF BrokerTypes
  <2>2. [id |-> i, key |-> k] \in Sent
    BY DEF Sent
  <2> QED
    BY <2>1, <2>2
<1>3. /\ parts' = [parts EXCEPT ![p] = Appended(@, m)]
      /\ files' = [files EXCEPT ![p] = Append(@, m)]
      /\ sent' = sent + 1
      /\ UNCHANGED <<shape, cleanup, committed, consumers, delivered, excused>>
  BY <1>2 DEF Send, Persisted
<1>4. AllPartitions' = AllPartitions /\ Partitions' = Partitions
  BY <1>3 DEF AllPartitions, Partitions
<1>5. files' \in [AllPartitions -> Seq(Sent)]
  BY <1>1, <1>3 DEF BrokerTypes
<1>6. BrokerTypes'
  BY <1>1, <1>3, <1>4, <1>5 DEF BrokerTypes
<1>7. ASSUME NEW q \in AllPartitions, NEW n \in Nat, NEW done, Accounted(files[q], n, done)
      PROVE  Accounted(files'[q], n, done)
  <2>1. PICK file \in Seq(Sent) : file = files[q]
    BY <1>1 DEF BrokerTypes
  <2>2. Accounted(file, n, done)
    BY <1>7, <2>1
  <2>3. Accounted(Append(file, m), n, done)
    BY <2>2, AccountedAfterSend
  <2>4. files'[q] = Append(file, m) \/ files'[q] = file
    BY <1>1, <1>3, <2>1 DEF BrokerTypes
  <2> QED
    BY <2>2, <2>3, <2>4
<1>8. OffsetsAccounted'
  <2>1. PICK done : done = delivered \cup excused
    OBVIOUS
  <2>2. ASSUME NEW q \in AllPartitions, committed[q] # None PROVE Accounted(files'[q], committed[q], done)
    <3>1. PICK n \in Nat : n = committed[q]
      BY <1>1, <2>2 DEF BrokerTypes
    <3>2. Accounted(files[q], n, done)
      BY <1>1, <2>1, <2>2, <3>1 DEF OffsetsAccounted
    <3> QED
      BY <1>7, <3>1, <3>2
  <2>3. ASSUME NEW q \in AllPartitions, NEW c \in Consumer, consumers[c].pos[q] # None
        PROVE  Accounted(files'[q], consumers[c].pos[q], done)
    <3>1. PICK n \in Nat : n = consumers[c].pos[q]
      BY <1>1, <2>3 DEF BrokerTypes
    <3>2. Accounted(files[q], n, done)
      BY <1>1, <2>1, <2>3, <3>1 DEF OffsetsAccounted
    <3> QED
      BY <1>7, <3>1, <3>2
  <2> QED
    BY <1>3, <1>4, <2>1, <2>2, <2>3 DEF OffsetsAccounted
<1>9. ASSUME NEW q \in Partitions PROVE PartitionInv(parts'[q], files'[q], cleanup, excused)
  <2>1. PICK part : part = parts[q]
    OBVIOUS
  <2>2. PICK file \in Seq(Sent) : file = files[q]
    BY <1>1 DEF BrokerTypes
  <2>3. PICK mode, gone : mode = cleanup /\ gone = excused
    OBVIOUS
  <2>4. PartitionInv(part, file, mode, gone)
    BY <2>1, <2>2, <2>3 DEF BrokerInv
  <2>5. CASE q = p
    <3>1. parts'[q] = Appended(part, m) /\ files'[q] = Append(file, m)
      BY <1>1, <1>3, <2>1, <2>2, <2>5 DEF BrokerTypes, Partitions
    <3> QED
      BY <2>3, <2>4, <3>1, SendKeeps
  <2>6. CASE q # p
    <3>1. parts'[q] = part /\ files'[q] = file
      BY <1>1, <1>3, <2>1, <2>2, <2>6 DEF BrokerTypes, Partitions
    <3> QED
      BY <2>3, <2>4, <3>1
  <2> QED
    BY <2>5, <2>6
<1> QED
  BY <1>3, <1>4, <1>6, <1>8, <1>9 DEF BrokerInv

LEMMA CompactStepKeeps ==
  ASSUME BrokerInv, Compact
  PROVE  BrokerInv'
<1>1. BrokerTypes /\ OffsetsAccounted /\ cleanup # "retention_ms"
  BY DEF BrokerInv, Compact
<1>2. PICK gone, more : /\ gone = excused /\ more = excused'
                        /\ more = gone \cup UNION {Dropped(parts[q], Compacted(parts[q])) : q \in Partitions}
  BY DEF Compact, KeepOnly
<1>3. /\ parts' = [q \in Partitions |-> Compacted(parts[q])]
      /\ UNCHANGED <<shape, cleanup, files, committed, consumers, sent, delivered>>
  BY DEF Compact, KeepOnly
<1>4. AllPartitions' = AllPartitions /\ Partitions' = Partitions
  BY <1>3 DEF AllPartitions, Partitions
<1>5. BrokerTypes'
  BY <1>1, <1>3, <1>4 DEF BrokerTypes
<1>6. OffsetsAccounted'
  <2>1. delivered \cup excused \subseteq (delivered \cup excused)'
    BY <1>2, <1>3
  <2> QED
    BY <1>1, <1>3, <2>1, OffsetsStay
<1>7. ASSUME NEW q \in Partitions PROVE PartitionInv(parts'[q], files[q], cleanup, more)
  <2>1. PICK part, mode : part = parts[q] /\ mode = cleanup
    OBVIOUS
  <2>2. PICK file \in Seq(Sent) : file = files[q]
    BY <1>1 DEF BrokerTypes
  <2>3. PartitionInv(part, file, mode, gone) /\ mode # "retention_ms"
    BY <1>1, <1>2, <2>1, <2>2 DEF BrokerInv
  <2>4. gone \cup Dropped(part, Compacted(part)) \subseteq more
    BY <1>2, <2>1
  <2>5. PartitionInv(Compacted(part), file, mode, more)
    BY <2>3, <2>4, CompactKeeps
  <2> QED
    BY <1>3, <2>1, <2>2, <2>5
<1> QED
  BY <1>2, <1>3, <1>4, <1>5, <1>6, <1>7 DEF BrokerInv

LEMMA RetentionStep ==
  ASSUME BrokerInv, NEW CONSTANT p, p \in Partitions, NEW CONSTANT n, EnforceRetention(p, n)
  PROVE  BrokerInv'
<1>1. BrokerTypes /\ OffsetsAccounted
  BY DEF BrokerInv
<1>2. PICK new : new = [parts EXCEPT ![p] = Truncated(@, n)]
  OBVIOUS
<1>3. PICK gone, more : /\ gone = excused /\ more = excused'
                        /\ more = gone \cup UNION {Dropped(parts[q], new[q]) : q \in Partitions}
  BY <1>2 DEF EnforceRetention, KeepOnly
<1>4. /\ parts' = new
      /\ UNCHANGED <<shape, cleanup, files, committed, consumers, sent, delivered>>
  BY <1>2 DEF EnforceRetention, KeepOnly
<1>5. AllPartitions' = AllPartitions /\ Partitions' = Partitions
  BY <1>2, <1>4 DEF AllPartitions, Partitions
<1>6. BrokerTypes'
  BY <1>1, <1>4, <1>5 DEF BrokerTypes
<1>7. OffsetsAccounted'
  <2>1. delivered \cup excused \subseteq (delivered \cup excused)'
    BY <1>3, <1>4
  <2> QED
    BY <1>1, <1>4, <2>1, OffsetsStay
<1>8. ASSUME NEW q \in Partitions PROVE PartitionInv(parts'[q], files[q], cleanup, more)
  <2>1. PICK part, mode : part = parts[q] /\ mode = cleanup
    OBVIOUS
  <2>2. PICK file \in Seq(Sent) : file = files[q]
    BY <1>1 DEF BrokerTypes
  <2>3. PartitionInv(part, file, mode, gone)
    BY <1>1, <1>3, <2>1, <2>2 DEF BrokerInv
  <2>4. CASE q = p
    <3>1. new[q] = Truncated(part, n)
      BY <1>2, <2>1, <2>4 DEF Partitions
    <3>2. gone \cup Dropped(part, Truncated(part, n)) \subseteq more
      BY <1>3, <2>1, <3>1
    <3>3. /\ n \in 1..Cardinality(DOMAIN part.log)
          /\ mode = "retention_ms" \/ n < Cardinality(DOMAIN part.log)
      BY <2>1, <2>4 DEF EnforceRetention
    <3>4. n \in Nat \ {0} /\ n =< Cardinality(DOMAIN part.log)
      BY <3>3
    <3>5. PartitionInv(Truncated(part, n), file, mode, more)
      BY <2>3, <3>2, <3>3, <3>4, TruncateKeeps
    <3> QED
      BY <1>4, <2>1, <2>2, <3>1, <3>5
  <2>5. CASE q # p
    <3>1. parts'[q] = part
      BY <1>2, <1>4, <2>1, <2>5 DEF Partitions
    <3>2. gone \subseteq more
      BY <1>3
    <3> QED
      BY <2>1, <2>2, <2>3, <3>1, <3>2, GoneGrows
  <2> QED
    BY <2>4, <2>5
<1> QED
  BY <1>3, <1>4, <1>5, <1>6, <1>7, <1>8 DEF BrokerInv

(* What poll has got so far and where it stands: everything below is        *)
(* accounted for.                                                           *)
Polls(c) ==
  {x \in [left : Int, got : SUBSET Nat, pos : [AllPartitions -> Nat \cup {None}]] :
     /\ \A p \in AllPartitions :
           x.pos[p] # None => Accounted(files[p], x.pos[p], (delivered \cup excused) \cup x.got)
     /\ \A p \in consumers[c].assigned : x.pos[p] # None}

LEMMA PolledFromKeeps ==
  ASSUME BrokerInv, NEW CONSTANT c \in Consumer, NEW CONSTANT p, p \in consumers[c].assigned,
         NEW CONSTANT x, x \in Polls(c)
  PROVE  PolledFrom(x, p) \in Polls(c)
<1>1. BrokerTypes /\ p \in Partitions /\ p \in AllPartitions
  BY DEF BrokerInv, BrokerTypes
<1>2. CASE x.left = 0
  BY <1>2 DEF PolledFrom
<1>3. CASE x.left # 0
  <2>1. PICK part, mode, gone : part = parts[p] /\ mode = cleanup /\ gone = excused
    OBVIOUS
  <2>2. PICK file \in Seq(Sent) : file = files[p]
    BY <1>1 DEF BrokerTypes
  <2>3. PICK k \in Int : k = x.left
    BY DEF Polls
  <2>4. PICK pos \in Nat : pos = x.pos[p]
    BY <1>1 DEF Polls
  <2>5. PICK old : old = delivered \cup excused
    OBVIOUS
  <2>6. PICK got : got = x.got /\ got \in SUBSET Nat
    BY DEF Polls
  <2>7. PICK done : done = old \cup got
    OBVIOUS
  <2>8. PICK from : from = Max({pos, part.base})
    OBVIOUS
  <2>9. PICK read : read = ReadFrom(part, from, k)
    OBVIOUS
  <2>10. PartitionInv(part, file, mode, gone) /\ gone \subseteq done /\ Accounted(file, pos, done)
    <3>1. PartitionInv(part, file, mode, gone)
      BY <1>1, <2>1, <2>2 DEF BrokerInv
    <3>2. Accounted(file, pos, done)
      BY <1>1, <2>2, <2>4, <2>5, <2>6, <2>7, LogAssumption DEF Polls
    <3> QED
      BY <2>1, <2>5, <2>7, <3>1, <3>2
  <2>11. PICK ids, to : ids = ReadIds(part, read) /\ to = After(from, read)
    OBVIOUS
  <2>12. Cardinality(read) \in Nat /\ ids \in SUBSET Nat /\ to \in Nat /\ Accounted(file, to, done \cup ids)
    BY <2>8, <2>9, <2>10, <2>11, ReadAccounts
  <2>13. PICK y : y = [left |-> k - Cardinality(read), got |-> got \cup ids, pos |-> [x.pos EXCEPT ![p] = to]]
    OBVIOUS
  <2>14. y = PolledFrom(x, p)
    BY <1>3, <2>1, <2>3, <2>4, <2>6, <2>8, <2>9, <2>11, <2>13 DEF PolledFrom, ReadIds, After
  <2>15. y \in [left : Int, got : SUBSET Nat, pos : [AllPartitions -> Nat \cup {None}]]
    <3>1. x.pos \in [AllPartitions -> Nat \cup {None}]
      BY DEF Polls
    <3>2. [x.pos EXCEPT ![p] = to] \in [AllPartitions -> Nat \cup {None}]
      BY <2>12, <3>1
    <3>3. PICK l \in Int : l = k - Cardinality(read)
      BY <2>12
    <3>4. got \cup ids \in SUBSET Nat
      BY <2>6, <2>12
    <3> QED
      BY <2>13, <3>2, <3>3, <3>4
  <2>16. y.got = got \cup ids /\ y.pos = [x.pos EXCEPT ![p] = to]
    BY <2>13
  <2>17. x.pos \in [AllPartitions -> Nat \cup {None}]
    BY DEF Polls
  <2>18. ASSUME NEW q \in AllPartitions, y.pos[q] # None PROVE Accounted(files[q], y.pos[q], old \cup y.got)
    <3>1. PICK more : more = old \cup y.got /\ more = done \cup ids /\ done \subseteq more
      <4>1. old \cup (got \cup ids) = (old \cup got) \cup ids
        OBVIOUS
      <4>2. old \cup y.got = done \cup ids
        BY <2>7, <2>16, <4>1
      <4> QED
        BY <4>2
    <3>2. CASE q = p
      BY <2>2, <2>12, <2>16, <2>17, <3>1, <3>2
    <3>3. CASE q # p
      <4>1. y.pos[q] = x.pos[q]
        BY <2>16, <2>17, <3>3
      <4>2. PICK f, n : f = files[q] /\ n = x.pos[q]
        OBVIOUS
      <4>3. Accounted(f, n, done)
        BY <2>5, <2>6, <2>7, <2>18, <4>1, <4>2 DEF Polls
      <4> QED
        BY <3>1, <4>1, <4>2, <4>3, AccountedMore
    <3> QED
      BY <3>2, <3>3
  <2>19. ASSUME NEW q \in consumers[c].assigned PROVE y.pos[q] # None
    <3>1. q \in AllPartitions /\ x.pos[q] # None
      BY <1>1 DEF BrokerTypes, Polls
    <3>2. to # None
      BY <2>12, LogAssumption
    <3> QED
      BY <2>16, <2>17, <3>1, <3>2
  <2> QED
    BY <2>5, <2>14, <2>15, <2>18, <2>19 DEF Polls
<1> QED
  BY <1>2, <1>3

LEMMA PolledKeeps ==
  ASSUME BrokerInv, NEW CONSTANT c \in Consumer, NEW CONSTANT n \in Int
  PROVE  Polled(c, n) \in Polls(c)
<1>1. PICK size \in Nat : size = shape[1]
  BY LogAssumption DEF BrokerInv, BrokerTypes
<1>2. PICK first : first = [left |-> n, got |-> {}, pos |-> consumers[c].pos]
  OBVIOUS
<1>3. first \in Polls(c)
  <2>1. first \in [left : Int, got : SUBSET Nat, pos : [AllPartitions -> Nat \cup {None}]]
    BY <1>2 DEF BrokerInv, BrokerTypes
  <2>2. first.got = {} /\ first.pos = consumers[c].pos
    BY <1>2
  <2>3. PICK done : done = delivered \cup excused /\ done \cup {} = done
    OBVIOUS
  <2>4. \A p \in AllPartitions : first.pos[p] # None => Accounted(files[p], first.pos[p], done)
    BY <2>2, <2>3 DEF BrokerInv, OffsetsAccounted
  <2>5. \A p \in consumers[c].assigned : first.pos[p] # None
    BY <2>2 DEF BrokerInv, BrokerTypes
  <2> QED
    BY <2>1, <2>2, <2>3, <2>4, <2>5 DEF Polls
<1> DEFINE Step(x, i) == IF i - 1 \in consumers[c].assigned THEN PolledFrom(x, i - 1) ELSE x
           st == [i \in 1..size |-> [x \in Polls(c) |-> Step(x, i)]]
<1>4. ASSUME NEW x, x \in Polls(c), NEW i \in 1..size PROVE Step(x, i) \in Polls(c)
  <2>1. PICK p : p = i - 1
    OBVIOUS
  <2> QED
    BY <1>4, <2>1, PolledFromKeeps
<1> HIDE DEF Step
<1>5. PICK g : /\ g \in [0..size -> Polls(c)] /\ g[0] = first
               /\ \A i \in 1..size : g[i] = st[i][g[i - 1]]
  <2>1. st \in [1..size -> [Polls(c) -> Polls(c)]]
    BY <1>4
  <2> HIDE DEF st
  <2>2. PICK T, step : T = Polls(c) /\ step = st
    OBVIOUS
  <2>3. first \in T /\ step \in [1..size -> [T -> T]]
    BY <1>3, <2>1, <2>2
  <2>4. PICK g : Iterates(size, T, first, step, g)
    BY <2>3, Iteration
  <2>5. g \in [0..size -> T] /\ g[0] = first /\ \A i \in 1..size : g[i] = step[i][g[i - 1]]
    BY <2>4 DEF Iterates
  <2> QED
    BY <2>2, <2>5
<1> DEFINE Is(f) == f = [i \in 0..size |-> IF i = 0 THEN first ELSE Step(f[i - 1], i)]
<1>6. Is(g)
  <2>1. ASSUME NEW i \in 1..size PROVE g[i] = Step(g[i - 1], i)
    <3>1. g[i - 1] \in Polls(c)
      BY <1>5
    <3> QED
      BY <1>5, <3>1
  <2>2. \A i \in 0..size : g[i] = IF i = 0 THEN first ELSE Step(g[i - 1], i)
    BY <1>5, <2>1
  <2>3. g = [i \in 0..size |-> g[i]]
    BY <1>5
  <2> HIDE DEF st
  <2> QED
    BY <2>2, <2>3
<1>7. PICK after : Is(after) /\ Polled(c, n) = after[size]
  <2>1. Is(CHOOSE f : Is(f))
    BY <1>6
  <2>2. Polled(c, n) = (CHOOSE f : Is(f))[size]
    BY <1>1, <1>2 DEF Polled, Step
  <2> HIDE DEF Is
  <2> QED
    BY <2>1, <2>2
<1>8. after[0] = first /\ \A i \in 1..size : after[i] = Step(after[i - 1], i)
  <2>1. Is(after)
    BY <1>7
  <2> HIDE DEF st
  <2> QED
    BY <2>1
<1> DEFINE P == {i \in 0..size : after[i] \in Polls(c)}
<1>9. 0 \in P
  BY <1>3, <1>8
<1>10. ASSUME NEW i \in 0..(size - 1), i \in P PROVE i + 1 \in P
  <2>1. PICK j \in 1..size : j = i + 1 /\ j - 1 = i
    OBVIOUS
  <2>2. PICK x : x = after[i] /\ x \in Polls(c)
    BY <1>10
  <2>3. after[j] = Step(x, j) /\ Step(x, j) \in Polls(c)
    BY <1>4, <1>8, <2>1, <2>2
  <2> QED
    BY <2>1, <2>3
<1>11. size \in P
  <2> HIDE DEF P
  <2>1. PICK Q : Q = P
    OBVIOUS
  <2>2. \A i \in 0..size : i \in Q
    BY <1>9, <1>10, <2>1, CountUp
  <2> QED
    BY <2>1, <2>2
<1> QED
  BY <1>7, <1>11

(* commit, of offsets that are accounted for.                               *)
LEMMA CommitAccounts ==
  ASSUME BrokerTypes, OffsetsAccounted, NEW CONSTANT pos \in [AllPartitions -> Nat \cup {None}],
         NEW CONSTANT done, delivered \cup excused \subseteq done,
         \A p \in AllPartitions : pos[p] # None => Accounted(files[p], pos[p], done)
  PROVE  /\ CommittedBy(pos) \in [AllPartitions -> Nat \cup {None}]
         /\ \A p \in AllPartitions :
               CommittedBy(pos)[p] # None => Accounted(files[p], CommittedBy(pos)[p], done)
<1>1. \A p \in AllPartitions : committed[p] \in Nat \cup {None} /\ pos[p] \in Nat \cup {None}
  BY DEF BrokerTypes
<1>2. CommittedBy(pos) \in [AllPartitions -> Nat \cup {None}]
  BY <1>1 DEF CommittedBy
<1>3. ASSUME NEW p \in AllPartitions, CommittedBy(pos)[p] # None
      PROVE  Accounted(files[p], CommittedBy(pos)[p], done)
  <2>1. CASE pos[p] # None
    BY <2>1 DEF CommittedBy
  <2>2. CASE pos[p] = None
    <3>1. CommittedBy(pos)[p] = committed[p]
      BY <2>2 DEF CommittedBy
    <3>2. PICK file, n, old : file = files[p] /\ n = committed[p] /\ old = delivered \cup excused
      OBVIOUS
    <3>3. Accounted(file, n, old)
      BY <1>3, <3>1, <3>2 DEF OffsetsAccounted
    <3> QED
      BY <3>1, <3>2, <3>3, AccountedMore
  <2> QED
    BY <2>1, <2>2
<1> QED
  BY <1>2, <1>3

LEMMA PollKeeps ==
  ASSUME BrokerInv, NEW CONSTANT c \in Consumer, NEW CONSTANT n \in Int, NEW CONSTANT auto \in BOOLEAN,
         Poll(c, n, auto)
  PROVE  BrokerInv'
<1>1. BrokerTypes /\ OffsetsAccounted
  BY DEF BrokerInv
<1>2. PICK r : r = Polled(c, n) /\ r \in Polls(c)
  BY PolledKeeps
<1>3. PICK pos : pos = r.pos
  OBVIOUS
<1>4. /\ consumers' = [consumers EXCEPT ![c].pos = pos]
      /\ delivered' = delivered \cup r.got
      /\ committed' = IF auto /\ r.got # {} THEN CommittedBy(pos) ELSE committed
      /\ UNCHANGED <<shape, cleanup, parts, files, sent, excused>>
  BY <1>2, <1>3 DEF Poll
<1>5. AllPartitions' = AllPartitions /\ Partitions' = Partitions
  BY <1>4 DEF AllPartitions, Partitions
<1>6. PICK old, done : /\ old = delivered \cup excused /\ done = old \cup r.got
                       /\ old \subseteq done /\ done = (delivered \cup excused)'
  <2>1. (delivered \cup excused) \cup r.got = (delivered \cup r.got) \cup excused
    OBVIOUS
  <2> QED
    BY <1>4, <2>1
<1>7. /\ pos \in [AllPartitions -> Nat \cup {None}]
      /\ \A p \in AllPartitions : pos[p] # None => Accounted(files[p], pos[p], done)
      /\ \A p \in consumers[c].assigned : pos[p] # None
  BY <1>2, <1>3, <1>6 DEF Polls
<1>8. /\ committed' \in [AllPartitions -> Nat \cup {None}]
      /\ \A p \in AllPartitions : committed'[p] # None => Accounted(files[p], committed'[p], done)
  <2>1. CASE committed' = CommittedBy(pos)
    BY <1>1, <1>6, <1>7, <2>1, CommitAccounts
  <2>2. CASE committed' = committed
    <3>1. committed \in [AllPartitions -> Nat \cup {None}]
      BY <1>1 DEF BrokerTypes
    <3>2. ASSUME NEW p \in AllPartitions, committed[p] # None PROVE Accounted(files[p], committed[p], done)
      <4>1. PICK file, k : file = files[p] /\ k = committed[p]
        OBVIOUS
      <4>2. Accounted(file, k, old)
        BY <1>1, <1>6, <3>2, <4>1 DEF OffsetsAccounted
      <4> QED
        BY <1>6, <4>1, <4>2, AccountedMore
    <3> QED
      BY <2>2, <3>1, <3>2
  <2> QED
    BY <1>4, <2>1, <2>2
<1>9. /\ consumers' \in [Consumer -> [member : BOOLEAN, assigned : SUBSET Partitions,
                                      pos : [AllPartitions -> Nat \cup {None}]]]
      /\ consumers'[c].pos = pos /\ consumers'[c].assigned = consumers[c].assigned
      /\ \A d \in Consumer : d # c => consumers'[d] = consumers[d]
  BY <1>1, <1>4, <1>7 DEF BrokerTypes
<1>10. \A d \in Consumer : \A p \in consumers'[d].assigned : consumers'[d].pos[p] # None
  <2> SUFFICES ASSUME NEW d \in Consumer, NEW p \in consumers'[d].assigned
               PROVE  consumers'[d].pos[p] # None
    OBVIOUS
  <2>1. CASE d = c
    BY <1>7, <1>9, <2>1
  <2>2. CASE d # c
    BY <1>1, <1>9, <2>2 DEF BrokerTypes
  <2> QED
    BY <2>1, <2>2
<1>11. ASSUME NEW p \in AllPartitions, NEW d \in Consumer, consumers'[d].pos[p] # None
       PROVE  Accounted(files[p], consumers'[d].pos[p], done)
  <2>1. CASE d = c
    BY <1>7, <1>9, <1>11, <2>1
  <2>2. CASE d # c
    <3>1. PICK file, k : file = files[p] /\ k = consumers[d].pos[p] /\ consumers'[d].pos[p] = k
      BY <1>9, <2>2
    <3>2. Accounted(file, k, old)
      BY <1>1, <1>6, <1>11, <3>1 DEF OffsetsAccounted
    <3> QED
      BY <1>6, <3>1, <3>2, AccountedMore
  <2> QED
    BY <2>1, <2>2
<1>12. BrokerTypes'
  BY <1>1, <1>4, <1>5, <1>8, <1>9, <1>10 DEF BrokerTypes
<1>13. OffsetsAccounted'
  BY <1>4, <1>5, <1>6, <1>8, <1>11 DEF OffsetsAccounted
<1> QED
  BY <1>4, <1>5, <1>12, <1>13 DEF BrokerInv

LEMMA CommitKeeps ==
  ASSUME BrokerInv, NEW CONSTANT c \in Consumer, Commit(c)
  PROVE  BrokerInv'
<1>1. BrokerTypes /\ OffsetsAccounted
  BY DEF BrokerInv
<1>2. PICK pos, done : pos = consumers[c].pos /\ done = delivered \cup excused
  OBVIOUS
<1>3. /\ committed' = CommittedBy(pos)
      /\ UNCHANGED <<shape, cleanup, parts, files, sent, consumers, delivered, excused>>
  BY <1>2 DEF Commit
<1>4. AllPartitions' = AllPartitions /\ Partitions' = Partitions
  BY <1>3 DEF AllPartitions, Partitions
<1>5. /\ pos \in [AllPartitions -> Nat \cup {None}]
      /\ \A p \in AllPartitions : pos[p] # None => Accounted(files[p], pos[p], done)
  BY <1>1, <1>2 DEF BrokerTypes, OffsetsAccounted
<1>6. delivered \cup excused \subseteq done
  BY <1>2
<1>7. /\ committed' \in [AllPartitions -> Nat \cup {None}]
      /\ \A p \in AllPartitions : committed'[p] # None => Accounted(files[p], committed'[p], done)
  BY <1>1, <1>3, <1>5, <1>6, CommitAccounts
<1>8. BrokerTypes'
  BY <1>1, <1>3, <1>4, <1>7 DEF BrokerTypes
<1>9. OffsetsAccounted'
  BY <1>1, <1>2, <1>3, <1>4, <1>7 DEF OffsetsAccounted
<1> QED
  BY <1>3, <1>4, <1>8, <1>9 DEF BrokerInv

(* seek goes back, or to the base.                                          *)
LEMMA SeekKeeps ==
  ASSUME BrokerInv, NEW CONSTANT c \in Consumer, NEW CONSTANT p, p \in Partitions,
         NEW CONSTANT offset \in Nat, Seek(c, p, offset)
  PROVE  BrokerInv'
<1>1. BrokerTypes /\ OffsetsAccounted /\ p \in AllPartitions
  BY DEF BrokerInv, BrokerTypes
<1>2. PICK part, mode, gone, done : /\ part = parts[p] /\ mode = cleanup /\ gone = excused
                                    /\ done = delivered \cup excused /\ gone \subseteq done
  OBVIOUS
<1>3. PICK file \in Seq(Sent) : file = files[p]
  BY <1>1 DEF BrokerTypes
<1>4. PICK pos \in Nat : pos = consumers[c].pos[p] /\ offset < pos
  BY <1>1 DEF Seek, BrokerTypes
<1>5. PICK to : to = Max({offset, part.base})
  OBVIOUS
<1>6. /\ consumers' = [consumers EXCEPT ![c].pos[p] = to]
      /\ UNCHANGED <<shape, cleanup, parts, files, committed, sent, delivered, excused>>
  BY <1>2, <1>5 DEF Seek
<1>7. AllPartitions' = AllPartitions /\ Partitions' = Partitions
  BY <1>6 DEF AllPartitions, Partitions
<1>8. to \in Nat /\ Accounted(file, to, done)
  <2>1. PartitionInv(part, file, mode, gone)
    BY <1>2, <1>3 DEF BrokerInv
  <2>2. part.base \in Nat
    BY <2>1 DEF PartitionInv
  <2>3. Accounted(file, part.base, gone)
    BY <2>1, BelowBase
  <2>4. Accounted(file, part.base, done)
    BY <1>2, <2>3, AccountedMore
  <2>5. Accounted(file, pos, done)
    <3>1. consumers[c].pos[p] # None
      BY DEF Seek
    <3> QED
      BY <1>1, <1>2, <1>3, <1>4, <3>1 DEF OffsetsAccounted
  <2>6. Accounted(file, offset, done)
    BY <1>4, <2>5, AccountedBefore
  <2>7. to \in {offset, part.base}
    BY <1>5, <2>2, LaterOfTwo
  <2> QED
    BY <2>2, <2>4, <2>6, <2>7
<1>9. /\ consumers' \in [Consumer -> [member : BOOLEAN, assigned : SUBSET Partitions,
                                      pos : [AllPartitions -> Nat \cup {None}]]]
      /\ \A d \in Consumer : consumers'[d].assigned = consumers[d].assigned
      /\ \A d \in Consumer, q \in AllPartitions :
            consumers'[d].pos[q] = IF d = c /\ q = p THEN to ELSE consumers[d].pos[q]
  BY <1>1, <1>6, <1>8 DEF BrokerTypes
<1>10. to # None
  BY <1>8, LogAssumption
<1>11. \A d \in Consumer : \A q \in consumers'[d].assigned : consumers'[d].pos[q] # None
  BY <1>1, <1>9, <1>10 DEF BrokerTypes
<1>12. BrokerTypes'
  BY <1>1, <1>6, <1>7, <1>9, <1>11 DEF BrokerTypes
<1>13. OffsetsAccounted'
  <2>1. ASSUME NEW d \in Consumer, NEW q \in AllPartitions, consumers'[d].pos[q] # None
        PROVE  Accounted(files[q], consumers'[d].pos[q], done)
    <3>1. CASE d = c /\ q = p
      BY <1>3, <1>8, <1>9, <3>1
    <3>2. CASE ~(d = c /\ q = p)
      <4>1. consumers'[d].pos[q] = consumers[d].pos[q]
        BY <1>9, <3>2
      <4> QED
        BY <1>1, <1>2, <2>1, <4>1 DEF OffsetsAccounted
    <3> QED
      BY <3>1, <3>2
  <2>2. \A q \in AllPartitions : committed[q] # None => Accounted(files[q], committed[q], done)
    BY <1>1, <1>2 DEF OffsetsAccounted
  <2> QED
    BY <1>2, <1>6, <1>7, <2>1, <2>2 DEF OffsetsAccounted
<1> QED
  BY <1>6, <1>7, <1>12, <1>13 DEF BrokerInv

(* _init_offsets: the messages below a first offset were accounted for when *)
(* it was committed, are gone, or are passed over.                          *)
LEMMA StartAccounts ==
  ASSUME BrokerInv, NEW CONSTANT p, p \in Partitions, NEW CONSTANT reset,
         NEW CONSTANT done, delivered \cup excused \subseteq done,
         reset = "latest" /\ committed[p] = None => IdsOf(parts[p]) \subseteq done
  PROVE  StartOffset(p, reset) \in Nat /\ Accounted(files[p], StartOffset(p, reset), done)
<1>1. BrokerTypes /\ OffsetsAccounted /\ p \in AllPartitions
  BY DEF BrokerInv, BrokerTypes
<1>2. PICK part, mode, gone, old : /\ part = parts[p] /\ mode = cleanup /\ gone = excused
                                   /\ old = delivered \cup excused /\ gone \subseteq done /\ old \subseteq done
  OBVIOUS
<1>3. PICK file \in Seq(Sent) : file = files[p]
  BY <1>1 DEF BrokerTypes
<1>4. PartitionInv(part, file, mode, gone)
  BY <1>2, <1>3 DEF BrokerInv
<1>5. CASE committed[p] # None
  <2>1. PICK n \in Nat : n = committed[p]
    BY <1>1, <1>5 DEF BrokerTypes
  <2>2. Accounted(file, n, old)
    BY <1>1, <1>2, <1>3, <1>5, <2>1 DEF OffsetsAccounted
  <2>3. Accounted(file, n, done)
    BY <1>2, <2>2, AccountedMore
  <2>4. StartOffset(p, reset) = n
    BY <1>5, <2>1 DEF StartOffset
  <2> QED
    BY <1>3, <2>3, <2>4
<1>6. CASE committed[p] = None /\ reset = "latest"
  <2>1. StartOffset(p, reset) = NextOffset(part)
    BY <1>2, <1>6 DEF StartOffset
  <2>2. PICK n \in Nat : n = Len(file)
    OBVIOUS
  <2>3. NextOffset(part) = n
    BY <1>4, <2>2 DEF PartitionInv
  <2>4. ASSUME NEW o \in 0..(n - 1) PROVE file[o + 1].id \in done
    <3>1. CASE o \in DOMAIN part.log
      <4>1. part.log[o] = file[o + 1]
        BY <1>4, <3>1 DEF PartitionInv
      <4>2. part.log[o].id \in IdsOf(part)
        BY <3>1 DEF IdsOf
      <4> QED
        BY <1>2, <1>6, <4>1, <4>2
    <3>2. CASE o \notin DOMAIN part.log
      BY <1>2, <1>4, <2>2, <3>2 DEF PartitionInv
    <3> QED
      BY <3>1, <3>2
  <2>5. Accounted(file, n, done)
    BY <2>2, <2>4 DEF Accounted
  <2> QED
    BY <1>3, <2>1, <2>3, <2>5
<1>7. CASE committed[p] = None /\ reset # "latest"
  <2>1. StartOffset(p, reset) = part.base
    BY <1>2, <1>7 DEF StartOffset
  <2>2. part.base \in Nat
    BY <1>4 DEF PartitionInv
  <2>3. Accounted(file, part.base, gone)
    BY <1>4, BelowBase
  <2>4. Accounted(file, part.base, done)
    BY <1>2, <2>3, AccountedMore
  <2> QED
    BY <1>3, <2>1, <2>2, <2>4
<1> QED
  BY <1>5, <1>6, <1>7

LEMMA RegroupKeeps ==
  ASSUME BrokerInv, NEW CONSTANT members \in SUBSET Consumer,
         NEW CONSTANT reset, Regroup(members, reset)
  PROVE  BrokerInv'
<1>1. BrokerTypes /\ OffsetsAccounted
  BY DEF BrokerInv
<1>2. /\ consumers' = Rebalanced(consumers, members, reset)
      /\ excused' = IF reset = "latest" THEN excused \cup PassedOver(consumers, consumers') ELSE excused
      /\ UNCHANGED <<shape, cleanup, parts, files, committed, sent, delivered>>
  BY DEF Regroup
<1>3. AllPartitions' = AllPartitions /\ Partitions' = Partitions /\ Partitions \subseteq AllPartitions
  BY <1>1, <1>2 DEF AllPartitions, Partitions, BrokerTypes
<1>4. PICK old, done : /\ old = delivered \cup excused /\ done = (delivered \cup excused)'
                       /\ old \subseteq done
  BY <1>2
<1>5. ASSUME NEW c \in Consumer, c \notin members
      PROVE  /\ consumers'[c] \in [member : BOOLEAN, assigned : SUBSET Partitions,
                                   pos : [AllPartitions -> Nat \cup {None}]]
             /\ consumers'[c].pos = consumers[c].pos /\ consumers'[c].assigned = consumers[c].assigned
  <2>1. consumers'[c] = [consumers[c] EXCEPT !.member = FALSE]
    BY <1>2, <1>5 DEF Rebalanced
  <2> QED
    BY <1>1, <2>1 DEF BrokerTypes
<1>6. ASSUME NEW c \in members
      PROVE  \E A \in SUBSET Partitions : consumers'[c] =
                [member |-> TRUE, assigned |-> A,
                 pos |-> [p \in AllPartitions |-> IF p \in A /\ consumers[c].pos[p] = None
                                                  THEN StartOffset(p, reset) ELSE consumers[c].pos[p]]]
  <2>1. PICK A : A = {p \in Partitions : p % Cardinality(members) = Cardinality({d \in members : d < c})}
    OBVIOUS
  <2>2. consumers'[c] = InitOffsets([member |-> TRUE, assigned |-> A, pos |-> consumers[c].pos], reset)
    BY <1>2, <2>1 DEF Rebalanced
  <2>3. A \in SUBSET Partitions
    BY <2>1
  <2>4. PICK q : q = consumers[c].pos
    OBVIOUS
  <2>5. consumers'[c] = [member |-> TRUE, assigned |-> A,
                         pos |-> [p \in AllPartitions |-> IF p \in A /\ q[p] = None
                                                          THEN StartOffset(p, reset) ELSE q[p]]]
    BY <2>2, <2>4 DEF InitOffsets
  <2> QED
    BY <2>3, <2>4, <2>5
<1>7. ASSUME NEW c \in members, NEW p \in Partitions, consumers[c].pos[p] = None, consumers'[c].pos[p] # None
      PROVE  StartOffset(p, reset) \in Nat /\ Accounted(files[p], StartOffset(p, reset), done)
  <2>1. ASSUME reset = "latest", committed[p] = None PROVE IdsOf(parts[p]) \subseteq done
    <3>1. PassedOver(consumers, consumers') \subseteq done
      BY <1>2, <1>4, <2>1
    <3>2. c \in Consumer
      OBVIOUS
    <3>3. IdsOf(parts[p]) \subseteq PassedOver(consumers, consumers')
      BY <1>7, <2>1, <3>2 DEF PassedOver
    <3> QED
      BY <3>1, <3>3
  <2>2. delivered \cup excused \subseteq done
    BY <1>4
  <2> QED
    BY <2>1, <2>2, StartAccounts
<1>8. ASSUME NEW c \in members
      PROVE  /\ consumers'[c] \in [member : BOOLEAN, assigned : SUBSET Partitions,
                                   pos : [AllPartitions -> Nat \cup {None}]]
             /\ \A p \in consumers'[c].assigned : consumers'[c].pos[p] # None
             /\ \A p \in AllPartitions :
                   \/ consumers'[c].pos[p] = consumers[c].pos[p]
                   \/ Accounted(files[p], consumers'[c].pos[p], done)
  <2>1. PICK A \in SUBSET Partitions : consumers'[c] =
                [member |-> TRUE, assigned |-> A,
                 pos |-> [p \in AllPartitions |-> IF p \in A /\ consumers[c].pos[p] = None
                                                  THEN StartOffset(p, reset) ELSE consumers[c].pos[p]]]
    BY <1>6
  <2>2. \A p \in AllPartitions : consumers'[c].pos[p] =
           IF p \in A /\ consumers[c].pos[p] = None THEN StartOffset(p, reset) ELSE consumers[c].pos[p]
    BY <2>1
  <2>3. consumers'[c].assigned = A
    BY <2>1
  <2>4. \A p \in AllPartitions : consumers[c].pos[p] \in Nat \cup {None}
    BY <1>1 DEF BrokerTypes
  <2>5. ASSUME NEW p \in A, consumers[c].pos[p] = None
        PROVE  StartOffset(p, reset) \in Nat /\ Accounted(files[p], StartOffset(p, reset), done)
    <3>1. p \in Partitions /\ p \in AllPartitions /\ consumers'[c].pos[p] = StartOffset(p, reset)
      BY <1>3, <2>2, <2>5
    <3>2. StartOffset(p, reset) \in Nat
      <4>1. PICK all : all = (delivered \cup excused) \cup IdsOf(parts[p])
        OBVIOUS
      <4>2. delivered \cup excused \subseteq all /\ IdsOf(parts[p]) \subseteq all
        BY <4>1
      <4> QED
        BY <3>1, <4>2, StartAccounts
    <3>3. consumers'[c].pos[p] # None
      BY <3>1, <3>2, LogAssumption
    <3> QED
      BY <1>7, <2>5, <3>1, <3>3
  <2>6. \A p \in AllPartitions : consumers'[c].pos[p] \in Nat \cup {None}
    BY <2>2, <2>4, <2>5
  <2>7. consumers'[c].pos \in [AllPartitions -> Nat \cup {None}]
    BY <2>1, <2>6
  <2>8. consumers'[c] \in [member : BOOLEAN, assigned : SUBSET Partitions,
                           pos : [AllPartitions -> Nat \cup {None}]]
    BY <2>1, <2>7
  <2>9. ASSUME NEW p \in A PROVE consumers'[c].pos[p] # None
    <3>1. p \in AllPartitions
      BY <1>3
    <3>2. CASE consumers[c].pos[p] = None
      BY <2>2, <2>5, <3>1, <3>2, LogAssumption
    <3>3. CASE consumers[c].pos[p] # None
      BY <2>2, <3>1, <3>3
    <3> QED
      BY <3>2, <3>3
  <2>10. \A p \in AllPartitions : \/ consumers'[c].pos[p] = consumers[c].pos[p]
                                  \/ Accounted(files[p], consumers'[c].pos[p], done)
    BY <2>2, <2>5
  <2> QED
    BY <2>3, <2>8, <2>9, <2>10
<1>9. ASSUME NEW p \in AllPartitions, NEW n, n # None,
             n = committed[p] \/ \E c \in Consumer : n = consumers[c].pos[p]
      PROVE  Accounted(files[p], n, done)
  <2>1. PICK file : file = files[p]
    OBVIOUS
  <2>2. Accounted(file, n, old)
    BY <1>1, <1>4, <1>9, <2>1 DEF OffsetsAccounted
  <2> QED
    BY <1>4, <2>1, <2>2, AccountedMore
<1>10. ASSUME NEW c \in Consumer, NEW p \in AllPartitions, consumers'[c].pos[p] # None
       PROVE  Accounted(files[p], consumers'[c].pos[p], done)
  <2>1. PICK n : n = consumers'[c].pos[p]
    OBVIOUS
  <2>2. n = consumers[c].pos[p] \/ Accounted(files[p], n, done)
    BY <1>5, <1>8, <2>1
  <2> QED
    BY <1>9, <1>10, <2>1, <2>2
<1>11. OffsetsAccounted'
  <2>1. \A p \in AllPartitions : committed[p] # None => Accounted(files[p], committed[p], done)
    BY <1>9
  <2> QED
    BY <1>2, <1>3, <1>4, <1>10, <2>1 DEF OffsetsAccounted
<1>12. BrokerTypes'
  <2>1. consumers' \in [Consumer -> [member : BOOLEAN, assigned : SUBSET Partitions,
                                     pos : [AllPartitions -> Nat \cup {None}]]]
    <3>1. consumers' = [c \in Consumer |-> consumers'[c]]
      BY <1>2 DEF Rebalanced
    <3>2. \A c \in Consumer : consumers'[c] \in [member : BOOLEAN, assigned : SUBSET Partitions,
                                                 pos : [AllPartitions -> Nat \cup {None}]]
      BY <1>5, <1>8
    <3> QED
      BY <3>1, <3>2
  <2>2. \A c \in Consumer : \A p \in consumers'[c].assigned : consumers'[c].pos[p] # None
    BY <1>1, <1>5, <1>8 DEF BrokerTypes
  <2> QED
    BY <1>1, <1>2, <1>3, <2>1, <2>2 DEF BrokerTypes
<1>13. ASSUME NEW p \in Partitions PROVE PartitionInv(parts[p], files[p], cleanup, excused')
  <2>1. PICK part, file, mode, gone, more : /\ part = parts[p] /\ file = files[p] /\ mode = cleanup
                                            /\ gone = excused /\ more = excused' /\ gone \subseteq more
    BY <1>2
  <2>2. PartitionInv(part, file, mode, gone)
    BY <2>1 DEF BrokerInv
  <2> QED
    BY <2>1, <2>2, GoneGrows
<1> QED
  BY <1>2, <1>3, <1>11, <1>12, <1>13 DEF BrokerInv

(* The broker starts again: every message of the files is back at its       *)
(* offset, so that the committed offsets mean what they meant.              *)
LEMMA RestartKeeps ==
  ASSUME BrokerInv, Restart
  PROVE  BrokerInv'
<1>1. BrokerTypes /\ OffsetsAccounted
  BY DEF BrokerInv
<1>2. PICK found : found = {p \in AllPartitions : files[p] # <<>>}
  OBVIOUS
<1>3. /\ found # {} /\ consumers' = [c \in Consumer |-> FreshConsumer]
      /\ parts' = [p \in 0..Max(found) |-> Reloaded(files[p])]
      /\ UNCHANGED <<shape, cleanup, files, committed, sent, delivered, excused>>
  BY <1>2 DEF Restart, Reloaded
<1>4. PICK size \in Nat \ {0} : size = shape[1] /\ AllPartitions = 0..(size - 1)
  BY <1>1, LogAssumption DEF BrokerTypes, AllPartitions
<1>5. PICK m : m = Max(found)
  OBVIOUS
<1>6. m \in Nat /\ m < size
  <2>1. found \in SUBSET Nat /\ \A p \in found : p < size
    BY <1>2, <1>4
  <2>2. m \in found /\ m < size
    BY <1>3, <1>5, <2>1, MaxOffset
  <2> QED
    BY <2>1, <2>2
<1>7. AllPartitions' = AllPartitions /\ Partitions' = 0..m /\ 0..m \subseteq AllPartitions
  <2>1. AllPartitions' = AllPartitions
    BY <1>3 DEF AllPartitions
  <2>2. Partitions' = 0..m
    BY <1>3, <1>5 DEF Partitions
  <2>3. 0..m \subseteq AllPartitions
    BY <1>4, <1>6
  <2> QED
    BY <2>1, <2>2, <2>3
<1>8. FreshConsumer = [member |-> FALSE, assigned |-> {}, pos |-> [p \in AllPartitions |-> None]]
  BY DEF FreshConsumer
<1>9. /\ consumers' \in [Consumer -> [member : BOOLEAN, assigned : SUBSET (0..m),
                                      pos : [AllPartitions -> Nat \cup {None}]]]
      /\ \A c \in Consumer : consumers'[c].assigned = {}
      /\ \A c \in Consumer, p \in AllPartitions : consumers'[c].pos[p] = None
  <2>1. FreshConsumer \in [member : BOOLEAN, assigned : SUBSET (0..m),
                           pos : [AllPartitions -> Nat \cup {None}]]
    BY <1>8
  <2>2. FreshConsumer.assigned = {} /\ \A p \in AllPartitions : FreshConsumer.pos[p] = None
    BY <1>8
  <2>3. \A c \in Consumer : consumers'[c] = FreshConsumer
    BY <1>3
  <2>4. consumers' \in [Consumer -> [member : BOOLEAN, assigned : SUBSET (0..m),
                                     pos : [AllPartitions -> Nat \cup {None}]]]
    BY <1>3, <2>1
  <2> QED
    BY <2>2, <2>3, <2>4
<1>10. BrokerTypes'
  BY <1>1, <1>3, <1>7, <1>9 DEF BrokerTypes
<1>11. OffsetsAccounted'
  BY <1>1, <1>3, <1>7, <1>9 DEF OffsetsAccounted
<1>12. ASSUME NEW p \in 0..m PROVE PartitionInv(parts'[p], files[p], cleanup, excused)
  <2>1. PICK file \in Seq(Sent) : file = files[p]
    BY <1>1, <1>7 DEF BrokerTypes
  <2>2. PICK mode, gone : mode = cleanup /\ gone = excused
    OBVIOUS
  <2>3. PartitionInv(Reloaded(file), file, mode, gone)
    BY ReloadKeeps
  <2>4. parts'[p] = Reloaded(file)
    BY <1>3, <1>5, <2>1
  <2> QED
    BY <2>1, <2>2, <2>3, <2>4
<1> QED
  BY <1>3, <1>7, <1>10, <1>11, <1>12 DEF BrokerInv

(* The partitions are empty at first.                                       *)
LEMMA BrokerStarts ==
  ASSUME LogInit
  PROVE  BrokerInv
<1>1. /\ shape \in Shapes /\ parts = [p \in AllPartitions |-> [log |-> <<>>, base |-> 0]]
      /\ files = [p \in AllPartitions |-> <<>>] /\ committed = [p \in AllPartitions |-> None]
      /\ consumers = [c \in Consumer |-> FreshConsumer] /\ sent = 0
  BY DEF LogInit
<1>2. Partitions = AllPartitions
  BY <1>1 DEF Partitions
<1>3. FreshConsumer = [member |-> FALSE, assigned |-> {}, pos |-> [p \in AllPartitions |-> None]]
  BY DEF FreshConsumer
<1>4. \A p \in AllPartitions : files[p] = <<>> /\ committed[p] = None
  BY <1>1
<1>5. \A c \in Consumer : consumers[c] = FreshConsumer
  BY <1>1
<1>6. FreshConsumer.assigned = {} /\ \A p \in AllPartitions : FreshConsumer.pos[p] = None
  BY <1>3
<1>7. FreshConsumer \in [member : BOOLEAN, assigned : SUBSET Partitions,
                         pos : [AllPartitions -> Nat \cup {None}]]
  BY <1>3
<1>8. BrokerTypes
  <2>1. files \in [AllPartitions -> Seq(Sent)] /\ committed \in [AllPartitions -> Nat \cup {None}]
    BY <1>1
  <2>2. consumers \in [Consumer -> [member : BOOLEAN, assigned : SUBSET Partitions,
                                    pos : [AllPartitions -> Nat \cup {None}]]]
    BY <1>1, <1>7
  <2>3. \A c \in Consumer : \A p \in consumers[c].assigned : consumers[c].pos[p] # None
    BY <1>5, <1>6
  <2> QED
    BY <1>1, <1>2, <2>1, <2>2, <2>3 DEF BrokerTypes
<1>9. OffsetsAccounted
  BY <1>4, <1>5, <1>6 DEF OffsetsAccounted
<1>10. ASSUME NEW p \in Partitions PROVE PartitionInv(parts[p], files[p], cleanup, excused)
  <2>1. PICK part, file : part = [log |-> <<>>, base |-> 0] /\ file = <<>>
    OBVIOUS
  <2>2. part.log = <<>> /\ part.base = 0 /\ DOMAIN part.log = {} /\ Len(file) = 0
    BY <2>1
  <2>3. part.log = [o \in DOMAIN part.log |-> file[o + 1]]
    BY <2>2
  <2>4. NextOffset(part) = 0
    BY <2>2 DEF NextOffset
  <2>5. PartitionInv(part, file, cleanup, excused)
    BY <2>1, <2>2, <2>3, <2>4 DEF PartitionInv
  <2>6. parts[p] = part /\ files[p] = file
    BY <1>1, <1>2, <2>1
  <2> QED
    BY <2>5, <2>6
<1> QED
  BY <1>8, <1>9, <1>10 DEF BrokerInv

(* partitioned-log: no message below an offset the group committed or reads *)
(* from is missed, whoever joins, leaves, commits an old position, compacts *)
(* or restarts the broker in between.                                       *)
THEOREM DeliveredAtLeastOnce == LogsSpec => []AtLeastOnce
<1>1. LogsInit => BrokerInv
  BY BrokerStarts DEF LogsInit
<1>2. BrokerInv /\ [LogsNext]_logsVars => BrokerInv'
  <2> SUFFICES ASSUME BrokerInv, [LogsNext]_logsVars PROVE BrokerInv'
    OBVIOUS
  <2>1. CASE UNCHANGED logVars
    <3>1. /\ UNCHANGED <<shape, cleanup, parts, files, committed, consumers, sent, delivered, excused>>
          /\ AllPartitions' = AllPartitions /\ Partitions' = Partitions
      BY <2>1 DEF logVars, AllPartitions, Partitions
    <3>2. BrokerTypes' /\ OffsetsAccounted'
      BY <3>1 DEF BrokerInv, BrokerTypes, OffsetsAccounted
    <3> QED
      BY <3>1, <3>2 DEF BrokerInv
  <2>2. CASE LogNext
    <3>1. ASSUME NEW p, p \in Partitions, NEW k \in PKey \cup {NoKey}, Send(p, k) PROVE BrokerInv'
      BY <3>1, SendStep
    <3>2. ASSUME NEW p, p \in Partitions, NEW n \in 1..MaxSends, EnforceRetention(p, n) PROVE BrokerInv'
      BY <3>2, RetentionStep
    <3>3. ASSUME NEW c \in Consumer, NEW reset \in {"earliest", "latest"},
                 Subscribe(c, reset) \/ Close(c, reset)
          PROVE  BrokerInv'
      <4>1. Members \in SUBSET Consumer
        BY DEF Members
      <4>2. CASE Subscribe(c, reset)
        <5>1. PICK members \in SUBSET Consumer : members = Members \cup {c}
          BY <4>1
        <5> QED
          BY <4>2, <5>1, RegroupKeeps DEF Subscribe
      <4>3. CASE Close(c, reset)
        <5>1. PICK members \in SUBSET Consumer : members = Members \ {c}
          BY <4>1
        <5> QED
          BY <4>3, <5>1, RegroupKeeps DEF Close
      <4> QED
        BY <3>3, <4>2, <4>3
    <3>4. ASSUME NEW c \in Consumer, NEW n \in 1..2, NEW auto \in BOOLEAN, Poll(c, n, auto) PROVE BrokerInv'
      <4>1. n \in Int
        OBVIOUS
      <4> QED
        BY <3>4, <4>1, PollKeeps
    <3>5. ASSUME NEW c \in Consumer, Commit(c) PROVE BrokerInv'
      BY <3>5, CommitKeeps
    <3>6. ASSUME NEW c \in Consumer, NEW p, p \in Partitions, Seek(c, p, 0) PROVE BrokerInv'
      BY <3>6, SeekKeeps
    <3> QED
      BY <2>2, <3>1, <3>2, <3>3, <3>4, <3>5, <3>6, CompactStepKeeps, RestartKeeps DEF LogNext
  <2>3. UNCHANGED logVars \/ LogNext
    BY DEF LogsNext, logsVars
  <2> QED
    BY <2>1, <2>2, <2>3
<1>3. BrokerInv => AtLeastOnce
  <2> SUFFICES ASSUME BrokerInv, NEW p \in Partitions, NEW o \in DOMAIN parts[p].log,
                      parts[p].log[o].id \notin delivered \cup excused
               PROVE  /\ committed[p] = None \/ o >= committed[p]
                      /\ \A c \in Members : p \in consumers[c].assigned => o >= consumers[c].pos[p]
    BY DEF AtLeastOnce
  <2>1. BrokerTypes /\ OffsetsAccounted /\ p \in AllPartitions
    BY DEF BrokerInv, BrokerTypes
  <2>2. PICK part, mode, gone, done : /\ part = parts[p] /\ mode = cleanup /\ gone = excused
                                      /\ done = delivered \cup excused
    OBVIOUS
  <2>3. PICK file \in Seq(Sent) : file = files[p]
    BY <2>1 DEF BrokerTypes
  <2>4. PartitionInv(part, file, mode, gone)
    BY <2>2, <2>3 DEF BrokerInv
  <2>5. o \in Nat /\ part.log[o] = file[o + 1]
    BY <2>2, <2>4, PartitionParts
  <2>6. ASSUME NEW n \in Nat, Accounted(file, n, done) PROVE o >= n
    <3>1. SUFFICES ASSUME o < n PROVE FALSE
      BY <2>5
    <3>2. o \in 0..(n - 1)
      BY <2>5, <3>1
    <3>3. file[o + 1].id \in done
      BY <2>6, <3>2 DEF Accounted
    <3> QED
      BY <2>2, <2>5, <3>3
  <2>7. committed[p] = None \/ o >= committed[p]
    BY <2>1, <2>2, <2>3, <2>6 DEF BrokerTypes, OffsetsAccounted
  <2>8. ASSUME NEW c \in Members, p \in consumers[c].assigned PROVE o >= consumers[c].pos[p]
    <3>1. c \in Consumer
      BY DEF Members
    <3>2. PICK n \in Nat : n = consumers[c].pos[p] /\ consumers[c].pos[p] # None
      BY <2>1, <2>8, <3>1 DEF BrokerTypes
    <3>3. Accounted(file, n, done)
      BY <2>1, <2>2, <2>3, <3>1, <3>2 DEF OffsetsAccounted
    <3> QED
      BY <2>6, <3>2, <3>3
  <2> QED
    BY <2>7, <2>8
<1> QED
  BY <1>1, <1>2, <1>3, PTL DEF LogsSpec
=============================================================================
