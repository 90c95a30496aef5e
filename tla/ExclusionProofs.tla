--------------------------- MODULE ExclusionProofs ---------------------------
(***************************************************************************)
(* The lock service: mutual exclusion and the order of fenced writes, for  *)
(* any clients, locks, resources, lifetimes and number of tokens.  Lamport *)
(* clocks and the mutex built on them: the clock condition, and that no    *)
(* request overtakes another, for any nodes and number of calls.           *)
(***************************************************************************)
EXTENDS MCExclusion, Sequences, NumberLemmas

LEMMA TypeInit == Init => TypeOK
BY DEF Init, TypeOK, Issued, NoToken

LEMMA TypeStep == TypeOK /\ [Next]_vars => TypeOK'
<1> SUFFICES ASSUME TypeOK, [Next]_vars PROVE TypeOK'
  OBVIOUS
<1>1. ASSUME NEW c \in Client, NEW l \in Lock, NEW ttl \in Ttl, Acquire(c, l, ttl)
      PROVE  TypeOK'
  <2>1. Issued' = 1..counter /\ Issued \subseteq Issued' /\ counter \in Issued'
    BY <1>1 DEF Acquire, NextCounter, Issued, TypeOK
  <2>2. now + ttl \in Nat
    BY TtlAssumption DEF TypeOK
  <2>3. token' \in [Issued' -> Token]
    <3>1. \A n \in 1..counter : n # counter => token[n] \in Token
      BY DEF TypeOK, Issued
    <3>2. [lock |-> l, client |-> c, expires |-> now + ttl] \in Token
      BY <2>2 DEF Token
    <3> QED
      BY <1>1, <2>1, <3>1, <3>2 DEF Acquire
  <2>4. counter' \in Nat \ {0} /\ now' \in Nat
    BY <1>1 DEF Acquire, NextCounter, TypeOK
  <2>5. locks' \in [Lock -> Issued' \cup {NoToken}]
    BY <1>1, <2>1 DEF Acquire, TypeOK
  <2>6. held' \in [Client -> [Lock -> Issued' \cup {NoToken}]]
    <3>1. held' = [held EXCEPT ![c] = [held[c] EXCEPT ![l] = counter]]
      BY <1>1 DEF Acquire, TypeOK
    <3>2. \A d \in Client : held[d] \in [Lock -> Issued' \cup {NoToken}]
      BY <2>1 DEF TypeOK
    <3>3. [held[c] EXCEPT ![l] = counter] \in [Lock -> Issued' \cup {NoToken}]
      BY <2>1, <3>2
    <3>4. held \in [Client -> [Lock -> Issued \cup {NoToken}]]
      BY DEF TypeOK
    <3> QED
      BY <3>1, <3>2, <3>3, <3>4
  <2>7. highest' \in [Resource -> Issued' \cup {NoToken}] /\ writtenBy' \in [Resource -> SUBSET Client]
    BY <1>1, <2>1 DEF Acquire, TypeOK
  <2> QED
    BY <2>3, <2>4, <2>5, <2>6, <2>7 DEF TypeOK
<1>2. ASSUME NEW c \in Client, NEW l \in Lock, ReleaseLock(c, l) PROVE TypeOK'
  BY <1>2 DEF ReleaseLock, TypeOK, Issued
<1>3. ASSUME NEW c \in Client, NEW l \in Lock, NEW ttl \in Ttl, Renew(c, l, ttl)
      PROVE  TypeOK'
  <2>1. locks[l] \in Issued /\ now + ttl \in Nat
    BY <1>3, TtlAssumption DEF Renew, MayRenew, IsHolder, TypeOK
  <2>2. token' \in [Issued -> Token]
    BY <1>3, <2>1 DEF Renew, TypeOK, Token
  <2> QED
    BY <1>3, <2>2 DEF Renew, TypeOK, Issued
<1>4. ASSUME NEW c \in Client, NEW l \in Lock, DropExpired(c, l) PROVE TypeOK'
  BY <1>4 DEF DropExpired, TypeOK, Issued
<1>5. ASSUME NEW c \in Client, NEW r \in Resource, NEW l \in Lock, NEW checked \in BOOLEAN,
             Write(c, r, l, checked)
      PROVE  TypeOK'
  BY <1>5 DEF Write, TypeOK, Issued
<1>6. CASE Tick
  BY <1>6 DEF Tick, TypeOK, Issued
<1>7. CASE UNCHANGED vars
  BY <1>7 DEF vars, TypeOK, Issued
<1> QED
  BY <1>1, <1>2, <1>3, <1>4, <1>5, <1>6, <1>7 DEF Next

\* Every reachable state of service, clients and servers is well typed.
THEOREM TypeCorrect == Spec => []TypeOK
<1>1. Init => TypeOK
  BY TypeInit
<1>2. TypeOK /\ [Next]_vars => TypeOK'
  BY TypeStep
<1> QED
  BY <1>1, <1>2, PTL DEF Spec

-----------------------------------------------------------------------------
LEMMA CurrentInit == Init => LiveTokenIsCurrent
BY DEF Init, LiveTokenIsCurrent

LEMMA CurrentStep == TypeOK /\ LiveTokenIsCurrent /\ [Next]_vars => LiveTokenIsCurrent'
<1> SUFFICES ASSUME TypeOK, LiveTokenIsCurrent, [Next]_vars PROVE LiveTokenIsCurrent'
  OBVIOUS
<1>0. /\ \A l \in Lock : locks[l] # NoToken => locks[l] \in Issued
      /\ \A c \in Client, l \in Lock : held[c][l] # NoToken => held[c][l] \in Issued
      /\ \A n \in Issued : token[n] \in Token
  BY DEF TypeOK
<1>1. ASSUME NEW c \in Client, NEW l \in Lock, NEW ttl \in Ttl, Acquire(c, l, ttl)
      PROVE  LiveTokenIsCurrent'
  <2>1. /\ \A n \in Issued : token'[n] = token[n]
        /\ token'[counter] = [lock |-> l, client |-> c, expires |-> now + ttl]
        /\ counter \notin Issued /\ counter # NoToken
        /\ now' = now
    BY <1>1 DEF Acquire, Issued, TypeOK, NoToken
  <2>2. /\ \A k \in Lock : locks'[k] = IF k = l THEN counter ELSE locks[k]
        /\ \A d \in Client, k \in Lock :
             held'[d][k] = IF d = c /\ k = l THEN counter ELSE held[d][k]
    BY <1>1 DEF Acquire, TypeOK
  <2>3. \A k \in Lock : locks'[k] # NoToken => token'[locks'[k]].lock = k
    BY <1>0, <2>1, <2>2 DEF LiveTokenIsCurrent
  <2>4. ASSUME NEW d \in Client, NEW k \in Lock, held'[d][k] # NoToken
        PROVE  /\ token'[held'[d][k]].client = d
               /\ token'[held'[d][k]].lock = k
               /\ ~Expired(held[d][k])' => locks'[k] = held'[d][k]
    <3>1. CASE d = c /\ k = l
      BY <2>1, <2>2, <3>1
    <3>2. CASE ~(d = c /\ k = l)
      <4>1. held'[d][k] = held[d][k] /\ held[d][k] \in Issued
        BY <1>0, <2>2, <2>4, <3>2
      <4>2. token'[held[d][k]] = token[held[d][k]]
        BY <2>1, <4>1
      <4>3. Expired(held[d][k])' <=> Expired(held[d][k])
        BY <2>1, <4>1, <4>2 DEF Expired
      <4>4. ASSUME ~Expired(held[d][k]) PROVE k # l
        <5>1. locks[k] = held[d][k] /\ token[locks[k]].client = d
          BY <2>4, <4>1, <4>4 DEF LiveTokenIsCurrent
        <5>2. SUFFICES ASSUME k = l PROVE FALSE
          OBVIOUS
        <5>3. locks[l] # NoToken /\ ~Expired(locks[l]) /\ token[locks[l]].client # c
          BY <2>4, <3>2, <4>1, <4>4, <5>1, <5>2
        <5> QED
          BY <1>1, <5>3 DEF Acquire, Busy, IsHolder
      <4> QED
        BY <2>2, <2>4, <4>1, <4>2, <4>3, <4>4 DEF LiveTokenIsCurrent
    <3> QED
      BY <3>1, <3>2
  <2> QED
    BY <2>3, <2>4 DEF LiveTokenIsCurrent
<1>2. ASSUME NEW c \in Client, NEW l \in Lock, ReleaseLock(c, l) PROVE LiveTokenIsCurrent'
  <2>1. /\ \A k \in Lock : locks'[k] = IF k = l THEN NoToken ELSE locks[k]
        /\ \A d \in Client, k \in Lock :
             held'[d][k] = IF d = c /\ k = l THEN NoToken ELSE held[d][k]
        /\ UNCHANGED <<token, now>>
    BY <1>2 DEF ReleaseLock, TypeOK
  <2>2. token[locks[l]].client = c
    BY <1>2 DEF ReleaseLock, IsHolder
  <2>3. \A k \in Lock : locks'[k] # NoToken => token'[locks'[k]].lock = k
    BY <2>1 DEF LiveTokenIsCurrent
  <2>4. ASSUME NEW d \in Client, NEW k \in Lock, held'[d][k] # NoToken
        PROVE  /\ token'[held'[d][k]].client = d
               /\ token'[held'[d][k]].lock = k
               /\ ~Expired(held[d][k])' => locks'[k] = held'[d][k]
    <3>1. held'[d][k] = held[d][k] /\ held[d][k] # NoToken /\ ~(d = c /\ k = l)
      BY <2>1, <2>4
    <3>2. Expired(held[d][k])' <=> Expired(held[d][k])
      BY <2>1, <3>1 DEF Expired
    <3>3. ~Expired(held[d][k]) => locks[k] = held[d][k] /\ k # l
      BY <2>2, <3>1 DEF LiveTokenIsCurrent
    <3> QED
      BY <2>1, <3>1, <3>2, <3>3 DEF LiveTokenIsCurrent
  <2> QED
    BY <2>3, <2>4 DEF LiveTokenIsCurrent
<1>3. ASSUME NEW c \in Client, NEW l \in Lock, NEW ttl \in Ttl, Renew(c, l, ttl)
      PROVE  LiveTokenIsCurrent'
  <2>1. /\ locks[l] \in Issued
        /\ \A n \in Issued : /\ token'[n].client = token[n].client
                             /\ token'[n].lock = token[n].lock
                             /\ n # locks[l] => token'[n] = token[n]
        /\ UNCHANGED <<locks, held, now>>
    BY <1>0, <1>3 DEF Renew, MayRenew, IsHolder, TypeOK, Token
  <2>2. ASSUME NEW d \in Client, NEW k \in Lock, held[d][k] # NoToken, ~Expired(held[d][k])'
        PROVE  locks[k] = held[d][k]
    <3>1. CASE held[d][k] = locks[l]
      <4>1. k = l
        BY <2>2, <3>1 DEF LiveTokenIsCurrent
      <4> QED
        BY <3>1, <4>1
    <3>2. CASE held[d][k] # locks[l]
      BY <1>0, <2>1, <2>2, <3>2 DEF LiveTokenIsCurrent, Expired
    <3> QED
      BY <3>1, <3>2
  <2> QED
    BY <1>0, <2>1, <2>2 DEF LiveTokenIsCurrent
<1>4. ASSUME NEW c \in Client, NEW l \in Lock, DropExpired(c, l) PROVE LiveTokenIsCurrent'
  <2>1. /\ \A d \in Client, k \in Lock :
             held'[d][k] = IF d = c /\ k = l THEN NoToken ELSE held[d][k]
        /\ UNCHANGED <<token, now, locks>>
    BY <1>4 DEF DropExpired, TypeOK
  <2> QED
    BY <2>1 DEF LiveTokenIsCurrent, Expired
<1>5. ASSUME NEW c \in Client, NEW r \in Resource, NEW l \in Lock, NEW checked \in BOOLEAN,
             Write(c, r, l, checked)
      PROVE  LiveTokenIsCurrent'
  BY <1>5 DEF Write, LiveTokenIsCurrent, Expired
<1>6. CASE Tick
  <2>1. \A c \in Client, l \in Lock :
          held[c][l] # NoToken => (Expired(held[c][l]) => Expired(held[c][l])')
    BY <1>0, <1>6 DEF Tick, Expired, TypeOK, Token
  <2> QED
    BY <1>6, <2>1 DEF Tick, LiveTokenIsCurrent
<1>7. CASE UNCHANGED vars
  BY <1>7 DEF vars, LiveTokenIsCurrent, Expired
<1> QED
  BY <1>1, <1>2, <1>3, <1>4, <1>5, <1>6, <1>7 DEF Next

\* Two clients never both hold an unexpired token for the same lock.
THEOREM Exclusive == Spec => []MutualExclusion
<1>1. Init => LiveTokenIsCurrent
  BY CurrentInit
<1>2. TypeOK /\ LiveTokenIsCurrent /\ [Next]_vars => LiveTokenIsCurrent'
  BY CurrentStep
<1>3. LiveTokenIsCurrent => MutualExclusion
  BY DEF LiveTokenIsCurrent, MutualExclusion
<1> QED
  BY <1>1, <1>2, <1>3, TypeCorrect, PTL DEF Spec

-----------------------------------------------------------------------------
LEMMA FencedStep ==
  ASSUME TypeOK, LiveTokenIsCurrent, [Next]_vars
  PROVE  \A r \in Resource :
           /\ highest'[r] >= highest[r]
           /\ writtenBy'[r] # writtenBy[r] =>
                writtenBy'[r] = {token[highest'[r]].client}
<1>1. \A r \in Resource : highest[r] \in Nat
  BY DEF TypeOK, Issued, NoToken
<1>2. ASSUME NEW c \in Client, NEW s \in Resource, NEW l \in Lock, NEW checked \in BOOLEAN,
             Write(c, s, l, checked), NEW r \in Resource
      PROVE  /\ highest'[r] >= highest[r]
             /\ writtenBy'[r] # writtenBy[r] => writtenBy'[r] = {token[highest'[r]].client}
  <2>1. held[c][l] \in Nat /\ token[held[c][l]].client = c /\ held[c][l] >= highest[s]
    BY <1>2 DEF Write, Accepts, TypeOK, Issued, NoToken, LiveTokenIsCurrent
  <2>2. /\ highest'[r] = IF r = s THEN held[c][l] ELSE highest[r]
        /\ writtenBy'[r] = IF r = s THEN {c} ELSE writtenBy[r]
    BY <1>2 DEF Write, TypeOK
  <2> QED
    BY <1>1, <2>1, <2>2
<1>3. ASSUME UNCHANGED <<highest, writtenBy>>, NEW r \in Resource
      PROVE  highest'[r] >= highest[r] /\ writtenBy'[r] = writtenBy[r]
  BY <1>1, <1>3
<1> QED
  BY <1>2, <1>3 DEF Next, Acquire, ReleaseLock, Renew, DropExpired, Tick, vars

\* A resource is never overwritten by the holder of an older token.
THEOREM Fenced == Spec => FencedOrder
<1>1. TypeOK /\ LiveTokenIsCurrent /\ [Next]_vars =>
        [\A r \in Resource :
           /\ highest'[r] >= highest[r]
           /\ writtenBy'[r] # writtenBy[r] =>
                writtenBy'[r] = {token[highest'[r]].client}]_vars
  BY FencedStep
<1>2. Spec => []LiveTokenIsCurrent
  <2>1. Init => LiveTokenIsCurrent
    BY CurrentInit
  <2>2. TypeOK /\ LiveTokenIsCurrent /\ [Next]_vars => LiveTokenIsCurrent'
    BY CurrentStep
  <2> QED
    BY <2>1, <2>2, TypeCorrect, PTL DEF Spec
<1> QED
  BY <1>1, <1>2, TypeCorrect, PTL DEF Spec, FencedOrder

(***************************************************************************)
(* lamport-clocks: the clock condition and the order of the mutex          *)
(***************************************************************************)

LEMMA MaxOfTwo ==
  ASSUME NEW a \in Nat, NEW b \in Nat
  PROVE  /\ LM!Max({a, b}) \in {a, b}
         /\ LM!Max({a, b}) >= a /\ LM!Max({a, b}) >= b
<1>1. \E x \in {a, b} : \A y \in {a, b} : x >= y
  <2>1. CASE a >= b
    BY <2>1
  <2>2. CASE b >= a
    BY <2>2
  <2> QED
    BY <2>1, <2>2
<1> QED
  BY <1>1 DEF LM!Max

(* What the logs of a world say about causality.                           *)
Causal(w) == w \in LM!Worlds /\ LM!LogsOrdered(w) /\ LM!ReachIsPast(w)

(* A new event whose timestamp is above the node's clock, and whose reach   *)
(* ends in each log at an existing event with a smaller timestamp, keeps    *)
(* the logs causal.                                                         *)
LEMMA RecordedIsCausal ==
  ASSUME NEW w, Causal(w), NEW n \in LNode, NEW ts \in Nat, NEW reach \in [LNode -> Nat],
         ts > w.counter[n], reach[n] = Len(w.events[n]),
         \A a \in LNode \ {n} : /\ reach[a] =< Len(w.events[a])
                                /\ reach[a] # 0 => w.events[a][reach[a]].ts < ts
  PROVE  /\ Causal(LM!Recorded(w, n, ts, reach))
         /\ LM!Recorded(w, n, ts, reach).counter = [w.counter EXCEPT ![n] = ts]
         /\ \A a \in LNode \ {n} : LM!Recorded(w, n, ts, reach).events[a] = w.events[a]
         /\ LM!LastReach(LM!Recorded(w, n, ts, reach), n) = [reach EXCEPT ![n] = @ + 1]
<1> DEFINE e == [ts |-> ts, reach |-> [reach EXCEPT ![n] = @ + 1]]
           v == LM!Recorded(w, n, ts, reach)
<1>1. /\ w.counter \in [LNode -> Nat]
      /\ w.events \in [LNode -> Seq(LM!EventType)]
  BY DEF Causal, LM!Worlds
<1>2. e \in LM!EventType /\ e.ts = ts /\ e.reach[n] = Len(w.events[n]) + 1
      /\ \A a \in LNode \ {n} : e.reach[a] = reach[a]
  <2>1. w.events[n] \in Seq(LM!EventType)
    BY <1>1
  <2> QED
    BY <2>1 DEF LM!EventType
<1>3. /\ v.counter = [w.counter EXCEPT ![n] = ts]
      /\ v.events = [w.events EXCEPT ![n] = Append(w.events[n], e)]
      /\ v = [counter |-> v.counter, events |-> v.events]
  BY <1>1 DEF LM!Recorded
<1>4. e.reach = [reach EXCEPT ![n] = @ + 1]
  OBVIOUS
<1> HIDE DEF e, v
<1>5. /\ v.counter \in [LNode -> Nat] /\ v.counter[n] = ts
      /\ \A a \in LNode \ {n} : v.counter[a] = w.counter[a]
  BY <1>1, <1>3
<1>6. /\ v.events \in [LNode -> Seq(LM!EventType)]
      /\ v.events[n] = Append(w.events[n], e)
      /\ \A a \in LNode \ {n} : v.events[a] = w.events[a]
  <2>1. Append(w.events[n], e) \in Seq(LM!EventType)
    BY <1>1, <1>2
  <2> QED
    BY <1>1, <1>3, <2>1
<1>7. /\ Len(v.events[n]) = Len(w.events[n]) + 1 /\ Len(w.events[n]) \in Nat
      /\ v.events[n][Len(w.events[n]) + 1] = e
      /\ \A j \in 1..Len(w.events[n]) : v.events[n][j] = w.events[n][j]
  <2>1. w.events[n] \in Seq(LM!EventType)
    BY <1>1
  <2> QED
    BY <1>6, <2>1
<1>8. \A a \in LNode : /\ Len(w.events[a]) \in Nat
                       /\ \A j \in 1..Len(w.events[a]) :
                            /\ v.events[a][j] = w.events[a][j]
                            /\ j \in 1..Len(v.events[a])
                            /\ w.events[a][j].ts \in Nat
                            /\ w.events[a][j].reach \in [LNode -> Nat]
  <2> SUFFICES ASSUME NEW a \in LNode
               PROVE  /\ Len(w.events[a]) \in Nat
                      /\ \A j \in 1..Len(w.events[a]) :
                            /\ v.events[a][j] = w.events[a][j]
                            /\ j \in 1..Len(v.events[a])
                            /\ w.events[a][j].ts \in Nat
                            /\ w.events[a][j].reach \in [LNode -> Nat]
    OBVIOUS
  <2>1. w.events[a] \in Seq(LM!EventType)
    BY <1>1
  <2>2. Len(w.events[a]) \in Nat /\ \A j \in 1..Len(w.events[a]) : w.events[a][j] \in LM!EventType
    BY <2>1
  <2>3. CASE a = n
    BY <1>7, <2>2, <2>3 DEF LM!EventType
  <2>4. CASE a # n
    BY <1>6, <2>2, <2>4 DEF LM!EventType
  <2> QED
    BY <2>3, <2>4
<1>9. v \in LM!Worlds
  BY <1>3, <1>5, <1>6 DEF LM!Worlds
<1>10. ASSUME NEW a \in LNode, NEW j \in 1..Len(v.events[a])
       PROVE  \/ j \in 1..Len(w.events[a])
              \/ a = n /\ j = Len(w.events[n]) + 1
  BY <1>6, <1>7, <1>8
<1>11. LM!LogsOrdered(v)
  <2> SUFFICES ASSUME NEW a \in LNode, NEW j \in 1..Len(v.events[a])
               PROVE  /\ v.events[a][j].ts =< v.counter[a]
                      /\ \A i \in 1..(j - 1) : v.events[a][i].ts < v.events[a][j].ts
    BY DEF LM!LogsOrdered
  <2>1. CASE j \in 1..Len(w.events[a])
    <3>1. /\ w.events[a][j].ts =< w.counter[a]
          /\ \A i \in 1..(j - 1) : w.events[a][i].ts < w.events[a][j].ts
      BY <2>1 DEF Causal, LM!LogsOrdered
    <3>2. w.counter[a] =< v.counter[a] /\ w.counter[a] \in Nat /\ v.counter[a] \in Nat
      <4>1. w.counter[a] \in Nat /\ v.counter[a] \in Nat /\ w.counter[n] \in Nat
        BY <1>1, <1>5
      <4>2. CASE a = n
        BY <1>5, <4>1, <4>2
      <4>3. CASE a # n
        BY <1>5, <4>1, <4>3
      <4> QED
        BY <4>1, <4>2, <4>3
    <3>3. v.events[a][j] = w.events[a][j] /\ w.events[a][j].ts \in Nat
      BY <1>8, <2>1
    <3>4. ASSUME NEW i \in 1..(j - 1) PROVE v.events[a][i] = w.events[a][i]
      <4>1. Len(w.events[a]) \in Nat
        BY <1>8
      <4>2. i \in 1..Len(w.events[a])
        BY <2>1, <4>1
      <4> QED
        BY <1>8, <4>2
    <3>5. w.events[a][j].ts =< v.counter[a]
      BY <3>1, <3>2, <3>3
    <3> QED
      BY <3>1, <3>3, <3>4, <3>5
  <2>2. CASE a = n /\ j = Len(w.events[n]) + 1
    <3>1. v.events[n][j] = e /\ e.ts = ts /\ v.counter[n] = ts
      BY <1>2, <1>5, <1>7, <2>2
    <3>2. ASSUME NEW i \in 1..(j - 1) PROVE v.events[n][i].ts < ts
      <4>1. i \in 1..Len(w.events[n])
        BY <1>8, <2>2
      <4>2. w.events[n][i].ts =< w.counter[n] /\ w.counter[n] \in Nat
        BY <1>1, <4>1 DEF Causal, LM!LogsOrdered
      <4>3. v.events[n][i] = w.events[n][i] /\ w.events[n][i].ts \in Nat
        BY <1>8, <4>1
      <4> QED
        BY <4>2, <4>3
    <3> QED
      BY <2>2, <3>1, <3>2
  <2> QED
    BY <1>10, <2>1, <2>2
<1>12. LM!ReachIsPast(v)
  <2> SUFFICES ASSUME NEW b \in LNode, NEW j \in 1..Len(v.events[b])
               PROVE  /\ v.events[b][j].reach[b] = j
                      /\ \A a \in LNode \ {b} :
                           /\ v.events[b][j].reach[a] =< Len(v.events[a])
                           /\ v.events[b][j].reach[a] # 0 =>
                                v.events[a][v.events[b][j].reach[a]].ts < v.events[b][j].ts
    BY DEF LM!ReachIsPast
  <2>1. ASSUME NEW a \in LNode
        PROVE  Len(w.events[a]) =< Len(v.events[a]) /\ Len(v.events[a]) \in Nat
    <3>1. Len(w.events[a]) \in Nat
      BY <1>8
    <3>2. CASE a = n
      BY <1>7, <3>2
    <3>3. CASE a # n
      <4>1. v.events[a] = w.events[a]
        BY <1>6, <3>3
      <4> QED
        BY <3>1, <4>1
    <3> QED
      BY <3>2, <3>3
  <2>2. CASE j \in 1..Len(w.events[b])
    <3> DEFINE d == w.events[b][j]
    <3>1. v.events[b][j] = d /\ d.reach \in [LNode -> Nat]
      BY <1>8, <2>2
    <3>2. d.reach[b] = j
      BY <2>2 DEF Causal, LM!ReachIsPast
    <3>3. ASSUME NEW a \in LNode \ {b}
          PROVE  /\ d.reach[a] =< Len(v.events[a])
                 /\ d.reach[a] # 0 => v.events[a][d.reach[a]].ts < d.ts
      <4>1. /\ d.reach[a] =< Len(w.events[a])
            /\ d.reach[a] # 0 => w.events[a][d.reach[a]].ts < d.ts
        BY <2>2 DEF Causal, LM!ReachIsPast
      <4> HIDE DEF d
      <4>2. d.reach[a] \in Nat
        BY <3>1
      <4>3. d.reach[a] # 0 => v.events[a][d.reach[a]] = w.events[a][d.reach[a]]
        <5>1. PICK r \in Nat : r = d.reach[a] /\ r =< Len(w.events[a])
          BY <4>1, <4>2
        <5>2. Len(w.events[a]) \in Nat
          BY <1>8
        <5>3. r # 0 => r \in 1..Len(w.events[a])
          BY <5>1, <5>2
        <5> QED
          BY <1>8, <5>1, <5>3
      <4>4. Len(w.events[a]) \in Nat /\ Len(w.events[a]) =< Len(v.events[a])
            /\ Len(v.events[a]) \in Nat
        BY <1>8, <2>1
      <4>5. d.reach[a] =< Len(v.events[a])
        BY <4>1, <4>2, <4>4
      <4> QED
        BY <4>1, <4>3, <4>5
    <3> QED
      BY <3>1, <3>2, <3>3
  <2>3. CASE b = n /\ j = Len(w.events[n]) + 1
    <3>1. v.events[n][j] = e
      BY <1>7, <2>3
    <3>2. ASSUME NEW a \in LNode \ {n}
          PROVE  /\ e.reach[a] =< Len(v.events[a])
                 /\ e.reach[a] # 0 => v.events[a][e.reach[a]].ts < e.ts
      BY <1>2, <1>6
    <3> QED
      BY <1>2, <2>3, <3>1, <3>2
  <2> QED
    BY <1>10, <2>2, <2>3
<1>13. LM!LastReach(v, n) = e.reach
  <2>1. v.events[n] # <<>>
    BY <1>7
  <2> QED
    BY <1>7, <2>1 DEF LM!LastReach, LM!Last
<1> QED
  BY <1>3, <1>4, <1>6, <1>9, <1>11, <1>12, <1>13 DEF Causal, v

(* Events of a log have timestamps.                                        *)
LEMMA EventTimes ==
  ASSUME NEW w, Causal(w), NEW n \in LNode, NEW j \in Nat, j # 0, j =< Len(w.events[n])
  PROVE  w.events[n][j].ts \in Nat /\ w.events[n][j].ts =< w.counter[n]
<1>1. w.events[n] \in Seq(LM!EventType)
  BY DEF Causal, LM!Worlds
<1>2. j \in 1..Len(w.events[n])
  BY <1>1
<1>3. w.events[n][j] \in LM!EventType
  BY <1>1, <1>2
<1>4. w.events[n][j].ts \in Nat
  BY <1>3 DEF LM!EventType
<1> QED
  BY <1>2, <1>4 DEF Causal, LM!LogsOrdered

(* The reach of the last event of a node: all of its log, and events of the *)
(* others with timestamps below the node's clock.                           *)
LEMMA LastReachIsPast ==
  ASSUME NEW w, Causal(w), NEW n \in LNode
  PROVE  /\ LM!LastReach(w, n) \in [LNode -> Nat]
         /\ LM!LastReach(w, n)[n] = Len(w.events[n])
         /\ \A a \in LNode \ {n} :
              /\ LM!LastReach(w, n)[a] =< Len(w.events[a])
              /\ LM!LastReach(w, n)[a] # 0 =>
                   w.events[a][LM!LastReach(w, n)[a]].ts < w.counter[n]
<1>1. /\ w.counter \in [LNode -> Nat]
      /\ w.events \in [LNode -> Seq(LM!EventType)]
  BY DEF Causal, LM!Worlds
<1>2. \A a \in LNode : w.events[a] \in Seq(LM!EventType) /\ Len(w.events[a]) \in Nat
  BY <1>1
<1>3. CASE w.events[n] = <<>>
  BY <1>2, <1>3 DEF LM!LastReach, LM!Reach0
<1>4. CASE w.events[n] # <<>>
  <2> DEFINE j == Len(w.events[n])
             e == w.events[n][j]
  <2>1. j \in 1..Len(w.events[n]) /\ e \in LM!EventType
    <3>1. w.events[n] \in Seq(LM!EventType)
      BY <1>1
    <3> QED
      BY <1>4, <3>1
  <2>2. LM!LastReach(w, n) = e.reach
    BY <1>4 DEF LM!LastReach, LM!Last
  <2>3. e.reach \in [LNode -> Nat] /\ e.ts \in Nat
    BY <2>1 DEF LM!EventType
  <2>4. e.ts =< w.counter[n] /\ w.counter[n] \in Nat
    BY <1>1, <2>1 DEF Causal, LM!LogsOrdered
  <2>5. /\ e.reach[n] = j
        /\ \A a \in LNode \ {n} :
              /\ e.reach[a] =< Len(w.events[a])
              /\ e.reach[a] # 0 => w.events[a][e.reach[a]].ts < e.ts
    BY <2>1 DEF Causal, LM!ReachIsPast
  <2>6. ASSUME NEW a \in LNode \ {n}, e.reach[a] # 0
        PROVE  w.events[a][e.reach[a]].ts < w.counter[n]
    <3>1. e.reach[a] \in 1..Len(w.events[a])
      BY <1>2, <2>3, <2>5, <2>6
    <3>2. w.events[a][e.reach[a]] \in LM!EventType
      BY <1>2, <3>1
    <3>3. w.events[a][e.reach[a]].ts \in Nat
      BY <3>2 DEF LM!EventType
    <3>4. w.events[a][e.reach[a]].ts < e.ts
      BY <2>5, <2>6
    <3> QED
      BY <2>3, <2>4, <3>3, <3>4
  <2> QED
    BY <2>2, <2>3, <2>5, <2>6
<1> QED
  BY <1>3, <1>4

(* A local event, or the sending of a message.                             *)
LEMMA TickIsCausal ==
  ASSUME NEW w, Causal(w), NEW n \in LNode
  PROVE  /\ Causal(LM!Tick(w, n))
         /\ LM!Tick(w, n).counter = [w.counter EXCEPT ![n] = w.counter[n] + 1]
         /\ \A a \in LNode \ {n} : LM!Tick(w, n).events[a] = w.events[a]
<1> DEFINE ts == w.counter[n] + 1
           reach == LM!LastReach(w, n)
<1>1. w.counter[n] \in Nat /\ ts \in Nat /\ ts > w.counter[n]
  BY DEF Causal, LM!Worlds
<1>2. reach \in [LNode -> Nat] /\ reach[n] = Len(w.events[n])
  BY LastReachIsPast
<1>3. ASSUME NEW a \in LNode \ {n}
      PROVE  /\ reach[a] =< Len(w.events[a])
             /\ reach[a] # 0 => w.events[a][reach[a]].ts < ts
  <2>1. /\ reach[a] =< Len(w.events[a])
        /\ reach[a] # 0 => w.events[a][reach[a]].ts < w.counter[n]
    BY LastReachIsPast
  <2>2. ASSUME reach[a] # 0 PROVE w.events[a][reach[a]].ts \in Nat
    BY <1>2, <2>1, <2>2, EventTimes
  <2> QED
    BY <1>1, <2>1, <2>2
<1>4. LM!Tick(w, n) = LM!Recorded(w, n, ts, reach)
  BY DEF LM!Tick
<1> HIDE DEF ts, reach
<1>5. /\ Causal(LM!Recorded(w, n, ts, reach))
      /\ LM!Recorded(w, n, ts, reach).counter = [w.counter EXCEPT ![n] = ts]
      /\ \A a \in LNode \ {n} : LM!Recorded(w, n, ts, reach).events[a] = w.events[a]
  BY <1>1, <1>2, <1>3, RecordedIsCausal
<1> QED
  BY <1>4, <1>5 DEF ts

(* A message: the clock of the receiver passes that of the sender, and no   *)
(* clock goes back.                                                         *)
LEMMA SendIsCausal ==
  ASSUME NEW w, Causal(w), NEW a \in LNode, NEW b \in LNode, a # b
  PROVE  /\ Causal(LM!SendMessage(w, a, b))
         /\ \A x \in LNode : LM!SendMessage(w, a, b).counter[x] >= w.counter[x]
         /\ LM!SendMessage(w, a, b).counter[b] >= w.counter[a]
<1>1. PICK u : u = LM!Tick(w, a)
  OBVIOUS
<1>2. Causal(u) /\ u.counter = [w.counter EXCEPT ![a] = w.counter[a] + 1]
  BY <1>1, TickIsCausal
<1>3. w.counter \in [LNode -> Nat] /\ u.counter \in [LNode -> Nat]
  BY <1>2 DEF Causal, LM!Worlds
<1>4. PICK p : p = LM!LastReach(u, b)
  OBVIOUS
<1>5. PICK q : q = LM!LastReach(u, a)
  OBVIOUS
<1>6. PICK ts : ts = LM!ReceiveTick(u.counter[b], u.counter[a])
  OBVIOUS
<1>7. PICK reach : reach = LM!Joined(p, q)
  OBVIOUS
<1>8. LM!SendMessage(w, a, b) = LM!Recorded(u, b, ts, reach)
  BY <1>1, <1>4, <1>5, <1>6, <1>7 DEF LM!SendMessage
<1>9. ts \in Nat /\ ts > u.counter[b] /\ ts > u.counter[a]
  <2>1. u.counter[b] \in Nat /\ u.counter[a] \in Nat
    BY <1>3
  <2>2. PICK c \in Nat : c = u.counter[b]
    BY <2>1
  <2>3. PICK d \in Nat : d = u.counter[a]
    BY <2>1
  <2>4. /\ LM!Max({c, d}) \in {c, d}
        /\ LM!Max({c, d}) >= c /\ LM!Max({c, d}) >= d
    BY MaxOfTwo
  <2>5. ts = LM!Max({c, d}) + 1
    BY <1>6, <2>2, <2>3 DEF LM!ReceiveTick
  <2> QED
    BY <2>2, <2>3, <2>4, <2>5
<1>10. /\ p \in [LNode -> Nat] /\ p[b] = Len(u.events[b])
       /\ \A x \in LNode \ {b} : /\ p[x] =< Len(u.events[x])
                                 /\ p[x] # 0 => u.events[x][p[x]].ts < u.counter[b]
  BY <1>2, <1>4, LastReachIsPast
<1>11. /\ q \in [LNode -> Nat] /\ q[a] = Len(u.events[a])
       /\ \A x \in LNode \ {a} : /\ q[x] =< Len(u.events[x])
                                 /\ q[x] # 0 => u.events[x][q[x]].ts < u.counter[a]
  BY <1>2, <1>5, LastReachIsPast
<1>12. ASSUME NEW x \in LNode
       PROVE  reach[x] \in {p[x], q[x]} /\ reach[x] >= p[x] /\ reach[x] >= q[x]
  <2>1. PICK c \in Nat : c = p[x]
    BY <1>10
  <2>2. PICK d \in Nat : d = q[x]
    BY <1>11
  <2>3. reach[x] = LM!Max({c, d})
    BY <1>7, <2>1, <2>2 DEF LM!Joined
  <2> QED
    BY <2>1, <2>2, <2>3, MaxOfTwo
<1>13. reach \in [LNode -> Nat]
  <2>1. reach = [x \in LNode |-> reach[x]]
    BY <1>7 DEF LM!Joined
  <2>2. \A x \in LNode : reach[x] \in Nat
    BY <1>10, <1>11, <1>12
  <2> QED
    BY <2>1, <2>2
<1>14. reach[b] = Len(u.events[b])
  <2>1. p[b] \in Nat /\ q[b] \in Nat /\ q[b] =< p[b]
    BY <1>10, <1>11
  <2> QED
    BY <1>10, <1>12, <2>1
<1>15. ASSUME NEW x \in LNode \ {b}
       PROVE  /\ reach[x] =< Len(u.events[x])
              /\ reach[x] # 0 => u.events[x][reach[x]].ts < ts
  <2>1. u.counter[b] \in Nat /\ u.counter[a] \in Nat /\ p[x] \in Nat /\ q[x] \in Nat
    BY <1>3, <1>10, <1>11
  <2>2. CASE reach[x] = p[x]
    <3>1. p[x] =< Len(u.events[x]) /\ (p[x] # 0 => u.events[x][p[x]].ts < u.counter[b])
      BY <1>10
    <3>2. p[x] # 0 => u.events[x][p[x]].ts \in Nat
      BY <1>2, <2>1, <3>1, EventTimes
    <3> QED
      BY <1>9, <2>1, <2>2, <3>1, <3>2
  <2>3. CASE reach[x] = q[x] /\ x # a
    <3>1. q[x] =< Len(u.events[x]) /\ (q[x] # 0 => u.events[x][q[x]].ts < u.counter[a])
      BY <1>11, <2>3
    <3>2. q[x] # 0 => u.events[x][q[x]].ts \in Nat
      BY <1>2, <2>1, <3>1, EventTimes
    <3> QED
      BY <1>9, <2>1, <2>3, <3>1, <3>2
  <2>4. CASE reach[x] = q[x] /\ x = a
    <3>1. q[x] = Len(u.events[x])
      BY <1>11, <2>4
    <3>2. q[x] =< Len(u.events[x])
      BY <2>1, <3>1
    <3>3. q[x] # 0 => u.events[x][q[x]].ts \in Nat /\ u.events[x][q[x]].ts =< u.counter[a]
      BY <1>2, <2>1, <2>4, <3>2, EventTimes
    <3> QED
      BY <1>9, <2>1, <2>4, <3>2, <3>3
  <2> QED
    BY <1>12, <2>2, <2>3, <2>4
<1>16. /\ Causal(LM!Recorded(u, b, ts, reach))
       /\ LM!Recorded(u, b, ts, reach).counter = [u.counter EXCEPT ![b] = ts]
  <2>1. ts \in Nat /\ ts > u.counter[b]
    BY <1>9
  <2>2. \A x \in LNode \ {b} :
           /\ reach[x] =< Len(u.events[x])
           /\ reach[x] # 0 => u.events[x][reach[x]].ts < ts
    BY <1>15
  <2>3. Causal(u)
    BY <1>2
  <2> QED
    BY <1>13, <1>14, <2>1, <2>2, <2>3, RecordedIsCausal
<1>17. PICK v : v = LM!SendMessage(w, a, b)
  OBVIOUS
<1>18. Causal(v) /\ v.counter = [u.counter EXCEPT ![b] = ts]
  BY <1>8, <1>16, <1>17
<1>19. v.counter[b] >= w.counter[a] /\ v.counter[b] >= w.counter[b]
  BY <1>2, <1>3, <1>9, <1>18
<1>20. ASSUME NEW x \in LNode PROVE v.counter[x] >= w.counter[x]
  <2>1. CASE x = b
    BY <1>19, <2>1
  <2>2. CASE x # b
    <3>1. v.counter[x] = u.counter[x] /\ w.counter[x] \in Nat
      BY <1>3, <1>18, <2>2
    <3>2. CASE x = a
      BY <1>2, <1>3, <3>1, <3>2
    <3>3. CASE x # a
      BY <1>2, <1>3, <3>1, <3>3
    <3> QED
      BY <3>2, <3>3
  <2> QED
    BY <2>1, <2>2
<1> QED
  BY <1>17, <1>18, <1>19, <1>20

(* The enumeration of the other nodes names each of them.                  *)
LEMMA OthersEnumerated ==
  ASSUME NEW n \in LNode
  PROVE  /\ LM!Others(n) \in Nat
         /\ \A i \in 1..LM!Others(n) : LM!Other(n, i) \in LNode \ {n}
         /\ \A x \in LNode \ {n} : \E i \in 1..LM!Others(n) : LM!Other(n, i) = x
<1> DEFINE S == LNode \ {n}
           Rank(o) == Cardinality({x \in S : x < o})
<1>1. S \in SUBSET Int /\ IsFiniteSet(S) /\ Cardinality(S) \in Nat
  BY MutexAssumption, FS_Subset, FS_CardinalityType
<1>2. LM!Others(n) = Cardinality(S)
  BY DEF LM!Others, LM!Cardinality, Cardinality
<1>3. ASSUME NEW i \in 1..Cardinality(S)
      PROVE  LM!Other(n, i) \in S /\ Rank(LM!Other(n, i)) = i - 1
  <2>1. \E o \in S : Rank(o) = i - 1
    <3>1. i \in Nat \ {0} /\ Cardinality(S) >= i
      BY <1>1
    <3> HIDE DEF S
    <3> QED
      BY <1>1, <3>1, NthElement
  <2> QED
    BY <2>1 DEF LM!Other, LM!Cardinality, Cardinality
<1>4. ASSUME NEW x \in S PROVE \E i \in 1..Cardinality(S) : LM!Other(n, i) = x
  <2> DEFINE B == {y \in S : y < x}
  <2>1. B \in SUBSET S /\ x \notin B /\ x \in S /\ x \in Int
    BY <1>1
  <2>2. Rank(x) = Cardinality(B)
    OBVIOUS
  <2>3. Cardinality(B) \in Nat /\ Cardinality(B) < Cardinality(S)
    <3> HIDE DEF B, S
    <3>1. IsFiniteSet(B) /\ Cardinality(B) \in Nat /\ Cardinality(B) =< Cardinality(S)
          /\ (Cardinality(B) = Cardinality(S) => B = S)
      BY <1>1, <2>1, FS_Subset, FS_CardinalityType
    <3> QED
      BY <1>1, <2>1, <3>1
  <2>4. PICK i \in 1..Cardinality(S) : Rank(x) = i - 1
    <3>1. Cardinality(B) + 1 \in 1..Cardinality(S) /\ (Cardinality(B) + 1) - 1 = Cardinality(B)
      BY <1>1, <2>3
    <3> QED
      BY <2>2, <3>1
  <2>5. PICK o : o = LM!Other(n, i)
    OBVIOUS
  <2>6. o \in S /\ Rank(o) = Rank(x) /\ Rank(x) \in Nat
    BY <1>3, <2>2, <2>3, <2>4, <2>5
  <2>7. ~(o < x) /\ ~(x < o)
    <3>1. o < x => Rank(o) < Rank(x)
      <4> HIDE DEF S
      <4> QED
        BY <1>1, <2>6, RankDiffers
    <3>2. x < o => Rank(x) < Rank(o)
      <4> HIDE DEF S
      <4> QED
        BY <1>1, <2>6, RankDiffers
    <3> HIDE DEF Rank
    <3> QED
      BY <2>6, <3>1, <3>2
  <2>8. o = x
    BY <1>1, <2>6, <2>7
  <2> QED
    BY <2>5, <2>8
<1> QED
  BY <1>1, <1>2, <1>3, <1>4

(* A request: the node ticks, and its clock is then carried to every other  *)
(* node, so that all clocks reach the timestamp of the request.             *)
LEMMA RequestedIsCausal ==
  ASSUME NEW w, Causal(w), NEW n \in LNode
  PROVE  /\ Causal(LM!Requested(w, n))
         /\ \A x \in LNode : /\ LM!Requested(w, n).counter[x] >= w.counter[x]
                             /\ LM!Requested(w, n).counter[x] >= w.counter[n] + 1
<1> DEFINE m == LM!Others(n)
           o(i) == LM!Other(n, i)
           S == {v \in LM!Worlds : Causal(v)}
           Step(v, i) == LM!SendMessage(LM!SendMessage(v, n, o(i)), o(i), n)
           start == LM!Tick(w, n)
           st == [i \in 1..m |-> [v \in S |-> Step(v, i)]]
<1>1. /\ m \in Nat /\ \A i \in 1..m : o(i) \in LNode \ {n}
      /\ \A x \in LNode \ {n} : \E i \in 1..m : o(i) = x
  BY OthersEnumerated
<1> HIDE DEF m, o
<1>2. Causal(start) /\ start \in LM!Worlds
      /\ start.counter = [w.counter EXCEPT ![n] = w.counter[n] + 1]
  BY TickIsCausal DEF Causal
<1>3. ASSUME NEW v, Causal(v), NEW i \in 1..m
      PROVE  /\ Causal(Step(v, i)) /\ Step(v, i) \in S
             /\ \A x \in LNode : Step(v, i).counter[x] >= v.counter[x]
             /\ Step(v, i).counter[o(i)] >= v.counter[n]
  <2>0. PICK y : y = o(i)
    OBVIOUS
  <2>1. y \in LNode /\ y # n
    BY <1>1, <2>0
  <2>2. PICK u : u = LM!SendMessage(v, n, y)
    OBVIOUS
  <2>3. /\ Causal(u) /\ \A x \in LNode : u.counter[x] >= v.counter[x]
        /\ u.counter[y] >= v.counter[n]
    BY <1>3, <2>1, <2>2, SendIsCausal
  <2>4. PICK t : t = LM!SendMessage(u, y, n)
    OBVIOUS
  <2>5. Causal(t) /\ \A x \in LNode : t.counter[x] >= u.counter[x]
    BY <2>1, <2>3, <2>4, SendIsCausal
  <2>6. Step(v, i) = t
    BY <2>0, <2>2, <2>4
  <2>7. \A x \in LNode : v.counter[x] \in Nat /\ u.counter[x] \in Nat /\ t.counter[x] \in Nat
    BY <1>3, <2>3, <2>5 DEF Causal, LM!Worlds
  <2> HIDE DEF Step
  <2>8. \A x \in LNode : t.counter[x] >= v.counter[x]
    BY <2>3, <2>5, <2>7
  <2>9. t.counter[y] >= v.counter[n]
    BY <2>1, <2>3, <2>5, <2>7
  <2> QED
    BY <2>0, <2>5, <2>6, <2>8, <2>9 DEF Causal
<1> HIDE DEF Step, start
<1>4. PICK g \in [0..m -> S] : g[0] = start /\ \A i \in 1..m : g[i] = st[i][g[i - 1]]
  <2>1. st \in [1..m -> [S -> S]]
    BY <1>3
  <2>2. start \in S
    BY <1>2
  <2> HIDE DEF st, S
  <2>3. PICK k, T, b, step : k = m /\ T = S /\ b = start /\ step = st
    OBVIOUS
  <2>4. k \in Nat /\ b \in T /\ step \in [1..k -> [T -> T]]
    BY <1>1, <2>1, <2>2, <2>3
  <2>5. PICK g : Iterates(k, T, b, step, g)
    BY <2>4, Iteration
  <2>6. g \in [0..k -> T] /\ g[0] = b /\ \A i \in 1..k : g[i] = step[i][g[i - 1]]
    BY <2>5 DEF Iterates
  <2> QED
    BY <2>3, <2>6
<1> DEFINE Is(f) == f = [i \in 0..m |-> IF i = 0 THEN start ELSE Step(f[i - 1], i)]
<1>5. Is(g)
  <2>1. \A i \in 1..m : g[i] = Step(g[i - 1], i)
    <3> SUFFICES ASSUME NEW i \in 1..m PROVE g[i] = Step(g[i - 1], i)
      OBVIOUS
    <3>1. g[i - 1] \in S
      BY <1>1, <1>4
    <3> QED
      BY <1>4, <3>1
  <2>2. \A i \in 0..m : g[i] = IF i = 0 THEN start ELSE Step(g[i - 1], i)
    BY <1>1, <1>4, <2>1
  <2>3. g = [i \in 0..m |-> g[i]]
    BY <1>4
  <2> HIDE DEF S, st
  <2> QED
    BY <2>2, <2>3
<1>6. PICK after : Is(after) /\ LM!Requested(w, n) = after[m]
  <2>1. Is(CHOOSE f : Is(f))
    BY <1>5
  <2>2. LM!Requested(w, n) = (CHOOSE f : Is(f))[m]
    BY DEF LM!Requested, m, o, Step, start
  <2> HIDE DEF Is
  <2> QED
    BY <2>1, <2>2
<1>7. after[0] = start /\ \A i \in 1..m : after[i] = Step(after[i - 1], i)
  BY <1>1, <1>6
<1> DEFINE Told(i) == /\ Causal(after[i])
                      /\ \A x \in LNode : after[i].counter[x] >= w.counter[x]
                      /\ after[i].counter[n] >= w.counter[n] + 1
                      /\ \A j \in 1..i : after[i].counter[o(j)] >= w.counter[n] + 1
           P == {i \in 0..m : Told(i)}
<1>8. \A x \in LNode : w.counter[x] \in Nat
  BY DEF Causal, LM!Worlds
<1>9. 0 \in P
  <2>1. \A x \in LNode : start.counter[x] >= w.counter[x]
    <3> SUFFICES ASSUME NEW x \in LNode PROVE start.counter[x] >= w.counter[x]
      OBVIOUS
    <3>1. w.counter \in [LNode -> Nat]
      BY DEF Causal, LM!Worlds
    <3>2. CASE x = n
      BY <1>2, <3>1, <3>2
    <3>3. CASE x # n
      BY <1>2, <3>1, <3>3
    <3> QED
      BY <3>2, <3>3
  <2>2. start.counter[n] >= w.counter[n] + 1
    <3>1. w.counter \in [LNode -> Nat]
      BY DEF Causal, LM!Worlds
    <3> QED
      BY <1>2, <3>1
  <2>3. 1..0 = {} /\ 0 \in 0..m
    BY <1>1
  <2> QED
    BY <1>2, <1>7, <2>1, <2>2, <2>3
<1>10. ASSUME NEW i \in 0..(m - 1), i \in P PROVE i + 1 \in P
  <2>1. Told(i)
    BY <1>10
  <2>2. PICK v : v = after[i]
    OBVIOUS
  <2>3. PICK k \in 1..m : k = i + 1
    BY <1>1
  <2>4. PICK t : t = Step(v, k)
    OBVIOUS
  <2>5. after[i + 1] = t
    <3>1. k - 1 = i
      BY <1>1, <2>3
    <3> QED
      BY <1>7, <2>2, <2>3, <2>4, <3>1
  <2>6. /\ Causal(t) /\ \A x \in LNode : t.counter[x] >= v.counter[x]
        /\ t.counter[o(k)] >= v.counter[n]
    BY <1>3, <2>1, <2>2, <2>4
  <2>7. \A x \in LNode : v.counter[x] \in Nat /\ t.counter[x] \in Nat
    BY <2>1, <2>2, <2>6 DEF Causal, LM!Worlds
  <2>8. v.counter[n] >= w.counter[n] + 1 /\ \A x \in LNode : v.counter[x] >= w.counter[x]
    BY <2>1, <2>2
  <2>9. t.counter[n] >= w.counter[n] + 1 /\ \A x \in LNode : t.counter[x] >= w.counter[x]
    BY <1>8, <2>6, <2>7, <2>8
  <2>10. ASSUME NEW j \in 1..(i + 1) PROVE t.counter[o(j)] >= w.counter[n] + 1
    <3>1. PICK x \in LNode : x = o(j)
      BY <1>1
    <3>2. CASE j = k
      BY <1>8, <2>6, <2>7, <2>8, <3>1, <3>2
    <3>3. CASE j # k
      <4>1. j \in 1..i
        BY <2>3, <3>3
      <4>2. v.counter[x] >= w.counter[n] + 1
        BY <2>1, <2>2, <3>1, <4>1
      <4> QED
        BY <1>8, <2>6, <2>7, <3>1, <4>2
    <3> QED
      BY <3>2, <3>3
  <2>11. i + 1 \in 0..m
    BY <1>1
  <2> QED
    BY <2>5, <2>6, <2>9, <2>10, <2>11
<1>11. Told(m)
  <2>1. m \in P
    <3> HIDE DEF P
    <3>1. PICK k, Q : k = m /\ Q = P
      OBVIOUS
    <3>2. \A i \in 0..k : i \in Q
      BY <1>1, <1>9, <1>10, <3>1, CountUp
    <3> QED
      BY <1>1, <3>1, <3>2
  <2> QED
    BY <2>1
<1>12. ASSUME NEW x \in LNode PROVE after[m].counter[x] >= w.counter[n] + 1
  <2>1. CASE x = n
    BY <1>11, <2>1
  <2>2. CASE x # n
    <3>1. PICK i \in 1..m : o(i) = x
      BY <1>1, <2>2
    <3> QED
      BY <1>11, <3>1
  <2> QED
    BY <2>1, <2>2
<1> QED
  BY <1>6, <1>11, <1>12

(* A release: a message to every other node.                               *)
LEMMA ReleasedIsCausal ==
  ASSUME NEW w, Causal(w), NEW n \in LNode
  PROVE  /\ Causal(LM!Released(w, n))
         /\ \A x \in LNode : LM!Released(w, n).counter[x] >= w.counter[x]
<1> DEFINE m == LM!Others(n)
           o(i) == LM!Other(n, i)
           S == {v \in LM!Worlds : Causal(v)}
           Step(v, i) == LM!SendMessage(v, n, o(i))
           st == [i \in 1..m |-> [v \in S |-> Step(v, i)]]
<1>1. m \in Nat /\ \A i \in 1..m : o(i) \in LNode \ {n}
  BY OthersEnumerated
<1> HIDE DEF m, o
<1>3. ASSUME NEW v, Causal(v), NEW i \in 1..m
      PROVE  /\ Causal(Step(v, i)) /\ Step(v, i) \in S
             /\ \A x \in LNode : Step(v, i).counter[x] >= v.counter[x]
  <2>1. PICK y \in LNode \ {n} : y = o(i)
    BY <1>1
  <2>2. /\ Causal(LM!SendMessage(v, n, y))
        /\ \A x \in LNode : LM!SendMessage(v, n, y).counter[x] >= v.counter[x]
    BY <1>3, SendIsCausal
  <2> QED
    BY <2>1, <2>2 DEF Causal
<1> HIDE DEF Step
<1>4. PICK g \in [0..m -> S] : g[0] = w /\ \A i \in 1..m : g[i] = st[i][g[i - 1]]
  <2>1. st \in [1..m -> [S -> S]]
    BY <1>3
  <2>2. w \in S
    BY DEF Causal
  <2> HIDE DEF st, S
  <2>3. PICK k, T, b, step : k = m /\ T = S /\ b = w /\ step = st
    OBVIOUS
  <2>4. k \in Nat /\ b \in T /\ step \in [1..k -> [T -> T]]
    BY <1>1, <2>1, <2>2, <2>3
  <2>5. PICK g : Iterates(k, T, b, step, g)
    BY <2>4, Iteration
  <2>6. g \in [0..k -> T] /\ g[0] = b /\ \A i \in 1..k : g[i] = step[i][g[i - 1]]
    BY <2>5 DEF Iterates
  <2> QED
    BY <2>3, <2>6
<1> DEFINE Is(f) == f = [i \in 0..m |-> IF i = 0 THEN w ELSE Step(f[i - 1], i)]
<1>5. Is(g)
  <2>1. \A i \in 1..m : g[i] = Step(g[i - 1], i)
    <3> SUFFICES ASSUME NEW i \in 1..m PROVE g[i] = Step(g[i - 1], i)
      OBVIOUS
    <3>1. g[i - 1] \in S
      BY <1>1, <1>4
    <3> QED
      BY <1>4, <3>1
  <2>2. \A i \in 0..m : g[i] = IF i = 0 THEN w ELSE Step(g[i - 1], i)
    BY <1>1, <1>4, <2>1
  <2>3. g = [i \in 0..m |-> g[i]]
    BY <1>4
  <2> HIDE DEF S, st
  <2> QED
    BY <2>2, <2>3
<1>6. PICK after : Is(after) /\ LM!Released(w, n) = after[m]
  <2>1. Is(CHOOSE f : Is(f))
    BY <1>5
  <2>2. LM!Released(w, n) = (CHOOSE f : Is(f))[m]
    BY DEF LM!Released, m, o, Step
  <2> HIDE DEF Is
  <2> QED
    BY <2>1, <2>2
<1>7. after[0] = w /\ \A i \in 1..m : after[i] = Step(after[i - 1], i)
  BY <1>1, <1>6
<1> DEFINE Told(i) == /\ Causal(after[i])
                      /\ \A x \in LNode : after[i].counter[x] >= w.counter[x]
           P == {i \in 0..m : Told(i)}
<1>8. \A x \in LNode : w.counter[x] \in Nat
  BY DEF Causal, LM!Worlds
<1>9. 0 \in P
  BY <1>1, <1>7, <1>8
<1>10. ASSUME NEW i \in 0..(m - 1), i \in P PROVE i + 1 \in P
  <2>1. Told(i)
    BY <1>10
  <2>2. PICK v : v = after[i]
    OBVIOUS
  <2>3. PICK k \in 1..m : k = i + 1 /\ k - 1 = i
    BY <1>1
  <2>4. PICK t : t = Step(v, k)
    OBVIOUS
  <2>5. after[i + 1] = t
    BY <1>7, <2>2, <2>3, <2>4
  <2>6. Causal(t) /\ \A x \in LNode : t.counter[x] >= v.counter[x]
    BY <1>3, <2>1, <2>2, <2>4
  <2>7. \A x \in LNode : v.counter[x] \in Nat /\ t.counter[x] \in Nat
    BY <2>1, <2>2, <2>6 DEF Causal, LM!Worlds
  <2>8. \A x \in LNode : v.counter[x] >= w.counter[x]
    BY <2>1, <2>2
  <2>9. \A x \in LNode : t.counter[x] >= w.counter[x]
    BY <1>8, <2>6, <2>7, <2>8
  <2>10. i + 1 \in 0..m
    BY <1>1
  <2> QED
    BY <2>5, <2>6, <2>9, <2>10
<1>11. m \in P
  <2> HIDE DEF P
  <2>1. PICK k, Q : k = m /\ Q = P
    OBVIOUS
  <2>2. \A i \in 0..k : i \in Q
    BY <1>1, <1>9, <1>10, <2>1, CountUp
  <2> QED
    BY <1>1, <2>1, <2>2
<1> QED
  BY <1>6, <1>11

LEMMA MutexInit == LM!LamportInit => LM!MutexInv
<1> SUFFICES ASSUME LM!LamportInit PROVE LM!MutexInv
  OBVIOUS
<1>1. /\ clock = [n \in LNode |-> 0] /\ events = [n \in LNode |-> <<>>]
      /\ queue = {} /\ acks = [n \in LNode |-> {}]
  BY DEF LM!LamportInit
<1>2. LM!World.counter = clock /\ LM!World.events = events
  BY DEF LM!World
<1>3. <<>> \in Seq(LM!EventType) /\ Len(<<>>) = 0
  OBVIOUS
<1>4. clock \in [LNode -> Nat] /\ events \in [LNode -> Seq(LM!EventType)]
  BY <1>1, <1>3
<1>5. LM!World \in LM!Worlds
  BY <1>4 DEF LM!World, LM!Worlds
<1>6. \A n \in LNode : 1..Len(LM!World.events[n]) = {}
  BY <1>1, <1>2
<1>7. LM!LogsOrdered(LM!World) /\ LM!ReachIsPast(LM!World)
  BY <1>6 DEF LM!LogsOrdered, LM!ReachIsPast
<1>8. acks \in [LNode -> SUBSET LNode] /\ LM!RequestsKnown
  BY <1>1 DEF LM!RequestsKnown
<1> QED
  BY <1>5, <1>7, <1>8 DEF LM!MutexInv

(* A call that leads to a causal world whose clocks have not gone back      *)
(* keeps the part of the invariant about clocks and logs.                   *)
LEMMA BecomesKeeps ==
  ASSUME LM!MutexInv, NEW w, NEW v, w = LM!World, Causal(v), LM!Becomes(v),
         \A x \in LNode : v.counter[x] >= w.counter[x]
  PROVE  /\ Causal(LM!World)' /\ clock' \in [LNode -> Nat]
         /\ \A r \in queue : \A x \in LNode : r[1] =< clock'[x]
<1>1. clock' = v.counter /\ events' = v.events
  BY DEF LM!Becomes
<1>2. v = [counter |-> v.counter, events |-> v.events] /\ v.counter \in [LNode -> Nat]
  BY DEF Causal, LM!Worlds
<1>3. LM!World' = v
  BY <1>1, <1>2 DEF LM!World
<1>4. Causal(LM!World)'
  BY <1>3 DEF Causal
<1>5. clock = w.counter /\ clock \in [LNode -> Nat]
  BY DEF LM!World, LM!MutexInv, LM!Worlds
<1>6. ASSUME NEW r \in queue, NEW x \in LNode PROVE r[1] =< clock'[x]
  <2>1. r[1] \in Nat /\ r[1] =< clock[x]
    BY DEF LM!MutexInv, LM!RequestsKnown
  <2>2. clock'[x] \in Nat /\ clock[x] \in Nat /\ clock'[x] >= clock[x]
    BY <1>1, <1>2, <1>5
  <2> QED
    BY <2>1, <2>2
<1> QED
  BY <1>1, <1>2, <1>4, <1>6

(* The mutex and the clocks keep their invariant, and a step overtakes no   *)
(* node that may enter.                                                     *)
LEMMA MutexStep ==
  ASSUME LM!MutexInv, LM!LamportNext
  PROVE  LM!MutexInv' /\ LM!KeepsEntry
<1>1. PICK w : w = LM!World
  OBVIOUS
<1>2. Causal(w) /\ w.counter = clock /\ clock \in [LNode -> Nat]
  BY <1>1 DEF Causal, LM!MutexInv, LM!World, LM!Worlds
<1>3. /\ acks \in [LNode -> SUBSET LNode]
      /\ queue \in SUBSET (Nat \X LNode)
      /\ \A r \in queue : \A n \in LNode : r[1] =< clock[n]
  BY DEF LM!MutexInv, LM!RequestsKnown
<1>4. ASSUME NEW v, Causal(v), LM!Becomes(v), \A x \in LNode : v.counter[x] >= w.counter[x],
             UNCHANGED <<queue, acks>>
      PROVE  LM!MutexInv' /\ LM!KeepsEntry
  <2>1. /\ Causal(LM!World)'
        /\ \A r \in queue : \A x \in LNode : r[1] =< clock'[x]
    BY <1>1, <1>4, BecomesKeeps
  <2>2. LM!MutexInv'
    BY <1>3, <1>4, <2>1 DEF Causal, LM!MutexInv, LM!RequestsKnown
  <2>3. \A n \in LNode : LM!CanEnter(n) => LM!CanEnter(n)'
    BY <1>4 DEF LM!CanEnter
  <2> QED
    BY <2>2, <2>3 DEF LM!KeepsEntry
<1>5. ASSUME NEW n \in LNode, LM!LocalEvent(n)
      PROVE  LM!MutexInv' /\ LM!KeepsEntry
  <2>1. PICK v : v = LM!Tick(w, n)
    OBVIOUS
  <2>2. Causal(v) /\ v.counter = [w.counter EXCEPT ![n] = w.counter[n] + 1]
    BY <1>2, <2>1, TickIsCausal
  <2>3. \A x \in LNode : v.counter[x] >= w.counter[x]
    BY <1>2, <2>2
  <2>4. LM!Becomes(v) /\ UNCHANGED <<queue, acks>>
    BY <1>1, <1>5, <2>1 DEF LM!LocalEvent
  <2> QED
    BY <1>4, <2>2, <2>3, <2>4
<1>6. ASSUME NEW a \in LNode, NEW b \in LNode, LM!Send(a, b)
      PROVE  LM!MutexInv' /\ LM!KeepsEntry
  <2>1. PICK v : v = LM!SendMessage(w, a, b)
    OBVIOUS
  <2>2. a # b /\ LM!Becomes(v) /\ UNCHANGED <<queue, acks>>
    BY <1>1, <1>6, <2>1 DEF LM!Send
  <2>3. Causal(v) /\ \A x \in LNode : v.counter[x] >= w.counter[x]
    BY <1>2, <2>1, <2>2, SendIsCausal
  <2> QED
    BY <1>4, <2>2, <2>3
<1>7. ASSUME NEW n \in LNode, LM!MutexRequest(n)
      PROVE  LM!MutexInv' /\ LM!KeepsEntry
  <2>1. PICK v : v = LM!Requested(w, n)
    OBVIOUS
  <2>2. /\ LM!Becomes(v)
        /\ queue' = queue \cup {<<clock[n] + 1, n>>}
        /\ acks' = [acks EXCEPT ![n] = LNode \ {n}]
    BY <1>1, <1>7, <2>1 DEF LM!MutexRequest
  <2>3. Causal(v) /\ \A x \in LNode : v.counter[x] >= w.counter[x]
        /\ v.counter[x] >= w.counter[n] + 1
    BY <1>2, <2>1, RequestedIsCausal
  <2>4. /\ Causal(LM!World)' /\ clock' \in [LNode -> Nat]
        /\ \A r \in queue : \A x \in LNode : r[1] =< clock'[x]
    BY <1>1, <2>2, <2>3, BecomesKeeps
  <2>5. clock[n] \in Nat /\ <<clock[n] + 1, n>> \in Nat \X LNode
    BY <1>2
  <2>6. ASSUME NEW x \in LNode PROVE clock[n] + 1 =< clock'[x]
    <3>1. clock' = v.counter
      BY <2>2 DEF LM!Becomes
    <3>2. clock'[x] \in Nat /\ clock'[x] >= clock[n] + 1
      BY <1>2, <2>3, <2>4, <3>1
    <3> QED
      BY <2>5, <3>2
  <2>7. /\ queue' \in SUBSET (Nat \X LNode)
        /\ \A r \in queue' : \A x \in LNode : r[1] =< clock'[x]
    BY <1>3, <2>2, <2>4, <2>5, <2>6
  <2>8. acks' \in [LNode -> SUBSET LNode]
    BY <1>3, <2>2
  <2>9. LM!MutexInv'
    BY <2>4, <2>7, <2>8 DEF Causal, LM!MutexInv, LM!RequestsKnown
  <2>10. ASSUME NEW m \in LNode, LM!CanEnter(m) PROVE LM!CanEnter(m)'
    <3>1. PICK r \in queue : r[2] = m /\ \A q \in queue \ {r} : LM!Before(r, q)
      BY <2>10 DEF LM!CanEnter
    <3>2. LM!Before(r, <<clock[n] + 1, n>>)
      <4>1. r[1] \in Nat /\ r[1] =< clock[n]
        BY <1>3
      <4>2. r[1] < clock[n] + 1
        BY <2>5, <4>1
      <4> QED
        BY <4>2 DEF LM!Before
    <3>3. r \in queue' /\ \A q \in queue' \ {r} : LM!Before(r, q)
      BY <2>2, <3>1, <3>2
    <3>4. LNode \ {m} \subseteq acks'[m]
      <4>1. LNode \ {m} \subseteq acks[m]
        BY <2>10 DEF LM!CanEnter
      <4> QED
        BY <1>3, <2>2, <4>1
    <3> QED
      BY <3>1, <3>3, <3>4 DEF LM!CanEnter, LM!Before
  <2> QED
    BY <2>9, <2>10 DEF LM!KeepsEntry
<1>8. ASSUME NEW n \in LNode, LM!MutexRelease(n)
      PROVE  LM!MutexInv' /\ LM!KeepsEntry
  <2>1. PICK v : v = LM!Released(w, n)
    OBVIOUS
  <2>2. /\ LM!Becomes(v)
        /\ queue' = {r \in queue : r[2] # n}
        /\ acks' = [acks EXCEPT ![n] = {}]
    BY <1>1, <1>8, <2>1 DEF LM!MutexRelease
  <2>3. Causal(v) /\ \A x \in LNode : v.counter[x] >= w.counter[x]
    BY <1>2, <2>1, ReleasedIsCausal
  <2>4. /\ Causal(LM!World)' /\ clock' \in [LNode -> Nat]
        /\ \A r \in queue : \A x \in LNode : r[1] =< clock'[x]
    BY <1>1, <2>2, <2>3, BecomesKeeps
  <2>5. /\ queue' \in SUBSET (Nat \X LNode)
        /\ \A r \in queue' : \A x \in LNode : r[1] =< clock'[x]
        /\ acks' \in [LNode -> SUBSET LNode]
    BY <1>3, <2>2, <2>4
  <2>6. LM!MutexInv'
    BY <2>4, <2>5 DEF Causal, LM!MutexInv, LM!RequestsKnown
  <2>7. ASSUME NEW m \in LNode, LM!CanEnter(m), m \in {r[2] : r \in queue'} PROVE LM!CanEnter(m)'
    <3>1. PICK r \in queue : r[2] = m /\ \A q \in queue \ {r} : LM!Before(r, q)
      BY <2>7 DEF LM!CanEnter
    <3>2. m # n
      BY <2>2, <2>7
    <3>3. r \in queue' /\ \A q \in queue' \ {r} : LM!Before(r, q)
      BY <2>2, <3>1, <3>2
    <3>4. LNode \ {m} \subseteq acks'[m]
      <4>1. LNode \ {m} \subseteq acks[m]
        BY <2>7 DEF LM!CanEnter
      <4> QED
        BY <1>3, <2>2, <3>2, <4>1
    <3> QED
      BY <3>1, <3>3, <3>4 DEF LM!CanEnter, LM!Before
  <2> QED
    BY <2>6, <2>7 DEF LM!KeepsEntry
<1> QED
  BY <1>5, <1>6, <1>7, <1>8 DEF LM!LamportNext

LEMMA CausalImpliesClock == LM!MutexInv => ClockCondition
<1> SUFFICES ASSUME LM!MutexInv,
                    NEW a \in LNode, NEW b \in LNode,
                    NEW i \in DOMAIN events[a], NEW j \in DOMAIN events[b],
                    LM!HappensBefore(a, i, b, j)
             PROVE  events[a][i].ts < events[b][j].ts
  BY DEF ClockCondition, LM!ClockCondition
<1>1. PICK w : w = LM!World
  OBVIOUS
<1>2. Causal(w) /\ w.events = events
  BY <1>1 DEF LM!MutexInv, Causal, LM!World
<1>3. events \in [LNode -> Seq(LM!EventType)]
  BY <1>2 DEF Causal, LM!Worlds
<1>4. /\ events[a] \in Seq(LM!EventType) /\ events[b] \in Seq(LM!EventType)
      /\ i \in 1..Len(events[a]) /\ j \in 1..Len(events[b])
      /\ Len(events[a]) \in Nat /\ Len(events[b]) \in Nat
  <2>1. events[a] \in Seq(LM!EventType) /\ events[b] \in Seq(LM!EventType)
    BY <1>3
  <2> QED
    BY <2>1
<1>5. events[b][j].reach[a] >= i /\ <<a, i>> # <<b, j>>
  BY DEF LM!HappensBefore
<1>6. \A n \in LNode : \A k \in 1..Len(events[n]) : \A l \in 1..(k - 1) :
        events[n][l].ts < events[n][k].ts
  BY <1>2 DEF Causal, LM!LogsOrdered
<1>7. CASE a = b
  <2>1. events[b][j].reach[b] = j
    BY <1>2, <1>4 DEF Causal, LM!ReachIsPast
  <2>2. i \in 1..(j - 1)
    BY <1>4, <1>5, <1>7, <2>1
  <2> QED
    BY <1>4, <1>6, <1>7, <2>2
<1>8. CASE a # b
  <2>1. PICK k : k = events[b][j].reach[a]
    OBVIOUS
  <2>2. k =< Len(events[a]) /\ (k # 0 => events[a][k].ts < events[b][j].ts)
    BY <1>2, <1>4, <1>8, <2>1 DEF Causal, LM!ReachIsPast
  <2>3. events[b][j] \in LM!EventType
    BY <1>4
  <2>4. k \in Nat /\ k >= i /\ events[b][j].ts \in Nat
    BY <1>5, <2>1, <2>3 DEF LM!EventType
  <2>5. k \in 1..Len(events[a]) /\ k # 0
    BY <1>4, <2>2, <2>4
  <2>6. events[a][k] \in LM!EventType /\ events[a][i] \in LM!EventType
    BY <1>4, <2>5
  <2>7. events[a][k].ts \in Nat /\ events[a][i].ts \in Nat
    BY <2>6 DEF LM!EventType
  <2>8. CASE k = i
    BY <2>2, <2>5, <2>8
  <2>9. CASE k # i
    <3>1. i \in 1..(k - 1)
      BY <1>4, <2>4, <2>9
    <3>2. events[a][i].ts < events[a][k].ts
      BY <1>6, <2>5, <3>1
    <3>3. events[a][k].ts < events[b][j].ts
      BY <2>2, <2>5
    <3> QED
      BY <2>4, <2>7, <3>2, <3>3
  <2> QED
    BY <2>8, <2>9
<1> QED
  BY <1>7, <1>8

LEMMA MutexExclusionStep ==
  ASSUME LM!MutexInv, [ExclusionNext]_exclusionVars
  PROVE  LM!MutexInv' /\ [LM!KeepsEntry]_mutexVars
<1>1. CASE LM!LamportNext
  BY <1>1, MutexStep
<1>2. CASE UNCHANGED mutexVars
  <2>1. LM!MutexInv'
    BY <1>2 DEF mutexVars, LM!MutexInv, LM!World, LM!RequestsKnown
  <2> QED
    BY <1>2, <2>1
<1>3. LM!LamportNext \/ UNCHANGED mutexVars
  BY DEF ExclusionNext, exclusionVars, mutexVars
<1> QED
  BY <1>1, <1>2, <1>3

LEMMA MutexInvariant == ExclusionSpec => []LM!MutexInv
<1>1. ExclusionInit => LM!MutexInv
  BY MutexInit DEF ExclusionInit
<1>2. LM!MutexInv /\ [ExclusionNext]_exclusionVars => LM!MutexInv'
  BY MutexExclusionStep
<1> QED
  BY <1>1, <1>2, PTL DEF ExclusionSpec

(* An event of lamport.py that happens before another, over parents and the *)
(* sending events of messages, has the smaller timestamp, for any number of *)
(* nodes and of calls, the broadcasts of the mutex among them.              *)
THEOREM ClocksRespectCausality == ExclusionSpec => []ClockCondition
BY MutexInvariant, CausalImpliesClock, PTL

(* LamportMutex: no call takes the right to enter from a node that has it,  *)
(* except the node's own release: the broadcast of a request moved every    *)
(* clock to its timestamp, so a later request comes after it.               *)
THEOREM NobodyOvertaken == ExclusionSpec => NoOvertaking
<1>1. LM!MutexInv /\ [ExclusionNext]_exclusionVars => [LM!KeepsEntry]_mutexVars
  BY MutexExclusionStep
<1> QED
  BY <1>1, MutexInvariant, PTL DEF ExclusionSpec, NoOvertaking
=============================================================================
