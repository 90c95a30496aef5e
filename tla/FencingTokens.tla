---------------------------- MODULE FencingTokens ----------------------------
(***************************************************************************)
(* fencing-tokens/fencing_tokens.py: LockService, Client and               *)
(* FencedResourceServer.                                                   *)
(*                                                                         *)
(* A FencingToken is one object shared by the lock service and the client  *)
(* it was issued to, so a renewal changes the expiry both of them see:     *)
(* tokens are records named by their number, and the service and clients   *)
(* hold numbers.  Callers pass the time; all use one clock, `now`.  A call *)
(* that passes no time, or a time a paused client read long ago, does not  *)
(* notice an expiry: such calls have checked = FALSE.                      *)
(***************************************************************************)
EXTENDS Naturals

CONSTANTS Client, Lock, Resource,
          Ttl,        \* lifetimes that callers ask for
          MaxToken,   \* bound: tokens issued
          MaxTime     \* bound: the clock stops here

ASSUME TtlAssumption == Ttl \subseteq Nat
ASSUME BoundAssumption == MaxToken \in Nat /\ MaxTime \in Nat

NoToken == 0

VARIABLES
  now,                \* the callers' clock
  counter,            \* LockService._counter
  token,              \* every FencingToken issued, by number
  locks,              \* LockService._locks
  held,               \* Client._held_tokens
  highest,            \* FencedResourceServer._highest_token
  writtenBy           \* _data: the client whose write each resource shows

vars == <<now, counter, token, locks, held, highest, writtenBy>>

Token == [lock : Lock, client : Client, expires : Nat]
Issued == 1..(counter - 1)

Init ==
  /\ now = 0
  /\ counter = 1
  /\ token = << >>
  /\ locks = [l \in Lock |-> NoToken]
  /\ held = [c \in Client |-> [l \in Lock |-> NoToken]]
  /\ highest = [r \in Resource |-> NoToken]
  /\ writtenBy = [r \in Resource |-> {}]

\* FencingToken.is_expired
Expired(n) == now >= token[n].expires

\* LockService: the lock's entry names client c
IsHolder(l, c) == locks[l] # NoToken /\ token[locks[l]].client = c

-----------------------------------------------------------------------------
(* LockService.acquire and Client.acquire_lock.                            *)

Busy_Never(l, c) == FALSE
Busy(l, c) == locks[l] # NoToken /\ ~Expired(locks[l]) /\ ~IsHolder(l, c)

\* _counter += 1
NextCounter == counter + 1

Acquire(c, l, ttl) ==
  /\ counter =< MaxToken
  /\ ~Busy(l, c)
  /\ token' = [n \in 1..counter |->
       IF n = counter THEN [lock |-> l, client |-> c, expires |-> now + ttl]
                      ELSE token[n]]
  /\ counter' = NextCounter
  /\ locks' = [locks EXCEPT ![l] = counter]
  /\ held' = [held EXCEPT ![c][l] = counter]
  /\ UNCHANGED <<now, highest, writtenBy>>

\* LockService.release and Client.release_lock.  A client that has already
\* dropped its expired token raises KeyError after the service released the
\* lock; the state it leaves is the same.
ReleaseLock(c, l) ==
  /\ IsHolder(l, c)
  /\ locks' = [locks EXCEPT ![l] = NoToken]
  /\ held' = [held EXCEPT ![c][l] = NoToken]
  /\ UNCHANGED <<now, counter, token, highest, writtenBy>>

\* LockService.renew
MayRenew(c, l) == IsHolder(l, c) /\ ~Expired(locks[l])

Renew(c, l, ttl) ==
  /\ MayRenew(c, l)
  /\ token' = [token EXCEPT ![locks[l]].expires = now + ttl]
  /\ UNCHANGED <<now, counter, locks, held, highest, writtenBy>>

-----------------------------------------------------------------------------
(* Client.get_token and write_to_resource.                                 *)

\* Both drop a token that they find expired
DropExpired(c, l) ==
  /\ held[c][l] # NoToken
  /\ Expired(held[c][l])
  /\ held' = [held EXCEPT ![c][l] = NoToken]
  /\ UNCHANGED <<now, counter, token, locks, highest, writtenBy>>

\* FencedResourceServer.write refuses a token lower than the highest seen
Accepts_Any(r, n) == TRUE
Accepts(r, n) == n >= highest[r]

Write(c, r, l, checked) ==
  /\ held[c][l] # NoToken
  /\ checked => ~Expired(held[c][l])
  /\ Accepts(r, held[c][l])
  /\ highest' = [highest EXCEPT ![r] = held[c][l]]
  /\ writtenBy' = [writtenBy EXCEPT ![r] = {c}]
  /\ UNCHANGED <<now, counter, token, locks, held>>

Tick ==
  /\ now < MaxTime
  /\ now' = now + 1
  /\ UNCHANGED <<counter, token, locks, held, highest, writtenBy>>

Next ==
  \/ \E c \in Client, l \in Lock, ttl \in Ttl : Acquire(c, l, ttl)
  \/ \E c \in Client, l \in Lock : ReleaseLock(c, l)
  \/ \E c \in Client, l \in Lock, ttl \in Ttl : Renew(c, l, ttl)
  \/ \E c \in Client, l \in Lock : DropExpired(c, l)
  \/ \E c \in Client, r \in Resource, l \in Lock, checked \in BOOLEAN :
       Write(c, r, l, checked)
  \/ Tick

Spec == Init /\ [][Next]_vars

-----------------------------------------------------------------------------
(* Properties.                                                             *)

\* Only issued tokens are in the lock table, with clients and at resources.
TypeOK ==
  /\ now \in Nat
  /\ counter \in Nat \ {0}
  /\ token \in [Issued -> Token]
  /\ locks \in [Lock -> Issued \cup {NoToken}]
  /\ held \in [Client -> [Lock -> Issued \cup {NoToken}]]
  /\ highest \in [Resource -> Issued \cup {NoToken}]
  /\ writtenBy \in [Resource -> SUBSET Client]

\* A client that believes it holds a lock, and whose token has not expired,
\* is the only one: another client gets the lock only after that expiry or a
\* release, and a renewal extends a token only while it is the current one.
MutualExclusion ==
  \A c, d \in Client, l \in Lock :
    (/\ held[c][l] # NoToken /\ ~Expired(held[c][l])
     /\ held[d][l] # NoToken /\ ~Expired(held[d][l])) => c = d

\* The inductive invariant behind MutualExclusion: tokens name the client and
\* lock they were issued for, and a live token is its lock's current one.
LiveTokenIsCurrent ==
  /\ \A l \in Lock : locks[l] # NoToken => token[locks[l]].lock = l
  /\ \A c \in Client, l \in Lock : held[c][l] # NoToken =>
       /\ token[held[c][l]].client = c
       /\ token[held[c][l]].lock = l
       /\ ~Expired(held[c][l]) => locks[l] = held[c][l]

\* A resource never goes back to a client whose token is older: what it shows
\* was written with the highest token it accepted, and a write with a lower
\* token leaves it unchanged, even when the writer was paused past its expiry.
FencedOrder ==
  [][\A r \in Resource :
       /\ highest'[r] >= highest[r]
       /\ writtenBy'[r] # writtenBy[r] =>
            writtenBy'[r] = {token[highest'[r]].client}]_vars
=============================================================================
