------------------------------ MODULE KeyCache ------------------------------
(***************************************************************************)
(* The signing keys of the identity provider (auth/cognito.py): threads    *)
(* verify tokens against a locked cache of keys, refreshed by the thread   *)
(* that needs it, never more often than a limit allows, while the provider *)
(* rotates its keys, answers late or not at all.                           *)
(***************************************************************************)
EXTENDS Integers, FiniteSets

CONSTANTS
  SigningKeys,
  NoKey,
  Lifetime,      \* a fetched set is used this long (300 s)
  RefreshEvery,  \* refreshes are this far apart (30 s)
  FetchTime,     \* the longest fetch (its total time limit)
  MaxClock       \* bound: ticks of the monotonic clock

ASSUME KeyCacheAssumption ==
  /\ NoKey \notin SigningKeys
  /\ {Lifetime, RefreshEvery, FetchTime, MaxClock} \subseteq Nat
  /\ RefreshEvery > 0 /\ Lifetime > 0

VARIABLES
  clock,
  published,     \* the keys the provider signs with
  lastPublished, \* when each key was last among them
  cache,         \* _keys, _expires, _refresh_after and _unavailable
  fetch,         \* the thread inside the lock: the key it looks for, its start, what it read
  accepted       \* a key that a token was verified with, and when

keyVars == <<clock, published, lastPublished, cache, fetch, accepted>>

\* Before any instant of the clock.
Never == -1000

NoFetch == [kid |-> NoKey, started |-> 0, document |-> {}]

InitKeys ==
  /\ clock = 0
  /\ published \in {{k} : k \in SigningKeys}
  /\ lastPublished = [k \in SigningKeys |-> IF k \in published THEN 0 ELSE Never]
  /\ cache = [keys |-> {}, expires |-> Never, refreshAfter |-> Never, unavailable |-> FALSE]
  /\ fetch = NoFetch
  /\ accepted = [kid |-> NoKey, at |-> 0]

\* The answer to a token that asks for a key; refusals leave nothing behind.
Accept(kid) == accepted' = [kid |-> kid, at |-> clock]

\* What _key() returns or raises after it has tried to refresh.
Answer(kid, c) ==
  IF ~c.unavailable /\ clock < c.expires /\ kid \in c.keys THEN Accept(kid)
  ELSE UNCHANGED accepted

\* A token whose key is cached, or for which no refresh is due yet.
Lookup(kid) ==
  /\ fetch = NoFetch
  /\ IF clock < cache.expires /\ kid \in cache.keys THEN Accept(kid)
     ELSE clock < cache.refreshAfter /\ Answer(kid, cache)
  /\ UNCHANGED <<clock, published, lastPublished, cache, fetch>>

\* The limit is set before the provider is asked, so that failures count as well.
BeginFetch(kid) ==
  /\ fetch = NoFetch
  /\ ~(clock < cache.expires /\ kid \in cache.keys)
  /\ clock >= cache.refreshAfter
  /\ cache' = [cache EXCEPT !.refreshAfter = clock + RefreshEvery]
  /\ fetch' = [kid |-> kid, started |-> clock, document |-> {}]
  /\ UNCHANGED <<clock, published, lastPublished, accepted>>

\* External: the provider writes its answer.
Respond ==
  /\ fetch # NoFetch /\ fetch.document = {}
  /\ fetch' = [fetch EXCEPT !.document = published]
  /\ UNCHANGED <<clock, published, lastPublished, cache, accepted>>

\* The slip of counting the lifetime from the end of the fetch.
ExpiryFromEnd(started) == clock + Lifetime

Expiry(started) == started + Lifetime

\* The answer is read whole and its shape is right, or the fetch has failed.
EndFetch ==
  /\ fetch # NoFetch
  /\ \/ /\ fetch.document # {}
        /\ cache' = [cache EXCEPT !.keys = fetch.document, !.expires = Expiry(fetch.started),
                                  !.unavailable = FALSE]
     \/ cache' = [cache EXCEPT !.unavailable = TRUE]
  /\ Answer(fetch.kid, cache')
  /\ fetch' = NoFetch
  /\ UNCHANGED <<clock, published, lastPublished>>

\* External: the provider signs with other keys from now on.
Rotate ==
  /\ \E ks \in SUBSET SigningKeys \ {{}} :
       /\ published' = ks
       /\ lastPublished' = [k \in SigningKeys |-> IF k \in ks THEN clock ELSE lastPublished[k]]
  /\ UNCHANGED <<clock, cache, fetch, accepted>>

TickKeys ==
  /\ clock < MaxClock
  /\ fetch # NoFetch => clock < fetch.started + FetchTime
  /\ clock' = clock + 1
  /\ lastPublished' = [k \in SigningKeys |-> IF k \in published THEN clock' ELSE lastPublished[k]]
  /\ UNCHANGED <<published, cache, fetch, accepted>>

NextKeys ==
  \/ \E kid \in SigningKeys : Lookup(kid) \/ BeginFetch(kid)
  \/ Respond \/ EndFetch \/ Rotate \/ TickKeys

-----------------------------------------------------------------------------

\* A key that the provider has withdrawn verifies no token any more once the lifetime of a
\* fetched set is over, however long the fetch that brought it took and however the provider
\* fails afterwards (auth/cognito.py:78-131).
RetiredKeysLapse ==
  accepted.kid # NoKey => accepted.at - lastPublished[accepted.kid] < Lifetime
=============================================================================
