-------------------------------- MODULE Cache --------------------------------
(***************************************************************************)
(* asp::Cache<K, V> (include/asp/collections/Cache.hpp): a map that may    *)
(* have a largest size, with the entry used longest ago evicted, and a     *)
(* time to live, enforced by get and by a sweep from time to time.         *)
(*                                                                         *)
(* Time is the monotonic clock in whole ticks.  An operation reads it once *)
(* or twice (the sweep reads it again), so it is given the instants it     *)
(* sees; several operations may see the same one.  A value is known by the *)
(* instant of its insertion.                                               *)
(***************************************************************************)
EXTENDS Naturals, FiniteSets

CONSTANTS Keys,      \* the keys
          Spans,     \* the times to live and work intervals that are set
          Limits,    \* the largest sizes that are set
          LastTick   \* bound: where the clock stops

ASSUME CacheAssumption ==
    /\ IsFiniteSet(Keys)
    /\ Spans \subseteq Nat /\ Limits \subseteq Nat
    /\ LastTick \in Nat

VARIABLES storage,      \* m_storage: a function on the keys that are in it
          ttl,          \* m_ttl; zero is no time to live
          interval,     \* m_workInterval
          lastWork,     \* m_lastWork
          maxEntries,   \* m_maxEntries; zero is no largest size
          clock,        \* the monotonic clock
          last          \* history: the latest insert and use of each key in storage

cacheVars == <<storage, ttl, interval, lastWork, maxEntries, clock, last>>

Ticks == 0 .. LastTick
Entry == [insertedAt : Ticks, usedAt : Ticks]

CacheTypeOK ==
    /\ DOMAIN storage \subseteq Keys
    /\ \A k \in DOMAIN storage : storage[k] \in Entry
    /\ ttl \in Spans \cup {0} /\ interval \in Spans \cup {1}
    /\ lastWork \in Ticks /\ clock \in Ticks
    /\ maxEntries \in Limits \cup {0}
    /\ DOMAIN last = DOMAIN storage

Empty == [k \in {} |-> 0]

CacheInit ==
    /\ storage = Empty /\ last = Empty
    /\ ttl = 0 /\ interval = 1 /\ lastWork = 0 /\ maxEntries = 0
    /\ clock = 0

Size(s) == Cardinality(DOMAIN s)

Without(s, gone) == [k \in DOMAIN s \ gone |-> s[k]]

Assign(s, k, e) == [j \in DOMAIN s \cup {k} |-> IF j = k THEN e ELSE s[j]]

\* Past the time to live at the instant t.
Expired(e, t) == ttl # 0 /\ t - e.insertedAt > ttl

-----------------------------------------------------------------------------
(* The private functions.                                                  *)

\* Mistake: the entry inserted longest ago goes, not the one used longest ago.
EvictOldest(s) ==
    {Without(s, {k}) : k \in {x \in DOMAIN s : \A y \in DOMAIN s : s[x].insertedAt <= s[y].insertedAt}}

\* evictOne: an entry used longest ago; which of several, the map's order says.
EvictOne(s) ==
    {Without(s, {k}) : k \in {x \in DOMAIN s : \A y \in DOMAIN s : s[x].usedAt <= s[y].usedAt}}

\* doWork, if more than the interval has passed at `now`; it reads the
\* clock again.
WorkIsDue(now) == now - lastWork > interval

Swept(s, now, later) ==
    IF WorkIsDue(now) THEN Without(s, {k \in DOMAIN s : Expired(s[k], later)}) ELSE s

Worked(now, later) == lastWork' = IF WorkIsDue(now) THEN later ELSE lastWork

-----------------------------------------------------------------------------
(* The operations, with the instants they see.                             *)

Passes(now, later) == clock <= now /\ now <= later /\ clock' = later

Used(k, e) == last' = [j \in DOMAIN storage' |-> IF j = k THEN e ELSE last[j]]

\* Mistake: room is made only when the size is already above the limit.
InsertLate(k, now, later) ==
    /\ Passes(now, later)
    /\ \E s \in IF maxEntries > 0 /\ Size(storage) > maxEntries THEN EvictOne(storage) ELSE {storage} :
          storage' = Swept(Assign(s, k, [insertedAt |-> now, usedAt |-> now]), now, later)
    /\ Worked(now, later)
    /\ Used(k, [insertedAt |-> now, usedAt |-> now])
    /\ UNCHANGED <<ttl, interval, maxEntries>>

\* insert: a full map loses an entry first, even when the key is in it.
Insert(k, now, later) ==
    /\ Passes(now, later)
    /\ \E s \in IF maxEntries > 0 /\ Size(storage) >= maxEntries THEN EvictOne(storage) ELSE {storage} :
          storage' = Swept(Assign(s, k, [insertedAt |-> now, usedAt |-> now]), now, later)
    /\ Worked(now, later)
    /\ Used(k, [insertedAt |-> now, usedAt |-> now])
    /\ UNCHANGED <<ttl, interval, maxEntries>>

\* Mistake: a hit does not count as a use.
GetUnused(k, now, later) ==
    /\ Passes(now, later)
    /\ Worked(now, later)
    /\ LET s == Swept(storage, now, later)
       IN  IF k \in DOMAIN s /\ ~Expired(s[k], now)
           THEN /\ storage' = s
                /\ Used(k, [last[k] EXCEPT !.usedAt = now])
           ELSE /\ storage' = Without(s, {k})
                /\ last' = [j \in DOMAIN storage' |-> last[j]]
    /\ UNCHANGED <<ttl, interval, maxEntries>>

\* get: the sweep, the look-up, and the entry's own time to live; a hit is a use.
Get(k, now, later) ==
    /\ Passes(now, later)
    /\ Worked(now, later)
    /\ LET s == Swept(storage, now, later)
       IN  IF k \in DOMAIN s /\ ~Expired(s[k], now)
           THEN /\ storage' = [s EXCEPT ![k].usedAt = now]
                /\ Used(k, [last[k] EXCEPT !.usedAt = now])
           ELSE /\ storage' = Without(s, {k})
                /\ last' = [j \in DOMAIN storage' |-> last[j]]
    /\ UNCHANGED <<ttl, interval, maxEntries>>

SetMaxEntries(m) ==
    /\ maxEntries' = m
    /\ UNCHANGED <<storage, ttl, interval, lastWork, clock, last>>

SetTimeToLive(d) ==
    /\ ttl' = d
    /\ UNCHANGED <<storage, interval, lastWork, maxEntries, clock, last>>

SetWorkInterval(d) ==
    /\ interval' = d
    /\ UNCHANGED <<storage, ttl, lastWork, maxEntries, clock, last>>

CacheNext ==
    \/ \E k \in Keys, now, later \in Ticks : Insert(k, now, later) \/ Get(k, now, later)
    \/ \E m \in Limits : SetMaxEntries(m)
    \/ \E d \in Spans : SetTimeToLive(d) \/ SetWorkInterval(d)

-----------------------------------------------------------------------------
(* What a cache promises.                                                  *)

\* With a largest size set, the map grows only up to it (a map that is
\* larger because the limit came later does not grow at all).
GrowsWithinLimit ==
    [][Size(storage') > Size(storage) /\ maxEntries > 0
       => Size(storage') <= maxEntries]_cacheVars

\* An entry leaves for one of two reasons: its time to live is over, by the
\* clock that was read; or the map was full and no other entry's latest
\* insert or use was longer ago (Cache.hpp:8, "evicted using the LRU
\* policy").
LeavesOnlyWhenDue ==
    [][\A k \in DOMAIN storage \ DOMAIN storage' :
          \/ Expired(last[k], clock')
          \/ /\ maxEntries > 0 /\ Size(storage) >= maxEntries
             /\ \A j \in DOMAIN storage : last[k].usedAt <= last[j].usedAt]_cacheVars

=============================================================================
