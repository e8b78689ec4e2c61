--------------------------- MODULE Components_proofs ---------------------------
(***************************************************************************)
(* Theorems about the components that share nothing with one another, each *)
(* as a machine of its own.                                                *)
(***************************************************************************)
EXTENDS Files, Strings, Cache, SmallVec, Numbers_proofs

-----------------------------------------------------------------------------
(* The cache.                                                              *)

CacheSpec == CacheInit /\ [][CacheNext]_cacheVars

\* What the entries say of themselves is what happened to them, and none was
\* inserted in the future.
CacheInv ==
    /\ CacheTypeOK
    /\ storage \in [DOMAIN storage -> Entry]
    /\ last = storage
    /\ \A k \in DOMAIN storage : storage[k].insertedAt <= clock

\* A sweep removes only what is past its time to live by the clock it reads:
\* the keys that it removes.
SweptKeys(s, now, later) ==
    IF WorkIsDue(now) THEN {k \in DOMAIN s : Expired(s[k], later)} ELSE {}

\* What an insertion does: perhaps an entry is evicted, `out`, the new one is
\* there, and perhaps a sweep follows, which removes `gone`.
InsertDoes(k, now, later, out, gone) ==
    /\ maxEntries > 0 /\ Size(storage) >= maxEntries => \E x \in DOMAIN storage : out = {x}
    /\ \A x \in out :
          /\ maxEntries > 0 /\ Size(storage) >= maxEntries
          /\ \A y \in DOMAIN storage : storage[x].usedAt <= storage[y].usedAt
    /\ \A j \in gone : j # k => Expired(storage[j], later)
    /\ k \in gone => ttl # 0 /\ later - now > ttl
    /\ DOMAIN storage' = ((DOMAIN storage \ out) \cup {k}) \ gone
    /\ storage' \in [DOMAIN storage' -> Entry]
    /\ \A j \in DOMAIN storage' :
          storage'[j] = IF j = k THEN [insertedAt |-> now, usedAt |-> now] ELSE storage[j]

\* The step Insert does what InsertDoes says, with some entry evicted or none.
LEMMA InsertEffect ==
    ASSUME CacheInv, NEW k \in Keys, NEW now \in Ticks, NEW later \in Ticks,
           Insert(k, now, later)
    PROVE  \E out \in SUBSET DOMAIN storage, gone \in SUBSET Keys :
              InsertDoes(k, now, later, out, gone)
<1> DEFINE keys == DOMAIN storage
           e == [insertedAt |-> now, usedAt |-> now]
<1>1. e \in Entry
  BY DEF Entry
<1>2. PICK out, s :
        /\ out \in SUBSET keys
        /\ maxEntries > 0 /\ Size(storage) >= maxEntries => \E x \in keys : out = {x}
        /\ \A x \in out :
              /\ maxEntries > 0 /\ Size(storage) >= maxEntries
              /\ \A y \in keys : storage[x].usedAt <= storage[y].usedAt
        /\ s \in [keys \ out -> Entry]
        /\ \A j \in keys \ out : s[j] = storage[j]
        /\ storage' = Swept(Assign(s, k, e), now, later)
  <2>1. CASE maxEntries > 0 /\ Size(storage) >= maxEntries
    <3>1. PICK s \in EvictOne(storage) : storage' = Swept(Assign(s, k, e), now, later)
      BY <2>1 DEF Insert
    <3>2. PICK x \in keys : /\ s = Without(storage, {x})
                         /\ \A y \in keys : storage[x].usedAt <= storage[y].usedAt
      BY <3>1 DEF EvictOne
    <3>3. /\ s \in [keys \ {x} -> Entry]
          /\ \A j \in keys \ {x} : s[j] = storage[j]
      BY <3>2 DEF CacheInv, Without
    <3> QED
      BY <2>1, <3>1, <3>2, <3>3
  <2>2. CASE ~(maxEntries > 0 /\ Size(storage) >= maxEntries)
    <3>1. storage' = Swept(Assign(storage, k, e), now, later)
      BY <2>2 DEF Insert
    <3>2. storage \in [keys \ {} -> Entry]
      BY DEF CacheInv
    <3>3. {} \in SUBSET keys /\ keys \ {} = keys /\ \A x \in {} : FALSE
      OBVIOUS
    <3> WITNESS {}, storage
    <3> QED
      BY <2>2, <3>1, <3>2, <3>3
  <2> QED
    BY <2>1, <2>2
<1> DEFINE a == Assign(s, k, e)
           A == (keys \ out) \cup {k}
<1>3. /\ a \in [A -> Entry]
      /\ a[k] = e
      /\ \A j \in (keys \ out) \ {k} : a[j] = s[j]
  BY <1>1, <1>2 DEF Assign
<1> HIDE DEF a
<1>4. PICK gone \in SUBSET A :
        /\ \A j \in gone : Expired(a[j], later)
        /\ storage' \in [A \ gone -> Entry]
        /\ \A j \in A \ gone : storage'[j] = a[j]
  <2>1. storage' = Swept(a, now, later)
    BY <1>2 DEF a
  <2>2. a \in [A -> Entry] /\ DOMAIN a = A
    BY <1>3
  <2> DEFINE gone == SweptKeys(a, now, later)
  <2>3. storage' = [j \in A \ gone |-> a[j]]
    <3>1. CASE WorkIsDue(now)
      BY <3>1, <2>1, <2>2 DEF Swept, SweptKeys, Without
    <3>2. CASE ~WorkIsDue(now)
      <4>1. A \ gone = A
        BY <3>2 DEF SweptKeys
      <4> QED
        BY <3>2, <4>1, <2>1, <2>2 DEF Swept
    <3> QED
      BY <3>1, <3>2
  <2>4. gone \in SUBSET A /\ \A j \in gone : Expired(a[j], later)
    BY <2>2 DEF SweptKeys
  <2> HIDE DEF gone
  <2> QED
    BY <2>2, <2>3, <2>4
<1>5. gone \in SUBSET Keys
  BY <1>4 DEF CacheInv, CacheTypeOK
<1>6. DOMAIN storage' = A \ gone
  BY <1>4
<1>7. k \in gone => ttl # 0 /\ later - now > ttl
  BY <1>3, <1>4 DEF Expired
<1>8. \A j \in gone : j # k => Expired(storage[j], later)
  BY <1>2, <1>3, <1>4
<1>9. \A j \in A \ gone : storage'[j] = IF j = k THEN e ELSE storage[j]
  BY <1>2, <1>3, <1>4
<1>10. storage' \in [DOMAIN storage' -> Entry]
  BY <1>4, <1>6
<1> QED
  BY <1>2, <1>5, <1>6, <1>7, <1>8, <1>9, <1>10 DEF InsertDoes

\* What a look-up does: perhaps a sweep, and then a hit is a use and an entry
\* that is past its time to live goes.
LEMMA GetEffect ==
    ASSUME CacheInv, NEW k \in Keys, NEW now \in Ticks, NEW later \in Ticks,
           Get(k, now, later)
    PROVE  \E gone \in SUBSET DOMAIN storage :
              /\ \A j \in gone : Expired(storage[j], later) \/ (j = k /\ Expired(storage[j], now))
              /\ DOMAIN storage' = DOMAIN storage \ gone
              /\ storage' \in [DOMAIN storage' -> Entry]
              /\ last' = storage'
              /\ \A j \in DOMAIN storage' :
                    /\ storage'[j].insertedAt = storage[j].insertedAt
                    /\ j # k => storage'[j] = storage[j]
<1> DEFINE keys == DOMAIN storage
           s == Swept(storage, now, later)
           swept == SweptKeys(storage, now, later)
<1>1. storage \in [keys -> Entry] /\ last = storage
  BY DEF CacheInv
<1>2. swept \in SUBSET keys /\ \A j \in swept : Expired(storage[j], later)
  BY DEF SweptKeys
<1>3. s = [j \in keys \ swept |-> storage[j]]
  <2>1. CASE WorkIsDue(now)
    BY <2>1, <1>1 DEF Swept, SweptKeys, Without
  <2>2. CASE ~WorkIsDue(now)
    <3>1. keys \ swept = keys
      BY <2>2 DEF SweptKeys
    <3> QED
      BY <2>2, <3>1, <1>1 DEF Swept
  <2> QED
    BY <2>1, <2>2
<1>4. CASE k \in DOMAIN s /\ ~Expired(s[k], now)
  <2>1. storage' = [s EXCEPT ![k].usedAt = now]
    BY <1>4 DEF Get
  <2>2. last' = [j \in DOMAIN storage' |-> IF j = k THEN [last[k] EXCEPT !.usedAt = now] ELSE last[j]]
    BY <1>4 DEF Get, Used
  <2>3. PICK e : e = [storage[k] EXCEPT !.usedAt = now]
    OBVIOUS
  <2>4. k \in keys \ swept /\ s[k] = storage[k]
    BY <1>3, <1>4
  <2>5. e \in Entry /\ e.insertedAt = storage[k].insertedAt
    <3>1. storage[k] \in Entry
      BY <1>1, <2>4
    <3> QED
      BY <2>3, <3>1 DEF Entry
  <2>6. storage' = [s EXCEPT ![k] = e]
    BY <2>1, <2>3, <2>4
  <2> HIDE DEF s, swept
  <2>7. storage' = [j \in keys \ swept |-> IF j = k THEN e ELSE storage[j]]
    BY <1>3, <2>4, <2>6
  <2>8. last' = [j \in keys \ swept |-> IF j = k THEN e ELSE storage[j]]
    BY <1>1, <2>2, <2>3, <2>7
  <2> QED
    BY <1>1, <1>2, <2>5, <2>7, <2>8
<1>5. CASE ~(k \in DOMAIN s /\ ~Expired(s[k], now))
  <2> DEFINE gone == swept \cup {j \in keys \ swept : j = k}
  <2>1. storage' = Without(s, {k}) /\ last' = [j \in DOMAIN storage' |-> last[j]]
    BY <1>5 DEF Get
  <2>2. gone \in SUBSET keys
    BY <1>2
  <2>3. \A j \in gone : Expired(storage[j], later) \/ (j = k /\ Expired(storage[j], now))
    BY <1>2, <1>3, <1>5
  <2> HIDE DEF s
  <2>4. storage' = [j \in (keys \ swept) \ {k} |-> storage[j]]
    BY <1>3, <2>1 DEF Without
  <2>5. (keys \ swept) \ {k} = keys \ gone
    OBVIOUS
  <2>6. storage' = [j \in keys \ gone |-> storage[j]]
    BY <2>4, <2>5
  <2> HIDE DEF gone
  <2> QED
    BY <1>1, <2>1, <2>2, <2>3, <2>6
<1> QED
  BY <1>4, <1>5

\* The clock only goes forward.
LEMMA Forward ==
    ASSUME CacheInv, NEW now \in Ticks, NEW later \in Ticks, Passes(now, later)
    PROVE  /\ clock \in Nat /\ now \in Nat /\ later \in Nat
           /\ clock <= now /\ now <= later /\ clock' = later
  BY CacheAssumption DEF CacheInv, CacheTypeOK, Ticks, Passes

\* Every step of the cache keeps its invariant.
LEMMA CacheInvKept == CacheInv /\ [CacheNext]_cacheVars => CacheInv'
<1> SUFFICES ASSUME CacheInv, [CacheNext]_cacheVars PROVE CacheInv'
  OBVIOUS
<1>1. ASSUME NEW k \in Keys, NEW now \in Ticks, NEW later \in Ticks, Insert(k, now, later)
      PROVE  CacheInv'
  <2> DEFINE e == [insertedAt |-> now, usedAt |-> now]
  <2>1. PICK out \in SUBSET DOMAIN storage, gone \in SUBSET Keys :
          InsertDoes(k, now, later, out, gone)
    BY <1>1, InsertEffect
  <2>2. last' = [j \in DOMAIN storage' |-> IF j = k THEN e ELSE storage[j]]
    BY <1>1 DEF Insert, Used, CacheInv
  <2>3. last' = storage'
    BY <2>1, <2>2 DEF InsertDoes
  <2>4. Passes(now, later)
    BY <1>1 DEF Insert
  <2>5. \A j \in DOMAIN storage' : storage'[j].insertedAt <= clock'
    <3>1. TAKE j \in DOMAIN storage'
    <3>2. CASE j = k
      BY <2>1, <2>4, <3>2, Forward DEF InsertDoes
    <3>3. CASE j # k
      <4>1. j \in DOMAIN storage /\ storage'[j] = storage[j]
        BY <2>1, <3>3 DEF InsertDoes
      <4>2. storage[j] \in Entry /\ storage[j].insertedAt <= clock
        BY <4>1 DEF CacheInv
      <4>3. storage[j].insertedAt \in Nat
        BY <4>2, CacheAssumption DEF Entry, Ticks
      <4> QED
        BY <2>4, <4>1, <4>2, <4>3, Forward
    <3> QED
      BY <3>2, <3>3
  <2>6. lastWork' \in Ticks /\ clock' \in Ticks /\ UNCHANGED <<ttl, interval, maxEntries>>
    BY <1>1 DEF Insert, Worked, Passes, CacheInv, CacheTypeOK
  <2>7. DOMAIN storage' \subseteq Keys
    BY <2>1 DEF InsertDoes, CacheInv, CacheTypeOK
  <2> QED
    BY <2>1, <2>3, <2>5, <2>6, <2>7 DEF InsertDoes, CacheInv, CacheTypeOK
<1>2. ASSUME NEW k \in Keys, NEW now \in Ticks, NEW later \in Ticks, Get(k, now, later)
      PROVE  CacheInv'
  <2>1. PICK gone \in SUBSET DOMAIN storage :
          /\ DOMAIN storage' = DOMAIN storage \ gone
          /\ storage' \in [DOMAIN storage' -> Entry]
          /\ last' = storage'
          /\ \A j \in DOMAIN storage' : storage'[j].insertedAt = storage[j].insertedAt
    BY <1>2, GetEffect
  <2>2. Passes(now, later)
    BY <1>2 DEF Get
  <2>3. \A j \in DOMAIN storage' : storage'[j].insertedAt <= clock'
    <3>1. TAKE j \in DOMAIN storage'
    <3>2. storage[j] \in Entry /\ storage[j].insertedAt <= clock
      BY <2>1 DEF CacheInv
    <3>3. storage[j].insertedAt \in Nat
      BY <3>2, CacheAssumption DEF Entry, Ticks
    <3> QED
      BY <2>1, <2>2, <3>2, <3>3, Forward
  <2>4. lastWork' \in Ticks /\ clock' \in Ticks /\ UNCHANGED <<ttl, interval, maxEntries>>
    BY <1>2 DEF Get, Worked, Passes, CacheInv, CacheTypeOK
  <2>5. DOMAIN storage' \subseteq Keys
    BY <2>1 DEF CacheInv, CacheTypeOK
  <2> QED
    BY <2>1, <2>3, <2>4, <2>5 DEF CacheInv, CacheTypeOK
<1>3. ASSUME NEW m \in Limits, SetMaxEntries(m) PROVE CacheInv'
  BY <1>3 DEF SetMaxEntries, CacheInv, CacheTypeOK
<1>4. ASSUME NEW d \in Spans, SetTimeToLive(d) \/ SetWorkInterval(d) PROVE CacheInv'
  BY <1>4 DEF SetTimeToLive, SetWorkInterval, CacheInv, CacheTypeOK
<1>5. CASE UNCHANGED cacheVars
  BY <1>5 DEF cacheVars, CacheInv, CacheTypeOK
<1> QED
  BY <1>1, <1>2, <1>3, <1>4, <1>5 DEF CacheNext

\* The cache is well typed, and its entries say when they were inserted and
\* used (Cache.hpp 14-106).
THEOREM CacheCorrect == CacheSpec => []CacheInv
<1>1. CacheInit => CacheInv
  BY CacheAssumption DEF CacheInit, CacheInv, CacheTypeOK, Empty, Ticks
<1> QED
  BY <1>1, CacheInvKept, PTL DEF CacheSpec

\* The entries of the cache can be counted.
LEMMA EntriesFinite ==
    ASSUME CacheInv
    PROVE  /\ IsFiniteSet(DOMAIN storage) /\ Size(storage) \in Nat
           /\ maxEntries \in Nat
<1>1. IsFiniteSet(DOMAIN storage)
  BY CacheAssumption, FS_Subset DEF CacheInv, CacheTypeOK
<1>2. maxEntries \in Nat
  BY CacheAssumption DEF CacheInv, CacheTypeOK
<1> QED
  BY <1>1, <1>2, FS_CardinalityType DEF Size

\* With a largest size set, no operation makes the map grow beyond it
\* (Cache.hpp 27-30).
THEOREM GrowthBounded == CacheSpec => GrowsWithinLimit
<1> DEFINE WithinLimit == Size(storage') > Size(storage) /\ maxEntries > 0
                         => Size(storage') <= maxEntries
<1>1. ASSUME CacheInv, NEW k \in Keys, NEW now \in Ticks, NEW later \in Ticks,
             Insert(k, now, later), Size(storage') > Size(storage), maxEntries > 0
      PROVE  Size(storage') <= maxEntries
  <2>1. PICK out \in SUBSET DOMAIN storage, gone \in SUBSET Keys :
          InsertDoes(k, now, later, out, gone)
    BY <1>1, InsertEffect
  <2> DEFINE keys == DOMAIN storage
             rest == keys \ out
             all == rest \cup {k}
  <2>2. IsFiniteSet(keys) /\ Cardinality(keys) \in Nat /\ Size(storage) = Cardinality(keys)
    BY <1>1, EntriesFinite DEF Size
  <2>3. IsFiniteSet(rest) /\ Cardinality(rest) \in Nat /\ Cardinality(rest) <= Cardinality(keys)
    BY <2>2, FS_Subset, FS_CardinalityType
  <2>4. IsFiniteSet(all) /\ Cardinality(all) \in Nat /\ Cardinality(all) <= Cardinality(rest) + 1
    <3>1. CASE k \in rest
      <4>1. all = rest
        BY <3>1
      <4> HIDE DEF all, rest
      <4> QED
        BY <2>3, <4>1
    <3>2. CASE k \notin rest
      <4>1. IsFiniteSet(all) /\ Cardinality(all) = Cardinality(rest) + 1
        BY <2>3, <3>2, FS_AddElement
      <4> QED
        BY <2>3, <4>1
    <3> QED
      BY <3>1, <3>2
  <2>5. Size(storage') \in Nat /\ Size(storage') <= Cardinality(all)
    <3>1. DOMAIN storage' \subseteq all
      BY <2>1 DEF InsertDoes
    <3> QED
      BY <2>4, <3>1, FS_Subset, FS_CardinalityType DEF Size
  <2>6. Size(storage) < maxEntries
    <3>1. SUFFICES ASSUME Size(storage) >= maxEntries PROVE FALSE
      BY <1>1, EntriesFinite
    <3>2. PICK x \in keys : out = {x}
      BY <1>1, <2>1, <3>1 DEF InsertDoes
    <3>3. Cardinality(rest) = Cardinality(keys) - 1
      BY <2>2, <3>2, FS_RemoveElement
    <3> QED
      BY <1>1, <2>2, <2>3, <2>4, <2>5, <3>3
  <2> QED
    BY <1>1, <2>2, <2>3, <2>4, <2>5, <2>6, EntriesFinite
<1>2. ASSUME CacheInv, NEW k \in Keys, NEW now \in Ticks, NEW later \in Ticks,
             Get(k, now, later)
      PROVE  ~(Size(storage') > Size(storage))
  <2>1. DOMAIN storage' \subseteq DOMAIN storage
    BY <1>2, GetEffect
  <2>2. Size(storage') \in Nat /\ Size(storage') <= Size(storage)
    BY <1>2, <2>1, EntriesFinite, FS_Subset, FS_CardinalityType DEF Size
  <2> QED
    BY <1>2, <2>2, EntriesFinite
<1>3. ASSUME CacheInv, UNCHANGED storage
      PROVE  ~(Size(storage') > Size(storage))
  BY <1>3, EntriesFinite DEF Size
<1>4. CacheInv /\ [CacheNext]_cacheVars => [WithinLimit]_cacheVars
  <2> SUFFICES ASSUME CacheInv, CacheNext PROVE WithinLimit
    OBVIOUS
  <2>1. CASE \E k \in Keys, now, later \in Ticks : Insert(k, now, later)
    BY <1>1, <2>1
  <2>2. CASE \E k \in Keys, now, later \in Ticks : Get(k, now, later)
    BY <1>2, <2>2
  <2>3. CASE UNCHANGED storage
    BY <1>3, <2>3
  <2> QED
    BY <2>1, <2>2, <2>3 DEF CacheNext, SetMaxEntries, SetTimeToLive, SetWorkInterval
<1> QED
  BY <1>4, CacheCorrect, PTL DEF CacheSpec, GrowsWithinLimit

\* An entry leaves only because its time to live is over or because the map
\* was full and no other entry was used longer ago (Cache.hpp 8, 27-106).
THEOREM LeavingJustified == CacheSpec => LeavesOnlyWhenDue
<1> DEFINE Due(k) == \/ Expired(last[k], clock')
                     \/ /\ maxEntries > 0 /\ Size(storage) >= maxEntries
                        /\ \A j \in DOMAIN storage : last[k].usedAt <= last[j].usedAt
<1>1. ASSUME CacheInv, NEW k \in Keys, NEW now \in Ticks, NEW later \in Ticks,
             Insert(k, now, later), NEW j \in DOMAIN storage \ DOMAIN storage'
      PROVE  Due(j)
  <2>1. PICK out \in SUBSET DOMAIN storage, gone \in SUBSET Keys :
          InsertDoes(k, now, later, out, gone)
    BY <1>1, InsertEffect
  <2>2. last = storage /\ clock' = later
    BY <1>1, Forward DEF CacheInv, Insert
  <2>3. CASE j \in out
    BY <2>1, <2>2, <2>3 DEF InsertDoes
  <2>4. CASE j \in gone /\ j # k
    BY <2>1, <2>2, <2>4 DEF InsertDoes
  <2>5. CASE j \in gone /\ j = k
    <3>1. storage[j].insertedAt \in Nat /\ storage[j].insertedAt <= clock
      BY <1>1, CacheAssumption DEF CacheInv, Entry, Ticks
    <3>2. clock \in Nat /\ now \in Nat /\ later \in Nat /\ clock <= now
      BY <1>1, Forward DEF Insert
    <3>3. ttl \in Nat
      BY <1>1, CacheAssumption DEF CacheInv, CacheTypeOK
    <3>4. ttl # 0 /\ later - storage[j].insertedAt > ttl
      BY <2>1, <2>5, <3>1, <3>2, <3>3 DEF InsertDoes
    <3> QED
      BY <2>2, <3>4 DEF Expired
  <2> QED
    BY <2>1, <2>3, <2>4, <2>5 DEF InsertDoes
<1>2. ASSUME CacheInv, NEW k \in Keys, NEW now \in Ticks, NEW later \in Ticks,
             Get(k, now, later), NEW j \in DOMAIN storage \ DOMAIN storage'
      PROVE  Due(j)
  <2>1. PICK gone \in SUBSET DOMAIN storage :
          /\ \A i \in gone : Expired(storage[i], later) \/ Expired(storage[i], now)
          /\ DOMAIN storage' = DOMAIN storage \ gone
    BY <1>2, GetEffect
  <2>2. last = storage /\ clock' = later
    BY <1>2, Forward DEF CacheInv, Get
  <2>3. storage[j].insertedAt \in Nat
    BY <1>2, CacheAssumption DEF CacheInv, Entry, Ticks
  <2>4. now \in Nat /\ later \in Nat /\ now <= later
    BY <1>2, Forward DEF Get
  <2>5. ttl \in Nat
    BY <1>2, CacheAssumption DEF CacheInv, CacheTypeOK
  <2>6. Expired(storage[j], later)
    BY <2>1, <2>3, <2>4, <2>5 DEF Expired
  <2> QED
    BY <2>2, <2>6
<1>3. CacheInv /\ [CacheNext]_cacheVars =>
        [\A k \in DOMAIN storage \ DOMAIN storage' : Due(k)]_cacheVars
  <2> SUFFICES ASSUME CacheInv, CacheNext, NEW j \in DOMAIN storage \ DOMAIN storage'
               PROVE  Due(j)
    OBVIOUS
  <2> HIDE DEF Due
  <2> QED
    BY <1>1, <1>2 DEF CacheNext, SetMaxEntries, SetTimeToLive, SetWorkInterval
<1> QED
  BY <1>3, CacheCorrect, PTL DEF CacheSpec, LeavesOnlyWhenDue

-----------------------------------------------------------------------------
(* Strings.                                                                *)

StringsSpec == StringsInit /\ [][StringsNext]_stringsVars

Characters == {NUL} \cup UNION {{t[i] : i \in DOMAIN t} : t \in Texts}

BoxRecords == [alive : BOOLEAN, data : Buffers \cup {NoBuffer}, size : Nat]
CowRecords == [is : {"none", "owned", "borrowed"}, data : Buffers \cup {NoBuffer}, size : Nat]

\* The boxed string x is made from t and its buffer, in the heap h, holds it.
BoxHolds(x, t, h) ==
    x.alive => IF x.data = NoBuffer THEN t = <<>>
               ELSE x.size = Len(t) /\ h[x.data] = t \o <<NUL>>

\* The Cow x was given t; what it borrowed may have been moved away, which
\* leaves an empty text, or freed.
CowHolds(x, t, h) ==
    /\ x.is # "none" => x.size = Len(t)
    /\ x.is = "owned" => x.data # NoBuffer /\ h[x.data] = t \o <<NUL>>
    /\ x.is = "borrowed" /\ x.size # 0 =>
          x.data # NoBuffer /\ h[x.data] \in {t \o <<NUL>>, <<NUL>>, Freed}

\* The buffer of an owning Cow is its own.
Apart(b, w) ==
    \A c \in Cows : w[c].is = "owned" =>
        /\ \A x \in Boxes : b[x].alive => b[x].data # w[c].data
        /\ \A d \in Cows \ {c} : w[d].is = "owned" => w[d].data # w[c].data

\* The boxed strings b and the Cows w fit the heap h and the texts mb and mc.
MatchesHeap(b, w, h, mb, mc) ==
    /\ b \in [Boxes -> BoxRecords]
    /\ w \in [Cows -> CowRecords]
    /\ h \in [Buffers -> Seq(Characters)]
    /\ mb \in [Boxes -> Seq(Characters)]
    /\ mc \in [Cows -> Seq(Characters)]
    /\ \A x \in Boxes : BoxHolds(b[x], mb[x], h)
    /\ \A c \in Cows : CowHolds(w[c], mc[c], h)
    /\ Apart(b, w)

StringsInv == shares \in BOOLEAN /\ MatchesHeap(box, cow, heap, meantBox, meantCow)

\* A text with its terminating character.
LEMMA Terminated ==
    ASSUME NEW t \in Seq(Characters)
    PROVE  /\ Len(t) \in Nat
           /\ t \o <<NUL>> \in Seq(Characters)
           /\ Len(t \o <<NUL>>) = Len(t) + 1
           /\ t \o <<NUL>> # Freed
           /\ SubSeq(t \o <<NUL>>, 1, Len(t)) = t
           /\ Len(t) = 0 => t = <<>>
<1>1. Len(t) \in Nat
  BY LenProperties
<1>2. <<NUL>> \in Seq(Characters) /\ Len(<<NUL>>) = 1
  BY DEF Characters
<1>3. PICK u : u = t \o <<NUL>>
  OBVIOUS
<1>4. /\ u \in Seq(Characters) /\ Len(u) = Len(t) + 1
      /\ \A i \in 1 .. Len(t) : u[i] = t[i]
  <2>1. /\ u \in Seq(Characters) /\ Len(u) = Len(t) + Len(<<NUL>>)
        /\ \A i \in 1 .. Len(t) + Len(<<NUL>>) :
              u[i] = IF i <= Len(t) THEN t[i] ELSE <<NUL>>[i - Len(t)]
    BY <1>2, <1>3, ConcatProperties
  <2> QED
    BY <1>1, <1>2, <2>1
<1>5. u # Freed
  BY <1>1, <1>4, EmptySeq DEF Freed
<1>6. SubSeq(u, 1, Len(t)) = t
  <2>1. \A i \in 1 .. Len(t) : u[i] \in Characters
    BY <1>1, <1>4, ElementOfSeq
  <2>2. /\ SubSeq(u, 1, Len(t)) \in Seq(Characters)
        /\ Len(SubSeq(u, 1, Len(t))) = IF 1 <= Len(t) THEN Len(t) - 1 + 1 ELSE 0
        /\ \A i \in 1 .. Len(t) - 1 + 1 : SubSeq(u, 1, Len(t))[i] = u[1 + i - 1]
    BY <1>1, <2>1, SubSeqProperties
  <2>3. /\ Len(SubSeq(u, 1, Len(t))) = Len(t)
        /\ \A i \in 1 .. Len(t) : SubSeq(u, 1, Len(t))[i] = t[i]
    BY <1>1, <1>4, <2>2
  <2> QED
    BY <2>2, <2>3, SeqEqual
<1>7. Len(t) = 0 => t = <<>>
  BY EmptySeq
<1> QED
  BY <1>1, <1>3, <1>4, <1>5, <1>6, <1>7

\* The empty text.
LEMMA EmptyText ==
    /\ <<>> \in Seq(Characters) /\ Len(<<>>) = 0 /\ <<NUL>> \in Seq(Characters)
    /\ <<>> \o <<NUL>> = <<NUL>> /\ Len(<<NUL>>) = 1
    /\ \A t \in Texts : t \in Seq(Characters)
<1>1. <<>> \in Seq(Characters) /\ Len(<<>>) = 0
  BY EmptySeq
<1>2. <<NUL>> \in Seq(Characters) /\ Len(<<NUL>>) = 1
  BY DEF Characters
<1>3. <<>> \o <<NUL>> = <<NUL>>
  BY <1>2, ConcatEmptySeq
<1>4. ASSUME NEW t \in Texts PROVE t \in Seq(Characters)
  <2>1. {t[i] : i \in DOMAIN t} \subseteq Characters
    BY DEF Characters
  <2> QED
    BY <2>1, StringsAssumption, SeqMonotonic
<1> QED
  BY <1>1, <1>2, <1>3, <1>4

\* A boxed string that was not moved away shows its text.
LEMMA BoxShows ==
    ASSUME StringsInv, NEW b \in Boxes, box[b].alive
    PROVE  /\ ~MovedAway(b) =>
                 /\ Readable(View(b)) /\ Shown(View(b)) = meantBox[b]
                 /\ View(b).size = Len(meantBox[b])
                 /\ View(b).size # 0 =>
                       box[b].data # NoBuffer /\ heap[box[b].data] = meantBox[b] \o <<NUL>>
           /\ MovedAway(b) => ~Readable(View(b))
           /\ View(b).data = box[b].data
           /\ View(b).size \in Nat
<1>1. PICK t \in Seq(Characters), x \in BoxRecords :
        t = meantBox[b] /\ x = box[b]
  BY DEF StringsInv, MatchesHeap
<1>2. BoxHolds(x, t, heap) /\ x.alive
  BY <1>1 DEF StringsInv, MatchesHeap
<1>3. View(b).data = x.data
  BY <1>1 DEF View
<1>4. CASE x.data = NoBuffer
  <2>1. t = <<>>
    BY <1>2, <1>4 DEF BoxHolds
  <2>2. View(b).size = IF shares THEN 0 ELSE x.size
    BY <1>1, <1>4 DEF View
  <2> QED
    BY <1>1, <1>3, <1>4, <2>1, <2>2, EmptyText
       DEF MovedAway, Readable, Shown, BoxRecords, StringsInv
<1>5. CASE x.data # NoBuffer
  <2>1. heap[x.data] = t \o <<NUL>> /\ x.size = Len(t)
    BY <1>2, <1>5 DEF BoxHolds
  <2>2. /\ Len(t) \in Nat /\ Len(t \o <<NUL>>) = Len(t) + 1
        /\ SubSeq(t \o <<NUL>>, 1, Len(t)) = t /\ (Len(t) = 0 => t = <<>>)
    BY Terminated
  <2>3. View(b).size = Len(t)
    BY <1>1, <1>5, <2>1, <2>2 DEF View
  <2>4. Readable(View(b))
    BY <1>3, <1>5, <2>1, <2>2, <2>3 DEF Readable
  <2>5. Shown(View(b)) = t
    BY <1>3, <2>1, <2>2, <2>3 DEF Shown
  <2> QED
    BY <1>1, <1>3, <1>5, <2>1, <2>2, <2>3, <2>4, <2>5 DEF MovedAway
<1> QED
  BY <1>4, <1>5

\* A Cow that can be read shows its text, and one that owns can be read.
LEMMA CowShows ==
    ASSUME StringsInv, NEW c \in Cows, cow[c].is # "none"
    PROVE  /\ cow[c].is = "owned" => Readable(cow[c])
           /\ Readable(cow[c]) => Shown(cow[c]) = meantCow[c]
<1>1. PICK t \in Seq(Characters), x \in CowRecords :
        t = meantCow[c] /\ x = cow[c]
  BY DEF StringsInv, MatchesHeap
<1>2. CowHolds(x, t, heap) /\ x.is # "none" /\ x.is \in {"owned", "borrowed"}
  BY <1>1 DEF StringsInv, MatchesHeap, CowRecords
<1>3. /\ Len(t) \in Nat /\ Len(t \o <<NUL>>) = Len(t) + 1
      /\ SubSeq(t \o <<NUL>>, 1, Len(t)) = t /\ (Len(t) = 0 => t = <<>>)
  BY Terminated
<1>4. x.size = Len(t)
  BY <1>2 DEF CowHolds
<1>5. x.is = "owned" => Readable(x)
  BY <1>2, <1>3, <1>4 DEF CowHolds, Readable
<1>6. ASSUME Readable(x) PROVE Shown(x) = t
  <2>1. CASE x.size = 0
    BY <1>3, <1>4, <2>1 DEF Shown
  <2>2. CASE x.size # 0
    <3>1. x.size < Len(heap[x.data])
      BY <1>6, <2>2 DEF Readable
    <3>2. ~(x.size < 1) /\ ~(x.size < 0)
      BY <1>3, <1>4, <2>2
    <3>3. heap[x.data] = t \o <<NUL>>
      BY <1>2, <2>2, <3>1, <3>2, EmptyText DEF CowHolds, Freed
    <3> QED
      BY <1>3, <1>4, <2>2, <3>3 DEF Shown
  <2> QED
    BY <2>1, <2>2
<1> QED
  BY <1>1, <1>5, <1>6

\* The invariant says that the strings show what they should.
LEMMA StringsInvRight == StringsInv => StringsRight
  BY BoxShows, CowShows DEF StringsRight

\* Buffers that nobody owns are freed: only views may still point to them.
LEMMA BecomeFits ==
    ASSUME NEW b, NEW w, NEW h, Become(b, w, h), MatchesHeap(b, w, h, meantBox', meantCow')
    PROVE  MatchesHeap(box, cow, heap, meantBox, meantCow)'
<1>1. box' = b /\ cow' = w
  BY DEF Become
<1>2. PICK own \in SUBSET Buffers :
        /\ \A f \in Buffers : f \in own <=>
              \/ \E x \in Boxes : b[x].alive /\ b[x].data = f
              \/ \E x \in Cows : w[x].is = "owned" /\ w[x].data = f
        /\ heap' = [f \in Buffers |-> IF f \in own THEN h[f] ELSE Freed]
  <2>1. PICK own : own = {f \in Buffers :
              \/ \E x \in Boxes : b[x].alive /\ b[x].data = f
              \/ \E x \in Cows : w[x].is = "owned" /\ w[x].data = f}
    OBVIOUS
  <2>2. heap' = [f \in Buffers |-> IF f \in own THEN h[f] ELSE Freed]
    BY <2>1 DEF Become
  <2> QED
    BY <2>1, <2>2
<1>3. heap' \in [Buffers -> Seq(Characters)]
  BY <1>2, EmptyText DEF MatchesHeap, Freed
<1>4. ASSUME NEW x \in Boxes PROVE BoxHolds(b[x], meantBox'[x], heap')
  <2>1. b[x].alive /\ b[x].data # NoBuffer => b[x].data \in own
    BY <1>2 DEF MatchesHeap, BoxRecords
  <2> QED
    BY <1>2, <2>1 DEF MatchesHeap, BoxHolds
<1>5. ASSUME NEW c \in Cows PROVE CowHolds(w[c], meantCow'[c], heap')
  <2>1. /\ w[c].is = "owned" /\ w[c].data # NoBuffer => w[c].data \in own
        /\ w[c].data # NoBuffer => w[c].data \in Buffers
    BY <1>2 DEF MatchesHeap, CowRecords
  <2>2. \A f \in Buffers : heap'[f] = h[f] \/ heap'[f] = Freed
    BY <1>2
  <2> QED
    BY <1>2, <2>1, <2>2 DEF MatchesHeap, CowHolds
<1> QED
  BY <1>1, <1>3, <1>4, <1>5 DEF MatchesHeap

\* A text in an unused buffer is in nobody's way.
LEMMA Placed ==
    ASSUME StringsInv, NEW f \in Unused, NEW t \in Seq(Characters)
    PROVE  /\ f \in Buffers /\ f # NoBuffer
           /\ With(f, t) \in [Buffers -> Seq(Characters)] /\ With(f, t)[f] = t \o <<NUL>>
           /\ \A x \in Boxes : box[x].alive => box[x].data # f
           /\ \A c \in Cows : cow[c].data # f
           /\ \A x \in Boxes : BoxHolds(box[x], meantBox[x], With(f, t))
           /\ \A c \in Cows : CowHolds(cow[c], meantCow[c], With(f, t))
<1>1. /\ f \in Buffers /\ f # NoBuffer /\ heap[f] = Freed
      /\ \A c \in Cows : cow[c].data # f
  BY StringsAssumption DEF Unused
<1>2. PICK h : h = With(f, t)
  OBVIOUS
<1>3. /\ h \in [Buffers -> Seq(Characters)] /\ h[f] = t \o <<NUL>>
      /\ \A g \in Buffers \ {f} : h[g] = heap[g]
  BY <1>1, <1>2, Terminated DEF StringsInv, MatchesHeap, With
<1>4. ASSUME NEW x \in Boxes
      PROVE  BoxHolds(box[x], meantBox[x], h) /\ (box[x].alive => box[x].data # f)
  <2>1. /\ meantBox[x] \in Seq(Characters) /\ box[x].data \in Buffers \cup {NoBuffer}
        /\ BoxHolds(box[x], meantBox[x], heap)
    BY DEF StringsInv, MatchesHeap, BoxRecords
  <2>2. meantBox[x] \o <<NUL>> # Freed
    BY <2>1, Terminated
  <2> QED
    BY <1>1, <1>3, <2>1, <2>2 DEF BoxHolds
<1>5. ASSUME NEW c \in Cows PROVE CowHolds(cow[c], meantCow[c], h)
  <2>1. CowHolds(cow[c], meantCow[c], heap) /\ cow[c].data \in Buffers \cup {NoBuffer}
    BY DEF StringsInv, MatchesHeap, CowRecords
  <2> QED
    BY <1>1, <1>3, <2>1 DEF CowHolds
<1> QED
  BY <1>1, <1>2, <1>3, <1>4, <1>5

\* One boxed string becomes r, with the text t.
LEMMA BoxReplaced ==
    ASSUME StringsInv, NEW b \in Boxes, NEW r \in BoxRecords, NEW t \in Seq(Characters),
           NEW h \in [Buffers -> Seq(Characters)],
           BoxHolds(r, t, h),
           \A x \in Boxes : BoxHolds(box[x], meantBox[x], h),
           \A c \in Cows : CowHolds(cow[c], meantCow[c], h),
           \A c \in Cows : r.alive /\ cow[c].is = "owned" => r.data # cow[c].data
    PROVE  MatchesHeap([box EXCEPT ![b] = r], cow, h, [meantBox EXCEPT ![b] = t], meantCow)
<1>a. PICK nb, mb : nb = [box EXCEPT ![b] = r] /\ mb = [meantBox EXCEPT ![b] = t]
  OBVIOUS
<1>1. /\ nb = [box EXCEPT ![b] = r] /\ mb = [meantBox EXCEPT ![b] = t]
      /\ nb \in [Boxes -> BoxRecords] /\ mb \in [Boxes -> Seq(Characters)]
      /\ nb[b] = r /\ mb[b] = t
      /\ \A x \in Boxes \ {b} : nb[x] = box[x] /\ mb[x] = meantBox[x]
  BY <1>a DEF StringsInv, MatchesHeap
<1>2. \A x \in Boxes : BoxHolds(nb[x], mb[x], h)
  BY <1>1
<1>3. Apart(nb, cow)
  BY <1>1 DEF StringsInv, MatchesHeap, Apart
<1> QED
  BY <1>1, <1>2, <1>3 DEF StringsInv, MatchesHeap

\* One Cow becomes r, with the text t.
LEMMA CowReplaced ==
    ASSUME StringsInv, NEW c \in Cows, NEW r \in CowRecords, NEW t \in Seq(Characters),
           NEW h \in [Buffers -> Seq(Characters)],
           CowHolds(r, t, h),
           \A x \in Boxes : BoxHolds(box[x], meantBox[x], h),
           \A d \in Cows : CowHolds(cow[d], meantCow[d], h),
           r.is = "owned" => /\ \A x \in Boxes : box[x].alive => box[x].data # r.data
                             /\ \A d \in Cows \ {c} : cow[d].is = "owned" => cow[d].data # r.data
    PROVE  MatchesHeap(box, [cow EXCEPT ![c] = r], h, meantBox, [meantCow EXCEPT ![c] = t])
<1>a. PICK nw, mc : nw = [cow EXCEPT ![c] = r] /\ mc = [meantCow EXCEPT ![c] = t]
  OBVIOUS
<1>1. /\ nw = [cow EXCEPT ![c] = r] /\ mc = [meantCow EXCEPT ![c] = t]
      /\ nw \in [Cows -> CowRecords] /\ mc \in [Cows -> Seq(Characters)]
      /\ nw[c] = r /\ mc[c] = t
      /\ \A d \in Cows \ {c} : nw[d] = cow[d] /\ mc[d] = meantCow[d]
  BY <1>a DEF StringsInv, MatchesHeap
<1>2. \A d \in Cows : CowHolds(nw[d], mc[d], h)
  BY <1>1
<1>3. Apart(box, nw)
  BY <1>1 DEF StringsInv, MatchesHeap, Apart
<1> QED
  BY <1>1, <1>2, <1>3 DEF StringsInv, MatchesHeap

\* A boxed string is made.
LEMMA MakeBoxKeeps ==
    ASSUME StringsInv, NEW b \in Boxes, NEW t \in Seq(Characters), MakeBox(b, t)
    PROVE  StringsInv'
<1>1. meantBox' = [meantBox EXCEPT ![b] = t] /\ UNCHANGED <<shares, meantCow>>
  BY DEF MakeBox
<1>2. CASE t = <<>> /\ Become([box EXCEPT ![b] = [NoBox EXCEPT !.alive = TRUE]], cow, heap)
  <2>a. PICK r : r = [NoBox EXCEPT !.alive = TRUE]
    OBVIOUS
  <2>1. /\ r \in BoxRecords
        /\ r = [NoBox EXCEPT !.alive = TRUE] /\ r.alive /\ r.data = NoBuffer
    BY <2>a DEF NoBox, BoxRecords
  <2>2. BoxHolds(r, t, heap)
    BY <1>2, <2>1 DEF BoxHolds
  <2>3. \A c \in Cows : cow[c].is = "owned" => r.data # cow[c].data
    BY <2>1 DEF StringsInv, MatchesHeap, CowHolds
  <2>4. MatchesHeap([box EXCEPT ![b] = r], cow, heap, meantBox', meantCow')
    BY <1>1, <2>1, <2>2, <2>3, BoxReplaced DEF StringsInv, MatchesHeap
  <2> QED
    BY <1>1, <1>2, <2>1, <2>4, BecomeFits DEF StringsInv
<1>3. ASSUME NEW f \in Unused,
             Become([box EXCEPT ![b] = [alive |-> TRUE, data |-> f, size |-> Len(t)]],
                    cow, With(f, t))
      PROVE  StringsInv'
  <2>1. PICK h : h = With(f, t)
    OBVIOUS
  <2>2. /\ f \in Buffers /\ f # NoBuffer
        /\ h \in [Buffers -> Seq(Characters)] /\ h[f] = t \o <<NUL>>
        /\ \A c \in Cows : cow[c].data # f
        /\ \A x \in Boxes : BoxHolds(box[x], meantBox[x], h)
        /\ \A c \in Cows : CowHolds(cow[c], meantCow[c], h)
    BY <2>1, Placed
  <2>a. PICK r : r = [alive |-> TRUE, data |-> f, size |-> Len(t)]
    OBVIOUS
  <2>3. /\ r \in BoxRecords /\ r = [alive |-> TRUE, data |-> f, size |-> Len(t)]
        /\ r.data = f /\ r.size = Len(t)
    BY <2>2, <2>a, Terminated DEF BoxRecords
  <2>4. BoxHolds(r, t, h)
    BY <2>2, <2>3 DEF BoxHolds
  <2>5. MatchesHeap([box EXCEPT ![b] = r], cow, h, meantBox', meantCow')
    BY <1>1, <2>2, <2>3, <2>4, BoxReplaced
  <2> QED
    BY <1>1, <1>3, <2>1, <2>3, <2>5, BecomeFits DEF StringsInv
<1> QED
  BY <1>2, <1>3 DEF MakeBox

\* One is moved: the other has no buffer any more.
LEMMA MoveBoxKeeps ==
    ASSUME StringsInv, NEW b \in Boxes, NEW x \in Boxes, MoveBox(b, x)
    PROVE  StringsInv'
<1>1. /\ b # x /\ box[b].alive
      /\ Become([box EXCEPT ![x] = box[b], ![b].data = NoBuffer], cow, heap)
      /\ meantBox' = [meantBox EXCEPT ![x] = meantBox[b], ![b] = <<>>]
      /\ UNCHANGED <<shares, meantCow>>
  BY DEF MoveBox
<1>2. box[b] \in BoxRecords
  BY DEF StringsInv, MatchesHeap
<1>a. PICK r : r = [box[b] EXCEPT !.data = NoBuffer]
  OBVIOUS
<1>3. /\ r \in BoxRecords /\ r = [box[b] EXCEPT !.data = NoBuffer] /\ r.data = NoBuffer
  BY <1>2, <1>a DEF BoxRecords
<1>4. PICK nb : nb = [box EXCEPT ![x] = box[b], ![b].data = NoBuffer]
  OBVIOUS
<1>5. /\ nb \in [Boxes -> BoxRecords] /\ meantBox' \in [Boxes -> Seq(Characters)]
      /\ nb[x] = box[b] /\ meantBox'[x] = meantBox[b]
      /\ nb[b] = r /\ meantBox'[b] = <<>>
      /\ \A y \in Boxes \ {b, x} : nb[y] = box[y] /\ meantBox'[y] = meantBox[y]
  BY <1>1, <1>2, <1>3, <1>4, EmptyText DEF StringsInv, MatchesHeap
<1>6. \A y \in Boxes : BoxHolds(nb[y], meantBox'[y], heap)
  <2>1. BoxHolds(r, <<>>, heap)
    BY <1>3 DEF BoxHolds
  <2> QED
    BY <1>5, <2>1 DEF StringsInv, MatchesHeap
<1>7. Apart(nb, cow)
  <2>1. \A c \in Cows : cow[c].is = "owned" => cow[c].data # NoBuffer
    BY DEF StringsInv, MatchesHeap, CowHolds
  <2>2. \A c \in Cows : cow[c].is = "owned" =>
           \A y \in Boxes : nb[y].alive => nb[y].data # cow[c].data
    <3>1. Apart(box, cow)
      BY DEF StringsInv, MatchesHeap
    <3>2. ASSUME NEW c \in Cows, cow[c].is = "owned", NEW y \in Boxes, nb[y].alive
          PROVE  nb[y].data # cow[c].data
      <4>1. CASE y = b
        BY <1>3, <1>5, <2>1, <3>2, <4>1
      <4>2. CASE y = x
        BY <1>1, <1>5, <3>1, <3>2, <4>2 DEF Apart
      <4>3. CASE y # b /\ y # x
        BY <1>5, <3>1, <3>2, <4>3 DEF Apart
      <4> QED
        BY <4>1, <4>2, <4>3
    <3> QED
      BY <3>2
  <2> QED
    BY <2>2 DEF StringsInv, MatchesHeap, Apart
<1>8. MatchesHeap(nb, cow, heap, meantBox', meantCow')
  BY <1>1, <1>5, <1>6, <1>7 DEF StringsInv, MatchesHeap
<1> QED
  BY <1>1, <1>4, <1>8, BecomeFits DEF StringsInv

\* One is shared.
LEMMA CopyBoxKeeps ==
    ASSUME StringsInv, NEW b \in Boxes, NEW x \in Boxes, CopyBox(b, x)
    PROVE  StringsInv'
<1>1. /\ box[b].alive /\ Become([box EXCEPT ![x] = box[b]], cow, heap)
      /\ meantBox' = [meantBox EXCEPT ![x] = meantBox[b]]
      /\ UNCHANGED <<shares, meantCow>>
  BY DEF CopyBox
<1>2. MatchesHeap([box EXCEPT ![x] = box[b]], cow, heap, meantBox', meantCow')
  BY <1>1, BoxReplaced DEF StringsInv, MatchesHeap, Apart
<1> QED
  BY <1>1, <1>2, BecomeFits DEF StringsInv

\* One is destroyed.
LEMMA DropBoxKeeps ==
    ASSUME StringsInv, NEW b \in Boxes, DropBox(b)
    PROVE  StringsInv'
<1>1. /\ Become([box EXCEPT ![b] = NoBox], cow, heap)
      /\ meantBox' = [meantBox EXCEPT ![b] = <<>>]
      /\ UNCHANGED <<shares, meantCow>>
  BY DEF DropBox
<1>a. PICK r : r = NoBox
  OBVIOUS
<1>2. r \in BoxRecords /\ r = NoBox /\ ~r.alive
  BY <1>a DEF NoBox, BoxRecords
<1>3. MatchesHeap([box EXCEPT ![b] = r], cow, heap, meantBox', meantCow')
  BY <1>1, <1>2, BoxReplaced, EmptyText DEF StringsInv, MatchesHeap, BoxHolds
<1> QED
  BY <1>1, <1>2, <1>3, BecomeFits DEF StringsInv

\* A Cow that is given a text gets a buffer of its own.
LEMMA OwnKeeps ==
    ASSUME StringsInv, NEW c \in Cows, NEW t \in Seq(Characters), Own(c, t)
    PROVE  StringsInv'
<1>1. meantCow' = [meantCow EXCEPT ![c] = t] /\ UNCHANGED <<shares, meantBox>>
  BY DEF Own
<1>2. PICK f \in Unused : Become(box, [cow EXCEPT ![c] = Owned(f, t)], With(f, t))
  BY DEF Own
<1>3. PICK h : h = With(f, t)
  OBVIOUS
<1>4. /\ f \in Buffers /\ f # NoBuffer
      /\ h \in [Buffers -> Seq(Characters)] /\ h[f] = t \o <<NUL>>
      /\ \A x \in Boxes : box[x].alive => box[x].data # f
      /\ \A d \in Cows : cow[d].data # f
      /\ \A x \in Boxes : BoxHolds(box[x], meantBox[x], h)
      /\ \A d \in Cows : CowHolds(cow[d], meantCow[d], h)
  BY <1>3, Placed
<1>a. PICK r : r = Owned(f, t)
  OBVIOUS
<1>5. /\ r \in CowRecords
      /\ r = Owned(f, t) /\ r.is = "owned" /\ r.data = f /\ r.size = Len(t)
  BY <1>4, <1>a, Terminated DEF Owned, CowRecords
<1>6. CowHolds(r, t, h)
  BY <1>4, <1>5 DEF CowHolds
<1>7. MatchesHeap(box, [cow EXCEPT ![c] = r], h, meantBox', meantCow')
  BY <1>1, <1>4, <1>5, <1>6, CowReplaced
<1> QED
  BY <1>1, <1>2, <1>3, <1>5, <1>7, BecomeFits DEF StringsInv

\* A Cow may borrow a view that is of the text, or dangles.
LEMMA BorrowKeeps ==
    ASSUME StringsInv, NEW c \in Cows, NEW t \in Seq(Characters), NEW v, Borrow(c, v, t),
           v.data \in Buffers \cup {NoBuffer}, v.size = Len(t),
           v.size # 0 => /\ v.data # NoBuffer
                         /\ heap[v.data] \in {t \o <<NUL>>, <<NUL>>, Freed}
    PROVE  StringsInv'
<1>1. /\ Become(box, [cow EXCEPT ![c] = [is |-> "borrowed", data |-> v.data, size |-> v.size]],
                heap)
      /\ meantCow' = [meantCow EXCEPT ![c] = t] /\ UNCHANGED <<shares, meantBox>>
  BY DEF Borrow
<1>a. PICK r : r = [is |-> "borrowed", data |-> v.data, size |-> v.size]
  OBVIOUS
<1>2. /\ r \in CowRecords
      /\ r = [is |-> "borrowed", data |-> v.data, size |-> v.size]
      /\ r.is = "borrowed" /\ r.data = v.data /\ r.size = v.size
  BY <1>a, Terminated DEF CowRecords
<1>3. CowHolds(r, t, heap)
  BY <1>2 DEF CowHolds
<1>4. MatchesHeap(box, [cow EXCEPT ![c] = r], heap, meantBox', meantCow')
  BY <1>1, <1>2, <1>3, CowReplaced DEF StringsInv, MatchesHeap
<1> QED
  BY <1>1, <1>2, <1>4, BecomeFits DEF StringsInv

\* What a Cow borrows from another one.
LEMMA BorrowedKeeps ==
    ASSUME StringsInv, NEW c \in Cows, NEW d \in Cows, cow[d].is # "none",
           Borrow(c, cow[d], meantCow[d])
    PROVE  StringsInv'
<1>1. /\ CowHolds(cow[d], meantCow[d], heap) /\ cow[d].is \in {"owned", "borrowed"}
      /\ cow[d].data \in Buffers \cup {NoBuffer} /\ meantCow[d] \in Seq(Characters)
  BY DEF StringsInv, MatchesHeap, CowRecords
<1> QED
  BY <1>1, BorrowKeeps DEF CowHolds

\* The moved characters are copied, and leave an empty text, or change hands.
LEMMA MoveCowKeeps ==
    ASSUME StringsInv, NEW c \in Cows, NEW d \in Cows, MoveCow(c, d)
    PROVE  StringsInv'
<1>1. CASE cow[d].is = "borrowed"
  BY <1>1, BorrowedKeeps DEF MoveCow
<1>2. CASE cow[d].is = "owned"
  <2>1. /\ c # d /\ meantCow' = [meantCow EXCEPT ![c] = meantCow[d], ![d] = <<>>]
        /\ UNCHANGED <<shares, meantBox>>
    BY <1>2 DEF MoveCow
  <2>2. PICK t \in Seq(Characters), g \in Buffers :
          /\ t = meantCow[d] /\ g = cow[d].data /\ g # NoBuffer
          /\ heap[g] = t \o <<NUL>> /\ cow[d].size = Len(t)
          /\ cow[d] \in CowRecords
          /\ \A x \in Boxes : box[x].alive => box[x].data # g
          /\ \A e \in Cows \ {d} : cow[e].is = "owned" => cow[e].data # g
    BY <1>2, StringsAssumption DEF StringsInv, MatchesHeap, CowRecords, CowHolds, Apart
  <2>3. /\ meantCow' \in [Cows -> Seq(Characters)]
        /\ meantCow'[c] = t /\ meantCow'[d] = <<>>
        /\ \A e \in Cows \ {c, d} : meantCow'[e] = meantCow[e]
    BY <2>1, <2>2, EmptyText DEF StringsInv, MatchesHeap
  <2>4. ASSUME NEW f \in Unused,
               Become(box, [cow EXCEPT ![c] = Owned(f, meantCow[d]), ![d].size = 0],
                      [With(f, Shown(cow[d])) EXCEPT ![cow[d].data] = <<NUL>>])
        PROVE  StringsInv'
    <3>1. Shown(cow[d]) = t
      BY <1>2, <2>2, CowShows
    <3>2. PICK h : h = [With(f, t) EXCEPT ![g] = <<NUL>>]
      OBVIOUS
    <3>3. /\ f \in Buffers /\ f # NoBuffer
          /\ With(f, t) \in [Buffers -> Seq(Characters)] /\ With(f, t)[f] = t \o <<NUL>>
          /\ \A x \in Boxes : box[x].alive => box[x].data # f
          /\ \A e \in Cows : cow[e].data # f
          /\ \A x \in Boxes : BoxHolds(box[x], meantBox[x], With(f, t))
          /\ \A e \in Cows : CowHolds(cow[e], meantCow[e], With(f, t))
      BY Placed
    <3>4. /\ h \in [Buffers -> Seq(Characters)] /\ h[f] = t \o <<NUL>> /\ h[g] = <<NUL>>
          /\ \A k \in Buffers \ {g} : h[k] = With(f, t)[k]
      BY <2>2, <3>2, <3>3, EmptyText
    <3>a. PICK r, m : r = Owned(f, t) /\ m = [cow[d] EXCEPT !.size = 0]
      OBVIOUS
    <3>5. /\ r \in CowRecords /\ m \in CowRecords
          /\ r = Owned(f, t) /\ r.is = "owned" /\ r.data = f /\ r.size = Len(t)
          /\ m = [cow[d] EXCEPT !.size = 0] /\ m.is = "owned" /\ m.data = g /\ m.size = 0
      BY <1>2, <2>2, <3>3, <3>a, Terminated DEF Owned, CowRecords
    <3>6. PICK nw : nw = [cow EXCEPT ![c] = Owned(f, t), ![d].size = 0]
      OBVIOUS
    <3>7. /\ nw \in [Cows -> CowRecords] /\ nw[c] = r /\ nw[d] = m
          /\ \A e \in Cows \ {c, d} : nw[e] = cow[e]
      BY <2>1, <3>5, <3>6 DEF StringsInv, MatchesHeap
    <3>8. \A x \in Boxes : BoxHolds(box[x], meantBox[x], h)
      BY <2>2, <3>3, <3>4 DEF BoxHolds, StringsInv, MatchesHeap, BoxRecords
    <3>9. ASSUME NEW e \in Cows PROVE CowHolds(nw[e], meantCow'[e], h)
      <4>1. CASE e = c
        BY <2>3, <3>3, <3>4, <3>5, <3>7, <4>1 DEF CowHolds
      <4>2. CASE e = d
        BY <2>2, <2>3, <3>4, <3>5, <3>7, <4>2, EmptyText DEF CowHolds
      <4>3. CASE e # c /\ e # d
        <5>1. nw[e] = cow[e] /\ meantCow'[e] = meantCow[e]
          BY <2>3, <3>7, <4>3
        <5>2. cow[e].data \in Buffers \cup {NoBuffer}
          BY DEF StringsInv, MatchesHeap, CowRecords
        <5>3. CowHolds(cow[e], meantCow[e], With(f, t))
          BY <3>3
        <5>4. cow[e].is = "owned" => cow[e].data # g
          BY <2>2, <4>3
        <5>5. CASE cow[e].data = g
          <6>1. cow[e].is # "owned" /\ h[cow[e].data] = <<NUL>>
            BY <3>4, <5>4, <5>5
          <6> QED
            BY <2>2, <5>1, <5>3, <5>5, <6>1 DEF CowHolds
        <5>6. CASE cow[e].data # g
          <6>1. cow[e].data # NoBuffer => h[cow[e].data] = With(f, t)[cow[e].data]
            BY <3>4, <5>2, <5>6
          <6> QED
            BY <5>1, <5>3, <6>1 DEF CowHolds
        <5> QED
          BY <5>5, <5>6
      <4> QED
        BY <4>1, <4>2, <4>3
    <3>10. Apart(box, nw)
      <4>1. Apart(box, cow)
        BY DEF StringsInv, MatchesHeap
      <4>2. ASSUME NEW e \in Cows, nw[e].is = "owned"
            PROVE  /\ \A x \in Boxes : box[x].alive => box[x].data # nw[e].data
                   /\ \A k \in Cows \ {e} : nw[k].is = "owned" => nw[k].data # nw[e].data
        <5>1. CASE e = c
          BY <2>1, <2>2, <3>3, <3>5, <3>7, <5>1
        <5>2. CASE e = d
          <6>1. /\ nw[e].data = g /\ nw[c].data = f /\ f # g
                /\ \A k \in Cows \ {c, d} : nw[k] = cow[k]
            BY <2>1, <2>2, <3>3, <3>5, <3>7, <5>2
          <6> QED
            BY <2>2, <5>2, <6>1
        <5>3. CASE e # c /\ e # d
          <6>1. nw[e] = cow[e] /\ cow[e].is = "owned"
            BY <3>7, <4>2, <5>3
          <6>2. \A x \in Boxes : box[x].alive => box[x].data # nw[e].data
            BY <4>1, <6>1 DEF Apart
          <6>3. /\ nw[c].data # nw[e].data /\ nw[d].data # nw[e].data
                /\ \A k \in Cows \ {c, d, e} : nw[k].is = "owned" => nw[k].data # nw[e].data
            <7>1. nw[c].data # nw[e].data
              BY <3>3, <3>5, <3>7, <6>1
            <7>2. nw[d].data # nw[e].data
              BY <2>2, <3>5, <3>7, <5>3, <6>1
            <7>3. \A k \in Cows \ {c, d, e} : nw[k].is = "owned" => nw[k].data # nw[e].data
              BY <3>7, <4>1, <6>1 DEF Apart
            <7> QED
              BY <7>1, <7>2, <7>3
          <6> QED
            BY <6>2, <6>3
        <5> QED
          BY <5>1, <5>2, <5>3
      <4> QED
        BY <4>2 DEF Apart
    <3>11. MatchesHeap(box, nw, h, meantBox', meantCow')
      BY <2>1, <2>3, <3>4, <3>7, <3>8, <3>9, <3>10 DEF StringsInv, MatchesHeap
    <3> QED
      BY <2>1, <2>2, <2>4, <3>1, <3>2, <3>6, <3>11, BecomeFits DEF StringsInv
  <2>5. ASSUME NEW f \in Unused,
               Become(box, [cow EXCEPT ![c] = cow[d], ![d] = Owned(f, <<>>)], With(f, <<>>))
        PROVE  StringsInv'
    <3>1. PICK h : h = With(f, <<>>)
      OBVIOUS
    <3>2. /\ f \in Buffers /\ f # NoBuffer
          /\ h \in [Buffers -> Seq(Characters)] /\ h[f] = <<>> \o <<NUL>>
          /\ \A x \in Boxes : box[x].alive => box[x].data # f
          /\ \A e \in Cows : cow[e].data # f
          /\ \A x \in Boxes : BoxHolds(box[x], meantBox[x], h)
          /\ \A e \in Cows : CowHolds(cow[e], meantCow[e], h)
      BY <3>1, Placed, EmptyText
    <3>a. PICK r : r = Owned(f, <<>>)
      OBVIOUS
    <3>3. /\ r \in CowRecords
          /\ r = Owned(f, <<>>) /\ r.is = "owned" /\ r.data = f /\ r.size = 0
      BY <3>2, <3>a, EmptyText DEF Owned, CowRecords
    <3>4. PICK nw : nw = [cow EXCEPT ![c] = cow[d], ![d] = Owned(f, <<>>)]
      OBVIOUS
    <3>5. /\ nw \in [Cows -> CowRecords] /\ nw[c] = cow[d] /\ nw[d] = r
          /\ \A e \in Cows \ {c, d} : nw[e] = cow[e]
      BY <2>1, <3>3, <3>4 DEF StringsInv, MatchesHeap
    <3>6. ASSUME NEW e \in Cows PROVE CowHolds(nw[e], meantCow'[e], h)
      <4>1. CASE e = d
        BY <2>3, <3>2, <3>3, <3>5, <4>1, EmptyText DEF CowHolds
      <4>2. CASE e # d
        BY <2>2, <2>3, <3>2, <3>5, <4>2
      <4> QED
        BY <4>1, <4>2
    <3>7. Apart(box, nw)
      <4>1. Apart(box, cow)
        BY DEF StringsInv, MatchesHeap
      <4>2. ASSUME NEW e \in Cows, nw[e].is = "owned"
            PROVE  /\ \A x \in Boxes : box[x].alive => box[x].data # nw[e].data
                   /\ \A k \in Cows \ {e} : nw[k].is = "owned" => nw[k].data # nw[e].data
        <5>1. CASE e = c
          BY <2>1, <2>2, <3>2, <3>3, <3>5, <5>1
        <5>2. CASE e = d
          BY <2>1, <2>2, <3>2, <3>3, <3>5, <5>2
        <5>3. CASE e # c /\ e # d
          <6>1. nw[e] = cow[e] /\ cow[e].is = "owned"
            BY <3>5, <4>2, <5>3
          <6>2. \A x \in Boxes : box[x].alive => box[x].data # nw[e].data
            BY <4>1, <6>1 DEF Apart
          <6>3. /\ nw[c].data # nw[e].data /\ nw[d].data # nw[e].data
                /\ \A k \in Cows \ {c, d, e} : nw[k].is = "owned" => nw[k].data # nw[e].data
            BY <1>2, <2>1, <2>2, <3>2, <3>3, <3>5, <4>1, <5>3, <6>1 DEF Apart
          <6> QED
            BY <6>2, <6>3
        <5> QED
          BY <5>1, <5>2, <5>3
      <4> QED
        BY <4>2 DEF Apart
    <3>8. MatchesHeap(box, nw, h, meantBox', meantCow')
      BY <2>1, <2>3, <3>2, <3>5, <3>6, <3>7 DEF StringsInv, MatchesHeap
    <3> QED
      BY <2>1, <2>5, <3>1, <3>4, <3>8, BecomeFits DEF StringsInv
  <2> QED
    BY <1>2, <2>4, <2>5 DEF MoveCow
<1> QED
  BY <1>1, <1>2 DEF MoveCow

\* A Cow is destroyed.
LEMMA DropCowKeeps ==
    ASSUME StringsInv, NEW c \in Cows, DropCow(c)
    PROVE  StringsInv'
<1>1. /\ Become(box, [cow EXCEPT ![c] = NoCow], heap)
      /\ meantCow' = [meantCow EXCEPT ![c] = <<>>]
      /\ UNCHANGED <<shares, meantBox>>
  BY DEF DropCow
<1>a. PICK r : r = NoCow
  OBVIOUS
<1>2. r \in CowRecords /\ r = NoCow /\ r.is = "none"
  BY <1>a DEF NoCow, CowRecords
<1>3. MatchesHeap(box, [cow EXCEPT ![c] = r], heap, meantBox', meantCow')
  BY <1>1, <1>2, CowReplaced, EmptyText DEF StringsInv, MatchesHeap, CowHolds
<1> QED
  BY <1>1, <1>2, <1>3, BecomeFits DEF StringsInv

\* Boxed strings and owning Cows show the texts they were given and borrowing ones show
\* theirs or dangle, for any texts and any number of buffers (BoxedString.hpp, Cow.hpp).
THEOREM StringsCorrect == StringsSpec => []StringsRight
<1>1. StringsInit => StringsInv
  <2> SUFFICES ASSUME StringsInit PROVE StringsInv
    OBVIOUS
  <2>1. NoBox \in BoxRecords /\ ~NoBox.alive /\ NoCow \in CowRecords /\ NoCow.is = "none"
    BY DEF NoBox, NoCow, BoxRecords, CowRecords
  <2> QED
    BY <2>1, EmptyText
       DEF StringsInit, StringsInv, MatchesHeap, BoxHolds, CowHolds, Apart, Freed
<1>2. StringsInv /\ [StringsNext]_stringsVars => StringsInv'
  <2> SUFFICES ASSUME StringsInv, [StringsNext]_stringsVars PROVE StringsInv'
    OBVIOUS
  <2>1. CASE UNCHANGED <<shares, box, cow, heap, meantBox, meantCow>>
    BY <2>1 DEF StringsInv, MatchesHeap, BoxHolds, CowHolds, Apart
  <2>2. ASSUME NEW b \in Boxes, NEW t \in Texts, MakeBox(b, t) \/ FormatBox(b, t)
        PROVE  StringsInv'
    BY <2>1, <2>2, MakeBoxKeeps, EmptyText DEF FormatBox
  <2>3. ASSUME NEW b \in Boxes, NEW x \in Boxes, CloneBox(b, x) PROVE StringsInv'
    <3>1. box[b].alive /\ Readable(View(b)) /\ MakeBox(x, Shown(View(b)))
      BY <2>3 DEF CloneBox
    <3>2. Shown(View(b)) \in Seq(Characters)
      BY <3>1, BoxShows DEF StringsInv, MatchesHeap
    <3> QED
      BY <3>1, <3>2, MakeBoxKeeps
  <2>4. ASSUME NEW c \in Cows, NEW b \in Boxes, BorrowBox(c, b) PROVE StringsInv'
    <3>1. box[b].alive /\ Readable(View(b)) /\ Borrow(c, View(b), Shown(View(b)))
      BY <2>4 DEF BorrowBox
    <3>2. /\ Shown(View(b)) \in Seq(Characters) /\ View(b).size = Len(Shown(View(b)))
          /\ View(b).data \in Buffers \cup {NoBuffer}
          /\ View(b).size # 0 => /\ View(b).data # NoBuffer
                                 /\ heap[View(b).data] = Shown(View(b)) \o <<NUL>>
      BY <3>1, BoxShows DEF StringsInv, MatchesHeap, BoxRecords
    <3> QED
      BY <3>1, <3>2, BorrowKeeps
  <2>5. ASSUME NEW c \in Cows, NEW d \in Cows, BorrowCow(c, d) \/ CopyCow(c, d)
        PROVE  StringsInv'
    <3>1. CASE BorrowCow(c, d)
      BY <3>1, CowShows, BorrowedKeeps DEF BorrowCow
    <3>2. CASE CopyCow(c, d)
      <4>1. CASE cow[d].is = "owned" /\ Own(c, Shown(cow[d]))
        <5>1. Shown(cow[d]) \in Seq(Characters)
          BY <4>1, CowShows DEF StringsInv, MatchesHeap
        <5> QED
          BY <4>1, <5>1, OwnKeeps
      <4>2. CASE cow[d].is = "borrowed" /\ Borrow(c, cow[d], meantCow[d])
        BY <4>2, BorrowedKeeps
      <4> QED
        BY <3>2, <4>1, <4>2 DEF CopyCow
    <3> QED
      BY <2>5, <3>1, <3>2
  <2>6. ASSUME NEW c \in Cows, ConvertToOwned(c) PROVE StringsInv'
    <3>1. Shown(cow[c]) \in Seq(Characters)
      BY <2>6, CowShows DEF ConvertToOwned, StringsInv, MatchesHeap
    <3> QED
      BY <2>6, <3>1, OwnKeeps DEF ConvertToOwned
  <2>7. ASSUME NEW c \in Cows, NEW t \in Texts, Own(c, t) PROVE StringsInv'
    BY <2>7, OwnKeeps, EmptyText
  <2>8. CASE UNCHANGED stringsVars
    BY <2>1, <2>8 DEF stringsVars
  <2> QED
    BY <2>2, <2>3, <2>4, <2>5, <2>6, <2>7, <2>8, MoveBoxKeeps, CopyBoxKeeps,
       DropBoxKeeps, MoveCowKeeps, DropCowKeeps DEF StringsNext
<1> QED
  BY <1>1, <1>2, StringsInvRight, PTL DEF StringsSpec

-----------------------------------------------------------------------------
(* The file system.                                                        *)

LOCAL INSTANCE SequencesExt

FilesSpec == FilesInit /\ [][FilesNext]_filesVars

Content  == Seq(Callers \cup {Old, Zero})
Meanings == Inodes \cup Dirs \cup {None}

CallRecords ==
    [op     : Removals \cup {"none", "read", "write", "rename", "copy", "createDir"},
     pc     : {"idle", "stat", "read", "write", "remove"},
     path   : Paths \cup {None},
     file   : Inodes \cup {None},
     size   : Nat,
     buf    : Content,
     result : {"ok", "err"},
     seen   : Content \cup Meanings,
     left   : Content \cup Meanings,
     raced  : BOOLEAN]

\* A call that has its file open.
Working(e) == e.pc \in {"stat", "read", "write"}

\* What the call e of c knows between two of its steps, unless it is raced: that
\* the file or the path is as its last step left it.
UnderWay(c, e) ==
    /\ Working(e) => e.file \in Inodes
    /\ e.pc = "stat" => e.op = "read" /\ (~e.raced => data[e.file] = e.seen)
    /\ e.pc = "read" =>
          /\ e.op = "read" /\ Len(e.buf) = e.size
          /\ ~e.raced => data[e.file] = e.seen /\ e.size = Len(e.seen)
    /\ e.pc = "write" =>
          /\ e.op = "write" /\ Len(e.buf) <= e.size /\ e.buf = Bytes(c, Len(e.buf))
          /\ windows /\ Len(e.buf) < e.size => Len(e.buf) = 0
          /\ ~e.raced => data[e.file] = e.buf
    /\ e.pc = "remove" =>
          /\ e.op \in {"removeFile", "removeDir", "removeDirAll"}
          /\ e.file = None /\ e.path \in Paths /\ e.seen \in Inodes \cup Dirs
          /\ Accepts(e.op, e.seen)
          /\ ~e.raced => name[e.path] = e.seen

\* What a call that is over says: the parts of OutcomesRight.
Over(c, e) ==
    e.pc = "idle" =>
      /\ e.op = "read" /\ e.result = "ok" =>
            IsPrefix(e.buf, e.left) /\ (~e.raced => e.buf = e.seen)
      /\ e.op = "write" /\ ~e.raced =>
            /\ e.result = "ok" => e.left = Bytes(c, e.size)
            /\ e.result = "err" /\ e.file # None => IsPrefix(e.left, Bytes(c, e.size))
      /\ e.op \in Removals /\ e.result = "ok" /\ ~e.raced =>
            e.left = e.seen /\ Accepts(e.op, e.left)

\* Everyone who works has one file open, and only they have.
HandlesOK ==
    /\ \A h \in handles : Working(call[h.by]) /\ call[h.by].file = h.file
    /\ \A c \in Callers : Working(call[c]) =>
          \E h \in handles : h.by = c /\ h.file = call[c].file

FilesInv ==
    /\ windows \in BOOLEAN
    /\ name \in [Paths -> Meanings]
    /\ data \in [Inodes -> Content]
    /\ handles \subseteq [by : Callers, file : Inodes, mode : {"read", "write"}]
    /\ call \in [Callers -> CallRecords]
    /\ HandlesOK
    /\ \A c \in Callers : UnderWay(c, call[c]) /\ Over(c, call[c])

\* What a path names is a file, a directory or nothing.
LEMMA FilesDistinct == None \notin Inodes \cup Dirs
<1>1. None \notin Inodes
  BY FilesAssumption
<1>2. None # EmptyDir /\ None # FullDir
  <2>1. None = EmptyDir \/ None = FullDir => Cardinality({None, EmptyDir, FullDir}) # 3
    <3>1. \A x, y : Cardinality({x, y}) <= 2
      <4>1. ASSUME NEW x, NEW y PROVE Cardinality({x, y}) <= 2
        <5>1. IsFiniteSet({x}) /\ Cardinality({x}) = 1
          BY FS_Singleton
        <5>2. {x, y} = {x} \cup {y}
          OBVIOUS
        <5> QED
          BY <5>1, <5>2, FS_AddElement
      <4> QED
        BY <4>1
    <3>2. ASSUME None = EmptyDir \/ None = FullDir
          PROVE  {None, EmptyDir, FullDir} = {EmptyDir, FullDir}
      BY <3>2
    <3>3. Cardinality({EmptyDir, FullDir}) <= 2
      BY <3>1, Zenon
    <3>4. ~(3 <= 2)
      OBVIOUS
    <3> QED
      BY <3>2, <3>3, <3>4, Zenon
  <2> QED
    BY <2>1, FilesAssumption
<1> QED
  BY <1>1, <1>2 DEF Dirs

\* The invariant says that the outcomes are right.
LEMMA FilesInvOutcomes == FilesInv => OutcomesRight
<1> SUFFICES ASSUME FilesInv PROVE OutcomesRight
  OBVIOUS
<1>1. ReadRight
  BY DEF FilesInv, Over, ReadRight, Done
<1>2. WriteRight
  BY DEF FilesInv, Over, WriteRight, Done
<1>3. RemovalRight
  BY DEF FilesInv, Over, RemovalRight, Done
<1>4. HandlesClosed
  BY DEF FilesInv, HandlesOK, Working, HandlesClosed
<1> QED
  BY <1>1, <1>2, <1>3, <1>4 DEF OutcomesRight

\* What an action of c does to the call of another: it may be raced, and if it is
\* not, its file and its path stay as they are.
Undisturbed(x) ==
    /\ \/ call'[x] = call[x]
       \/ call'[x] = [call[x] EXCEPT !.raced = TRUE]
    /\ ~call'[x].raced =>
          /\ Working(call[x]) => data'[call[x].file] = data[call[x].file]
          /\ call[x].pc = "remove" => name'[call[x].path] = name[call[x].path]

\* The handles of others stay, and c has one exactly if it works.
HandlesOf(c) ==
    /\ \A h : h.by # c => (h \in handles' <=> h \in handles)
    /\ \A h \in handles' : h.by = c => Working(call'[c]) /\ call'[c].file = h.file
    /\ Working(call'[c]) => \E h \in handles' : h.by = c /\ h.file = call'[c].file

\* An undisturbed call knows what it knew.
LEMMA UndisturbedKeeps ==
    ASSUME FilesInv, NEW x \in Callers, UNCHANGED windows, Undisturbed(x)
    PROVE  /\ call'[x] \in CallRecords
           /\ UnderWay(x, call[x])' /\ Over(x, call[x])'
           /\ Working(call'[x]) <=> Working(call[x])
           /\ call'[x].file = call[x].file
<1>1. call[x] \in CallRecords /\ UnderWay(x, call[x]) /\ Over(x, call[x])
  BY DEF FilesInv
<1>2. /\ call'[x] \in CallRecords
      /\ call'[x].op = call[x].op /\ call'[x].pc = call[x].pc
      /\ call'[x].path = call[x].path /\ call'[x].file = call[x].file
      /\ call'[x].size = call[x].size /\ call'[x].buf = call[x].buf
      /\ call'[x].result = call[x].result /\ call'[x].seen = call[x].seen
      /\ call'[x].left = call[x].left
      /\ ~call'[x].raced => ~call[x].raced
  BY <1>1 DEF Undisturbed, CallRecords
<1>3. UnderWay(x, call[x])'
  <2>1. ~call'[x].raced => ~call[x].raced /\ UnderWay(x, call[x])
    BY <1>1, <1>2
  <2> QED
    BY <1>1, <1>2, <2>1 DEF UnderWay, Undisturbed, Working
<1>4. Over(x, call[x])'
  BY <1>1, <1>2 DEF Over
<1> QED
  BY <1>2, <1>3, <1>4 DEF Working

\* An action of c keeps the invariant if it leaves c's own call in order.
LEMMA CallerKeeps ==
    ASSUME FilesInv, NEW c \in Callers, UNCHANGED windows,
           name' \in [Paths -> Meanings], data' \in [Inodes -> Content],
           handles' \subseteq [by : Callers, file : Inodes, mode : {"read", "write"}],
           call' \in [Callers -> CallRecords], HandlesOf(c),
           UnderWay(c, call[c])', Over(c, call[c])',
           \A x \in Callers \ {c} : Undisturbed(x)
    PROVE  FilesInv'
<1>1. \A x \in Callers \ {c} :
        /\ UnderWay(x, call[x])' /\ Over(x, call[x])'
        /\ Working(call'[x]) <=> Working(call[x])
        /\ call'[x].file = call[x].file
  BY UndisturbedKeeps
<1>2. HandlesOK'
  <2>1. ASSUME NEW h \in handles' PROVE Working(call'[h.by]) /\ call'[h.by].file = h.file
    <3>1. CASE h.by = c
      BY <3>1 DEF HandlesOf
    <3>2. CASE h.by # c
      <4>1. h \in handles /\ h.by \in Callers \ {c}
        BY <3>2 DEF HandlesOf
      <4> QED
        BY <1>1, <4>1 DEF FilesInv, HandlesOK
    <3> QED
      BY <3>1, <3>2
  <2>2. ASSUME NEW x \in Callers, Working(call'[x])
        PROVE  \E h \in handles' : h.by = x /\ h.file = call'[x].file
    <3>1. CASE x = c
      BY <2>2, <3>1 DEF HandlesOf
    <3>2. CASE x # c
      <4>1. PICK h \in handles : h.by = x /\ h.file = call[x].file
        BY <1>1, <2>2, <3>2 DEF FilesInv, HandlesOK
      <4> QED
        BY <1>1, <3>2, <4>1 DEF HandlesOf
    <3> QED
      BY <3>1, <3>2
  <2> QED
    BY <2>1, <2>2 DEF HandlesOK
<1>3. windows' \in BOOLEAN
  BY DEF FilesInv
<1> QED
  BY <1>1, <1>2, <1>3 DEF FilesInv

\* Only c's call changes.
LEMMA CallIsEffect ==
    ASSUME FilesInv, NEW c \in Callers, NEW e \in CallRecords, CallIs(c, e)
    PROVE  /\ call' \in [Callers -> CallRecords] /\ call'[c] = e
           /\ \A x \in Callers \ {c} : call'[x] = call[x]
  BY DEF FilesInv, CallIs

\* c's call changes, and those of others on the file f or the paths ps are raced.
LEMMA RaceEffect ==
    ASSUME FilesInv, NEW c \in Callers, NEW e \in CallRecords, NEW f, NEW ps,
           CallAndRace(c, e, f, ps)
    PROVE  /\ call' \in [Callers -> CallRecords] /\ call'[c] = e
           /\ \A x \in Callers \ {c} :
                 /\ \/ call'[x] = call[x]
                    \/ call'[x] = [call[x] EXCEPT !.raced = TRUE]
                 /\ ~call'[x].raced =>
                       /\ Working(call[x]) => call[x].file # f
                       /\ call[x].pc = "remove" => call[x].path \notin ps
<1>1. \A x \in Callers : call[x] \in CallRecords /\ UnderWay(x, call[x])
  BY DEF FilesInv
<1>2. \A x \in Callers : [call[x] EXCEPT !.raced = TRUE] \in CallRecords
  BY <1>1 DEF CallRecords
<1>3. \A x \in Callers : [call[x] EXCEPT !.raced = TRUE].raced = TRUE
  BY <1>1 DEF CallRecords
<1>4. call' \in [Callers -> CallRecords] /\ call'[c] = e
  BY <1>1, <1>2 DEF CallAndRace
<1>5. ASSUME NEW x \in Callers \ {c}
      PROVE  /\ \/ call'[x] = call[x]
                \/ call'[x] = [call[x] EXCEPT !.raced = TRUE]
             /\ ~call'[x].raced =>
                   /\ Working(call[x]) => call[x].file # f
                   /\ call[x].pc = "remove" => call[x].path \notin ps
  <2>1. /\ Working(call[x]) => call[x].file # None /\ call[x].pc # "idle"
        /\ call[x].pc = "remove" => call[x].file = None
    BY <1>1, FilesAssumption DEF UnderWay, Working
  <2>2. call'[x] = IF /\ call[x].pc # "idle"
                      /\ IF call[x].file # None THEN call[x].file = f ELSE call[x].path \in ps
                   THEN [call[x] EXCEPT !.raced = TRUE] ELSE call[x]
    BY DEF CallAndRace
  <2> QED
    BY <1>3, <2>1, <2>2
<1> QED
  BY <1>4, <1>5

\* A record of a call that begins has what NoCall has and the fields set.
LEMMA NoCallTyped == NoCall \in CallRecords
<1>1. <<>> \in Content
  BY EmptySeq DEF Content
<1> QED
  BY <1>1 DEF NoCall, CallRecords, Meanings

\* Runs of one byte.
LEMMA BytesRight ==
    ASSUME NEW c \in Callers, NEW n \in Nat
    PROVE  /\ Bytes(c, n) \in Content /\ Len(Bytes(c, n)) = n
           /\ \A i \in 1 .. n : Bytes(c, n)[i] = c
<1>1. Bytes(c, n) \in [1 .. n -> Callers \cup {Old, Zero}]
  BY DEF Bytes
<1>2. Bytes(c, n) \in Content
  BY <1>1 DEF Content
<1> QED
  BY <1>2, LenProperties DEF Bytes, Content

\* Writing behind what was written gives one longer run.
LEMMA AppendedBytes ==
    ASSUME NEW c \in Callers, NEW k \in Nat, NEW n \in Nat
    PROVE  /\ Overwritten(Bytes(c, k), k, Bytes(c, n)) = Bytes(c, k + n)
           /\ Bytes(c, k) \o Bytes(c, n) = Bytes(c, k + n)
<1>1. /\ Len(Bytes(c, k)) = k /\ Len(Bytes(c, n)) = n /\ k + n \in Nat
      /\ \A i \in 1 .. k : Bytes(c, k)[i] = c
      /\ \A i \in 1 .. n : Bytes(c, n)[i] = c
      /\ Bytes(c, k) \in Content /\ Bytes(c, n) \in Content
  BY BytesRight
<1>2. Overwritten(Bytes(c, k), k, Bytes(c, n)) = Bytes(c, k + n)
  <2>1. (IF k + n > k THEN k + n ELSE k) = k + n
    OBVIOUS
  <2>2. Overwritten(Bytes(c, k), k, Bytes(c, n))
          = [i \in 1 .. k + n |-> IF i > k /\ i <= k + n THEN Bytes(c, n)[i - k]
                                  ELSE IF i <= k THEN Bytes(c, k)[i] ELSE Zero]
    BY <1>1, <2>1 DEF Overwritten
  <2>3. \A i \in 1 .. k + n : (IF i > k /\ i <= k + n THEN Bytes(c, n)[i - k]
                               ELSE IF i <= k THEN Bytes(c, k)[i] ELSE Zero) = c
    BY <1>1
  <2>4. Bytes(c, k + n) = [i \in 1 .. k + n |-> c]
    BY DEF Bytes
  <2> QED
    BY <2>2, <2>3, <2>4
<1>3. Bytes(c, k) \o Bytes(c, n) = Bytes(c, k + n)
  <2>1. /\ Bytes(c, k) \o Bytes(c, n) \in Content
        /\ Len(Bytes(c, k) \o Bytes(c, n)) = k + n
        /\ \A i \in 1 .. k + n : (Bytes(c, k) \o Bytes(c, n))[i] = c
    <3>1. /\ Bytes(c, k) \o Bytes(c, n) \in Content
          /\ Len(Bytes(c, k) \o Bytes(c, n)) = Len(Bytes(c, k)) + Len(Bytes(c, n))
          /\ \A i \in 1 .. Len(Bytes(c, k)) + Len(Bytes(c, n)) :
                (Bytes(c, k) \o Bytes(c, n))[i] =
                   IF i <= Len(Bytes(c, k)) THEN Bytes(c, k)[i]
                   ELSE Bytes(c, n)[i - Len(Bytes(c, k))]
      BY <1>1, ConcatProperties DEF Content
    <3> QED
      BY <1>1, <3>1
  <2>2. /\ Bytes(c, k + n) \in Content /\ Len(Bytes(c, k + n)) = k + n
        /\ \A i \in 1 .. k + n : Bytes(c, k + n)[i] = c
    BY <1>1, BytesRight
  <2> QED
    BY <1>1, <2>1, <2>2, SeqEqual DEF Content
<1> QED
  BY <1>2, <1>3

\* Whatever is written where, the result is bytes.
LEMMA OverwrittenTyped ==
    ASSUME NEW d \in Content, NEW k \in Nat, NEW c \in Callers, NEW n \in Nat
    PROVE  Overwritten(d, k, Bytes(c, n)) \in Content
<1>1. /\ Len(d) \in Nat /\ Len(Bytes(c, n)) = n /\ k + n \in Nat
      /\ \A i \in 1 .. n : Bytes(c, n)[i] = c
      /\ \A i \in 1 .. Len(d) : d[i] \in Callers \cup {Old, Zero}
  <2>1. d \in Seq(Callers \cup {Old, Zero})
    BY DEF Content
  <2>2. Len(d) \in Nat
    BY <2>1, LenProperties
  <2>3. ASSUME NEW i \in 1 .. Len(d) PROVE d[i] \in Callers \cup {Old, Zero}
    BY <2>1, ElementOfSeq
  <2>4. Len(Bytes(c, n)) = n /\ \A i \in 1 .. n : Bytes(c, n)[i] = c
    BY BytesRight
  <2> QED
    BY <2>2, <2>3, <2>4
<1> DEFINE len == IF k + n > Len(d) THEN k + n ELSE Len(d)
           o == [i \in 1 .. len |-> IF i > k /\ i <= k + n THEN Bytes(c, n)[i - k]
                                    ELSE IF i <= Len(d) THEN d[i] ELSE Zero]
<1>2. len \in Nat
  BY <1>1
<1>3. \A i \in 1 .. len : (IF i > k /\ i <= k + n THEN Bytes(c, n)[i - k]
                           ELSE IF i <= Len(d) THEN d[i] ELSE Zero) \in Callers \cup {Old, Zero}
  BY <1>1, <1>2
<1>4. o \in [1 .. len -> Callers \cup {Old, Zero}]
  BY <1>3
<1>5. Overwritten(d, k, Bytes(c, n)) = o
  BY <1>1 DEF Overwritten
<1> HIDE DEF len, o
<1>6. o \in Content
  BY <1>2, <1>4, SeqDef DEF Content
<1> QED
  BY <1>5, <1>6

\* A sequence that another one begins with.
LEMMA Begins ==
    ASSUME NEW s \in Content, NEW t \in Content, Len(s) <= Len(t),
           \A i \in 1 .. Len(s) : s[i] = t[i]
    PROVE  IsPrefix(s, t)
<1>1. Len(s) \in Nat /\ Len(t) \in Nat
  BY LenProperties DEF Content
<1>2. SubSeq(s, 1, Len(s)) = s
  BY SubSeqFull DEF Content
<1>3. /\ SubSeq(t, 1, Len(s)) \in Content
      /\ Len(SubSeq(t, 1, Len(s))) = Len(s)
      /\ \A i \in 1 .. Len(s) : SubSeq(t, 1, Len(s))[i] = t[i]
  <2>1. \A i \in 1 .. Len(s) : t[i] \in Callers \cup {Old, Zero}
    BY <1>1, ElementOfSeq DEF Content
  <2>2. /\ SubSeq(t, 1, Len(s)) \in Content
        /\ Len(SubSeq(t, 1, Len(s))) = IF 1 <= Len(s) THEN Len(s) - 1 + 1 ELSE 0
        /\ \A i \in 1 .. Len(s) - 1 + 1 : SubSeq(t, 1, Len(s))[i] = t[1 + i - 1]
    BY <1>1, <2>1, SubSeqProperties DEF Content
  <2> QED
    BY <1>1, <2>2
<1>4. SubSeq(t, 1, Len(s)) = s
  BY <1>1, <1>3, SeqEqual DEF Content
<1> QED
  BY <1>2, <1>4 DEF IsPrefix

-----------------------------------------------------------------------------
\* A call that is refused leaves everything as it is.
LEMMA RefusedKeeps ==
    ASSUME FilesInv, NEW c \in Callers, call[c].pc \in {"idle", "remove"},
           NEW r \in CallRecords, CallIs(c, r),
           r.pc = "idle", r.result = "err", r.op = "write" => r.file = None,
           UNCHANGED <<windows, name, data, handles>>
    PROVE  FilesInv'
<1>1. /\ call' \in [Callers -> CallRecords] /\ call'[c] = r
      /\ \A x \in Callers \ {c} : call'[x] = call[x]
  BY CallIsEffect
<1>2. \A h \in handles : h.by # c
  BY DEF FilesInv, HandlesOK, Working
<1>3. HandlesOf(c)
  BY <1>1, <1>2 DEF HandlesOf, Working
<1>4. UnderWay(c, call[c])'
  BY <1>1 DEF UnderWay, Working
<1>5. Over(c, call[c])'
  BY <1>1 DEF Over
<1>6. \A x \in Callers \ {c} : Undisturbed(x)
  BY <1>1 DEF Undisturbed
<1> QED
  BY <1>1, <1>3, <1>4, <1>5, <1>6, CallerKeeps DEF FilesInv

\* One that changes what the paths ps name, and no file that is open, races only
\* those who are about to remove what they saw there.
LEMMA NamesKeep ==
    ASSUME FilesInv, NEW c \in Callers, call[c].pc \in {"idle", "remove"},
           NEW r \in CallRecords, NEW ps, CallAndRace(c, r, Zero, ps),
           r.pc = "idle", r.op \notin {"read", "write"},
           r.op \in Removals /\ ~r.raced => r.left = r.seen /\ Accepts(r.op, r.left),
           UNCHANGED <<windows, handles>>,
           name' \in [Paths -> Meanings], \A q \in Paths \ ps : name'[q] = name[q],
           data' \in [Inodes -> Content],
           \A f \in Inodes : IsOpen(f) => data'[f] = data[f]
    PROVE  FilesInv'
<1>1. /\ call' \in [Callers -> CallRecords] /\ call'[c] = r
      /\ \A x \in Callers \ {c} :
            /\ call'[x] = call[x] \/ call'[x] = [call[x] EXCEPT !.raced = TRUE]
            /\ ~call'[x].raced /\ call[x].pc = "remove" => call[x].path \notin ps
  BY RaceEffect
<1>2. \A h \in handles : h.by # c
  BY DEF FilesInv, HandlesOK, Working
<1>3. HandlesOf(c)
  BY <1>1, <1>2 DEF HandlesOf, Working
<1>4. UnderWay(c, call[c])'
  BY <1>1 DEF UnderWay, Working
<1>5. Over(c, call[c])'
  BY <1>1 DEF Over
<1>6. ASSUME NEW x \in Callers \ {c} PROVE Undisturbed(x)
  <2>1. Working(call[x]) => data'[call[x].file] = data[call[x].file]
    BY DEF FilesInv, HandlesOK, IsOpen, UnderWay
  <2>2. ~call'[x].raced /\ call[x].pc = "remove" => name'[call[x].path] = name[call[x].path]
    BY <1>1 DEF FilesInv, UnderWay
  <2> QED
    BY <1>1, <2>1, <2>2 DEF Undisturbed
<1>7. handles' \subseteq [by : Callers, file : Inodes, mode : {"read", "write"}]
  BY DEF FilesInv
<1> QED
  BY <1>1, <1>3, <1>4, <1>5, <1>6, <1>7, CallerKeeps

\* An open for reading.
LEMMA ReadOpenKeeps ==
    ASSUME FilesInv, NEW c \in Callers, NEW p \in Paths, ReadOpen(c, p)
    PROVE  FilesInv'
<1> DEFINE e == [NoCall EXCEPT !.op = "read", !.path = p]
<1>1. /\ e \in CallRecords /\ e.op = "read" /\ e.path = p /\ e.pc = "idle" /\ e.file = None
      /\ ~e.raced
  BY NoCallTyped DEF CallRecords, NoCall
<1>2. call[c].pc = "idle" /\ \A h \in handles : h.by # c
  BY DEF ReadOpen, CanCall, FilesInv, HandlesOK, Working
<1>3. UNCHANGED <<windows, name, data>>
  BY DEF ReadOpen
<1> HIDE DEF e
<1>4. CASE /\ name[p] \in Inodes
           /\ handles' = handles \cup {[by |-> c, file |-> name[p], mode |-> "read"]}
           /\ CallIs(c, [e EXCEPT !.pc = "stat", !.file = name[p], !.seen = data[name[p]]])
  <2>1. PICK r \in CallRecords : /\ CallIs(c, r) /\ r.op = "read" /\ r.pc = "stat"
                                 /\ r.file = name[p] /\ r.seen = data[name[p]]
    <3>1. [e EXCEPT !.pc = "stat", !.file = name[p], !.seen = data[name[p]]] \in CallRecords
      BY <1>1, <1>4 DEF CallRecords, FilesInv
    <3>2. PICK r : r = [e EXCEPT !.pc = "stat", !.file = name[p], !.seen = data[name[p]]]
      OBVIOUS
    <3>3. r.op = "read" /\ r.pc = "stat" /\ r.file = name[p] /\ r.seen = data[name[p]]
      BY <1>1, <3>2 DEF CallRecords
    <3> QED
      BY <1>4, <3>1, <3>2, <3>3
  <2>2. /\ call' \in [Callers -> CallRecords] /\ call'[c] = r
        /\ \A x \in Callers \ {c} : call'[x] = call[x]
    BY <2>1, CallIsEffect
  <2>3. PICK h : h = [by |-> c, file |-> name[p], mode |-> "read"]
    OBVIOUS
  <2>4. /\ h.by = c /\ h.file = name[p] /\ handles' = handles \cup {h}
        /\ h \in [by : Callers, file : Inodes, mode : {"read", "write"}]
    BY <1>4, <2>3
  <2>5. HandlesOf(c)
    BY <1>2, <2>1, <2>2, <2>4 DEF HandlesOf, Working
  <2>6. UnderWay(c, call[c])'
    BY <1>3, <1>4, <2>1, <2>2 DEF UnderWay, Working
  <2>7. Over(c, call[c])'
    BY <2>1, <2>2 DEF Over
  <2>8. \A x \in Callers \ {c} : Undisturbed(x)
    BY <1>3, <2>2 DEF Undisturbed
  <2>9. handles' \subseteq [by : Callers, file : Inodes, mode : {"read", "write"}]
    BY <2>4 DEF FilesInv
  <2> QED
    BY <1>3, <2>2, <2>5, <2>6, <2>7, <2>8, <2>9, CallerKeeps DEF FilesInv
<1>5. CASE CallIs(c, Returned(e, "err")) /\ UNCHANGED handles
  <2>1. /\ Returned(e, "err") \in CallRecords /\ Returned(e, "err").op = "read"
        /\ Returned(e, "err").pc = "idle" /\ Returned(e, "err").result = "err"
    BY <1>1 DEF CallRecords, Returned
  <2> QED
    BY <1>2, <1>3, <1>5, <2>1, RefusedKeeps
<1> QED
  BY <1>4, <1>5 DEF ReadOpen, e

\* A call that is over has closed its file.
LEMMA ClosedHandles ==
    ASSUME FilesInv, NEW c \in Callers, Close(c), call'[c].pc = "idle"
    PROVE  /\ HandlesOf(c)
           /\ handles' \subseteq [by : Callers, file : Inodes, mode : {"read", "write"}]
  BY DEF FilesInv, Close, HandlesOf, Working

\* The size is asked for.
LEMMA ReadStatKeeps ==
    ASSUME FilesInv, NEW c \in Callers, ReadStat(c)
    PROVE  FilesInv'
<1>1. /\ call[c] \in CallRecords /\ UnderWay(c, call[c]) /\ call[c].pc = "stat"
      /\ call[c].op = "read" /\ call[c].file \in Inodes
      /\ ~call[c].raced => data[call[c].file] = call[c].seen
      /\ data[call[c].file] \in Content
  BY DEF FilesInv, ReadStat, UnderWay, Working
<1>2. UNCHANGED <<windows, name, data>>
  BY DEF ReadStat
<1>3. CASE /\ LET n == Len(data[call[c].file])
              IN  CallIs(c, [call[c] EXCEPT !.pc = "read", !.size = n,
                                            !.buf = [i \in 1 .. n |-> Zero]])
           /\ UNCHANGED handles
  <2>1. PICK n \in Nat : n = Len(data[call[c].file])
    BY <1>1, LenProperties DEF Content
  <2>2. PICK b : b = [i \in 1 .. n |-> Zero]
    OBVIOUS
  <2>3. b \in Content /\ Len(b) = n
    <3>1. b \in [1 .. n -> Callers \cup {Old, Zero}]
      BY <2>2
    <3> QED
      BY <3>1, SeqDef, LenProperties DEF Content
  <2>4. PICK r : r = [call[c] EXCEPT !.pc = "read", !.size = n, !.buf = b]
    OBVIOUS
  <2>5. /\ r \in CallRecords /\ r.op = "read" /\ r.pc = "read" /\ r.file = call[c].file
        /\ r.size = n /\ r.buf = b /\ r.seen = call[c].seen /\ r.raced = call[c].raced
    BY <1>1, <2>3, <2>4 DEF CallRecords
  <2>6. /\ call' \in [Callers -> CallRecords] /\ call'[c] = r
        /\ \A x \in Callers \ {c} : call'[x] = call[x]
    BY <1>3, <2>1, <2>2, <2>4, <2>5, CallIsEffect
  <2>7. HandlesOf(c)
    BY <1>1, <1>3, <2>5, <2>6 DEF HandlesOf, Working, FilesInv, HandlesOK
  <2>8. UnderWay(c, call[c])'
    BY <1>1, <1>2, <2>1, <2>3, <2>5, <2>6 DEF UnderWay, Working
  <2>9. Over(c, call[c])'
    BY <2>5, <2>6 DEF Over
  <2>10. \A x \in Callers \ {c} : Undisturbed(x)
    BY <1>2, <2>6 DEF Undisturbed
  <2> QED
    BY <1>2, <1>3, <2>6, <2>7, <2>8, <2>9, <2>10, CallerKeeps DEF FilesInv
<1>4. CASE Close(c) /\ CallIs(c, Returned(call[c], "err"))
  <2>1. PICK r : r = Returned(call[c], "err")
    OBVIOUS
  <2>2. r \in CallRecords /\ r.op = "read" /\ r.pc = "idle" /\ r.result = "err"
    BY <1>1, <2>1 DEF CallRecords, Returned
  <2>3. /\ call' \in [Callers -> CallRecords] /\ call'[c] = r
        /\ \A x \in Callers \ {c} : call'[x] = call[x]
    BY <1>4, <2>1, <2>2, CallIsEffect
  <2>4. UnderWay(c, call[c])'
    BY <2>2, <2>3 DEF UnderWay, Working
  <2>5. Over(c, call[c])'
    BY <2>2, <2>3 DEF Over, Removals
  <2>6. \A x \in Callers \ {c} : Undisturbed(x)
    BY <1>2, <2>3 DEF Undisturbed
  <2> QED
    BY <1>2, <1>4, <2>2, <2>3, <2>4, <2>5, <2>6, ClosedHandles, CallerKeeps DEF FilesInv
<1> QED
  BY <1>3, <1>4 DEF ReadStat

\* The bytes are read.
LEMMA ReadDataKeeps ==
    ASSUME FilesInv, NEW c \in Callers, ReadData(c)
    PROVE  FilesInv'
<1>1. /\ call[c] \in CallRecords /\ call[c].pc = "read" /\ call[c].op = "read"
      /\ call[c].file \in Inodes /\ Len(call[c].buf) = call[c].size
      /\ ~call[c].raced => /\ data[call[c].file] = call[c].seen
                           /\ call[c].size = Len(call[c].seen)
  BY DEF FilesInv, ReadData, UnderWay, Working
<1>2. UNCHANGED <<windows, name, data>> /\ Close(c)
  BY DEF ReadData
<1>3. PICK d \in Content : d = data[call[c].file]
  BY <1>1 DEF FilesInv
<1>4. PICK size \in Nat, buf \in Content : size = call[c].size /\ buf = call[c].buf
  BY <1>1 DEF CallRecords
<1>5. /\ Len(d) \in Nat /\ Len(buf) = size /\ DOMAIN buf = 1 .. size
      /\ \A i \in 1 .. size : buf[i] \in Callers \cup {Old, Zero}
      /\ \A i \in 1 .. Len(d) : d[i] \in Callers \cup {Old, Zero}
  BY <1>1, <1>4, LenProperties, ElementOfSeq DEF Content
<1>6. PICK r \in CallRecords :
        /\ CallIs(c, r) /\ r.op = "read" /\ r.pc = "idle" /\ r.left = d
        /\ r.seen = call[c].seen /\ r.raced = call[c].raced
        /\ r.result = "ok" => size <= Len(d) /\ r.buf = [i \in 1 .. size |-> d[i]]
  <2>1. ASSUME NEW n \in Nat, n <= size, n <= Len(d),
               CallIs(c, Returned([call[c] EXCEPT !.buf = Filled(buf, d, n), !.left = d],
                                  IF n < size THEN "err" ELSE "ok"))
        PROVE  \E r \in CallRecords :
                 /\ CallIs(c, r) /\ r.op = "read" /\ r.pc = "idle" /\ r.left = d
                 /\ r.seen = call[c].seen /\ r.raced = call[c].raced
                 /\ r.result = "ok" => size <= Len(d) /\ r.buf = [i \in 1 .. size |-> d[i]]
    <3>1. PICK b : b = Filled(buf, d, n)
      OBVIOUS
    <3>2. b = [i \in 1 .. size |-> IF i <= n THEN d[i] ELSE buf[i]]
      BY <1>5, <3>1 DEF Filled
    <3>3. b \in [1 .. size -> Callers \cup {Old, Zero}]
      BY <1>5, <2>1, <3>2
    <3>4. b \in Content
      BY <3>3, SeqDef DEF Content
    <3>5. ~(n < size) => b = [i \in 1 .. size |-> d[i]]
      BY <2>1, <3>2
    <3>6. PICK res \in {"ok", "err"} : res = IF n < size THEN "err" ELSE "ok"
      OBVIOUS
    <3>7. res = "ok" => ~(n < size)
      BY <3>6
    <3>8. PICK r : r = Returned([call[c] EXCEPT !.buf = b, !.left = d], res)
      OBVIOUS
    <3>9. /\ r \in CallRecords /\ r.op = "read" /\ r.pc = "idle" /\ r.left = d
          /\ r.seen = call[c].seen /\ r.raced = call[c].raced
          /\ r.buf = b /\ r.result = res
      BY <1>1, <3>4, <3>8 DEF CallRecords, Returned
    <3>10. CallIs(c, r)
      BY <2>1, <3>1, <3>6, <3>8
    <3>11. res = "ok" => size <= Len(d)
      BY <1>5, <2>1, <3>7
    <3> QED
      BY <3>5, <3>7, <3>9, <3>10, <3>11
  <2>2. ASSUME CallIs(c, Returned([call[c] EXCEPT !.left = d], "err"))
        PROVE  \E r \in CallRecords :
                 /\ CallIs(c, r) /\ r.op = "read" /\ r.pc = "idle" /\ r.left = d
                 /\ r.seen = call[c].seen /\ r.raced = call[c].raced
                 /\ r.result = "ok" => size <= Len(d) /\ r.buf = [i \in 1 .. size |-> d[i]]
    <3>1. PICK r : r = Returned([call[c] EXCEPT !.left = d], "err")
      OBVIOUS
    <3>2. /\ r \in CallRecords /\ r.op = "read" /\ r.pc = "idle" /\ r.left = d
          /\ r.seen = call[c].seen /\ r.raced = call[c].raced /\ r.result = "err"
      BY <1>1, <3>1 DEF CallRecords, Returned
    <3> QED
      BY <2>2, <3>1, <3>2
  <2>3. \/ \E n \in 0 .. (IF Len(d) < size THEN Len(d) ELSE size) :
              CallIs(c, Returned([call[c] EXCEPT !.buf = Filled(buf, d, n), !.left = d],
                                 IF n < size THEN "err" ELSE "ok"))
        \/ CallIs(c, Returned([call[c] EXCEPT !.left = d], "err"))
    BY <1>3, <1>4 DEF ReadData
  <2>4. \A n \in 0 .. (IF Len(d) < size THEN Len(d) ELSE size) :
           n \in Nat /\ n <= size /\ n <= Len(d)
    BY <1>5
  <2> QED
    BY <2>1, <2>2, <2>3, <2>4
<1>7. /\ call' \in [Callers -> CallRecords] /\ call'[c] = r
      /\ \A x \in Callers \ {c} : call'[x] = call[x]
  BY <1>6, CallIsEffect
<1>8. UnderWay(c, call[c])'
  BY <1>6, <1>7 DEF UnderWay, Working
<1>9. Over(c, call[c])'
  <2>1. ASSUME r.result = "ok" PROVE IsPrefix(r.buf, d) /\ (~r.raced => r.buf = r.seen)
    <3>1. PICK b \in Content : b = r.buf /\ b = [i \in 1 .. size |-> d[i]] /\ size <= Len(d)
      BY <1>6, <2>1 DEF CallRecords
    <3>2. Len(b) = size /\ \A i \in 1 .. size : b[i] = d[i]
      BY <1>4, <3>1, LenProperties DEF Content
    <3>3. IsPrefix(b, d)
      BY <3>1, <3>2, Begins
    <3>4. size = Len(d) => b = d
      BY <3>2, SeqEqual DEF Content
    <3> QED
      BY <1>1, <1>3, <1>4, <1>6, <3>1, <3>3, <3>4
  <2> QED
    BY <1>6, <1>7, <2>1 DEF Over, Removals
<1>10. \A x \in Callers \ {c} : Undisturbed(x)
  BY <1>2, <1>7 DEF Undisturbed
<1> QED
  BY <1>2, <1>6, <1>7, <1>8, <1>9, <1>10, ClosedHandles, CallerKeeps DEF FilesInv

-----------------------------------------------------------------------------
\* A file that is emptied: whoever else has it open is raced.
LEMMA WriteOpenKeeps ==
    ASSUME FilesInv, NEW c \in Callers, NEW p \in Paths, NEW size \in Nat,
           WriteOpen(c, p, size)
    PROVE  FilesInv'
<1> DEFINE e == [NoCall EXCEPT !.op = "write", !.path = p, !.size = size]
<1>1. /\ e \in CallRecords /\ e.op = "write" /\ e.path = p /\ e.size = size
      /\ e.pc = "idle" /\ e.file = None /\ e.buf = <<>> /\ ~e.raced
  BY NoCallTyped DEF CallRecords, NoCall
<1>2. call[c].pc = "idle" /\ UNCHANGED windows /\ \A h \in handles : h.by # c
  BY DEF WriteOpen, CanCall, FilesInv, HandlesOK, Working
<1>3. /\ <<>> \in Content /\ Len(<<>>) = 0 /\ Bytes(c, 0) = <<>>
  <2>1. <<>> \in Content /\ Len(<<>>) = 0
    BY EmptySeq DEF Content
  <2>2. Bytes(c, 0) \in Content /\ Len(Bytes(c, 0)) = 0
    BY BytesRight
  <2> QED
    BY <2>1, <2>2, SeqEqual DEF Content
<1> HIDE DEF e
<1>4. ASSUME NEW f \in Inodes,
             name[p] = f \/ name[p] = None,
             name' = [name EXCEPT ![p] = f],
             data' = [data EXCEPT ![f] = <<>>],
             handles' = handles \cup {[by |-> c, file |-> f, mode |-> "write"]},
             CallAndRace(c, [e EXCEPT !.pc = "write", !.file = f, !.seen = data[f]], f, {})
      PROVE  FilesInv'
  <2>1. PICK r \in CallRecords :
          /\ CallAndRace(c, r, f, {}) /\ r.op = "write" /\ r.pc = "write" /\ r.file = f
          /\ r.size = size /\ r.buf = <<>>
    <3>1. PICK r : r = [e EXCEPT !.pc = "write", !.file = f, !.seen = data[f]]
      OBVIOUS
    <3>2. data[f] \in Content
      BY DEF FilesInv
    <3>3. /\ r \in CallRecords /\ r.op = "write" /\ r.pc = "write" /\ r.file = f
          /\ r.size = size /\ r.buf = <<>>
      BY <1>1, <3>1, <3>2 DEF CallRecords
    <3> QED
      BY <1>4, <3>1, <3>3
  <2>2. /\ call' \in [Callers -> CallRecords] /\ call'[c] = r
        /\ \A x \in Callers \ {c} :
              /\ call'[x] = call[x] \/ call'[x] = [call[x] EXCEPT !.raced = TRUE]
              /\ ~call'[x].raced /\ Working(call[x]) => call[x].file # f
    BY <2>1, RaceEffect
  <2>3. PICK h : h = [by |-> c, file |-> f, mode |-> "write"]
    OBVIOUS
  <2>4. /\ h.by = c /\ h.file = f /\ handles' = handles \cup {h}
        /\ h \in [by : Callers, file : Inodes, mode : {"read", "write"}]
    BY <1>4, <2>3
  <2>5. HandlesOf(c)
    BY <1>2, <2>1, <2>2, <2>4 DEF HandlesOf, Working
  <2>6. /\ name' \in [Paths -> Meanings] /\ data' \in [Inodes -> Content]
        /\ data'[f] = <<>>
        /\ \A g \in Inodes \ {f} : data'[g] = data[g]
        /\ \A q \in Paths : name[q] # None => name'[q] = name[q]
    BY <1>3, <1>4 DEF FilesInv, Meanings
  <2>7. UnderWay(c, call[c])'
    BY <1>3, <2>1, <2>2, <2>6 DEF UnderWay, Working
  <2>8. Over(c, call[c])'
    BY <2>1, <2>2 DEF Over
  <2>9. ASSUME NEW x \in Callers \ {c} PROVE Undisturbed(x)
    <3>1. /\ Working(call[x]) => call[x].file \in Inodes
          /\ ~call'[x].raced => ~call[x].raced
          /\ call[x].pc = "remove" =>
                /\ call[x].path \in Paths /\ call[x].seen \in Inodes \cup Dirs
                /\ ~call[x].raced => name[call[x].path] = call[x].seen
      BY <2>2 DEF FilesInv, UnderWay, CallRecords
    <3>2. None \notin Inodes \cup Dirs
      BY FilesDistinct
    <3> QED
      BY <2>2, <2>6, <3>1, <3>2 DEF Undisturbed
  <2>10. handles' \subseteq [by : Callers, file : Inodes, mode : {"read", "write"}]
    BY <2>4 DEF FilesInv
  <2> QED
    BY <1>2, <2>2, <2>5, <2>6, <2>7, <2>8, <2>9, <2>10, CallerKeeps
<1>5. CASE CallIs(c, Returned(e, "err")) /\ UNCHANGED <<name, data, handles>>
  <2>1. /\ Returned(e, "err") \in CallRecords /\ Returned(e, "err").file = None
        /\ Returned(e, "err").pc = "idle" /\ Returned(e, "err").result = "err"
    BY <1>1 DEF CallRecords, Returned
  <2> QED
    BY <1>2, <1>5, <2>1, RefusedKeeps
<1>6. Free \subseteq Inodes
  BY DEF Free
<1> QED
  BY <1>4, <1>5, <1>6 DEF WriteOpen, e

\* Bytes written by c to its file f: whoever else has it open is raced, and c goes
\* on with the call r or ends it.
LEMMA WritingKeeps ==
    ASSUME FilesInv, NEW c \in Callers, call[c].pc = "write", NEW n \in Nat,
           NEW r \in CallRecords, CallAndRace(c, r, call[c].file, {}),
           UNCHANGED <<windows, name>>,
           data' = [data EXCEPT ![call[c].file] =
                      Overwritten(@, Len(call[c].buf), Bytes(c, n))],
           UnderWay(c, r)', Over(c, r)',
           \/ UNCHANGED handles /\ Working(r) /\ r.file = call[c].file
           \/ Close(c) /\ r.pc = "idle"
    PROVE  FilesInv'
<1>1. PICK f \in Inodes : f = call[c].file
  BY DEF FilesInv, UnderWay, Working
<1>2. /\ call' \in [Callers -> CallRecords] /\ call'[c] = r
      /\ \A x \in Callers \ {c} :
            /\ call'[x] = call[x] \/ call'[x] = [call[x] EXCEPT !.raced = TRUE]
            /\ ~call'[x].raced /\ Working(call[x]) => call[x].file # f
  BY <1>1, RaceEffect
<1>3. call[c].buf \in Content /\ Len(call[c].buf) \in Nat /\ data[f] \in Content
  BY LenProperties DEF FilesInv, CallRecords, Content
<1>4. Overwritten(data[f], Len(call[c].buf), Bytes(c, n)) \in Content
  BY <1>3, OverwrittenTyped
<1>5. data' \in [Inodes -> Content] /\ \A g \in Inodes \ {f} : data'[g] = data[g]
  BY <1>1, <1>4 DEF FilesInv
<1>6. /\ HandlesOf(c)
      /\ handles' \subseteq [by : Callers, file : Inodes, mode : {"read", "write"}]
  <2>1. CASE UNCHANGED handles /\ Working(r) /\ r.file = call[c].file
    BY <1>2, <2>1 DEF FilesInv, HandlesOK, HandlesOf, Working
  <2>2. CASE Close(c) /\ r.pc = "idle"
    BY <1>2, <2>2, ClosedHandles
  <2> QED
    BY <2>1, <2>2
<1>7. UnderWay(c, call[c])' /\ Over(c, call[c])'
  BY <1>2
<1>8. ASSUME NEW x \in Callers \ {c} PROVE Undisturbed(x)
  <2>1. Working(call[x]) => call[x].file \in Inodes
    BY DEF FilesInv, UnderWay
  <2> QED
    BY <1>2, <1>5, <2>1 DEF Undisturbed
<1>9. name' \in [Paths -> Meanings]
  BY DEF FilesInv
<1> QED
  BY <1>2, <1>5, <1>6, <1>7, <1>8, <1>9, CallerKeeps

\* What a writer knows before its next step, and what n more bytes make of it.
LEMMA WriterKnows ==
    ASSUME FilesInv, NEW c \in Callers, call[c].pc = "write", NEW n \in Nat
    PROVE  /\ call[c] \in CallRecords /\ call[c].op = "write" /\ call[c].file \in Inodes
           /\ Len(call[c].buf) \in Nat /\ call[c].size \in Nat
           /\ Len(call[c].buf) <= call[c].size
           /\ windows /\ Len(call[c].buf) < call[c].size => Len(call[c].buf) = 0
           /\ Len(call[c].buf) + n \in Nat
           /\ call[c].buf \o Bytes(c, n) = Bytes(c, Len(call[c].buf) + n)
           /\ ~call[c].raced =>
                 Overwritten(data[call[c].file], Len(call[c].buf), Bytes(c, n))
                    = Bytes(c, Len(call[c].buf) + n)
<1>1. /\ call[c] \in CallRecords /\ call[c].op = "write" /\ call[c].file \in Inodes
      /\ Len(call[c].buf) <= call[c].size
      /\ call[c].buf = Bytes(c, Len(call[c].buf))
      /\ windows /\ Len(call[c].buf) < call[c].size => Len(call[c].buf) = 0
      /\ ~call[c].raced => data[call[c].file] = call[c].buf
  BY DEF FilesInv, UnderWay, Working
<1>2. Len(call[c].buf) \in Nat /\ call[c].size \in Nat
  BY <1>1, LenProperties DEF CallRecords, Content
<1>3. PICK k \in Nat : k = Len(call[c].buf)
  BY <1>2
<1>4. /\ Overwritten(Bytes(c, k), k, Bytes(c, n)) = Bytes(c, k + n)
      /\ Bytes(c, k) \o Bytes(c, n) = Bytes(c, k + n)
  BY AppendedBytes
<1>5. call[c].buf = Bytes(c, k) /\ (~call[c].raced => data[call[c].file] = Bytes(c, k))
  BY <1>1, <1>3
<1>6. /\ call[c].buf \o Bytes(c, n) = Bytes(c, k + n)
      /\ ~call[c].raced =>
            Overwritten(data[call[c].file], k, Bytes(c, n)) = Bytes(c, k + n)
  <2>1. call[c].buf \o Bytes(c, n) = Bytes(c, k + n)
    BY <1>4, <1>5, Zenon
  <2>2. ASSUME ~call[c].raced
        PROVE  Overwritten(data[call[c].file], k, Bytes(c, n)) = Bytes(c, k + n)
    BY <1>4, <1>5, <2>2, Zenon
  <2> QED
    BY <2>1, <2>2
<1>7. k + n \in Nat
  OBVIOUS
<1> QED
  BY <1>1, <1>2, <1>3, <1>6, <1>7, Zenon

\* A writer goes on with what remains.
LEMMA WriteSomeKeeps ==
    ASSUME FilesInv, NEW c \in Callers, WriteSome(c)
    PROVE  FilesInv'
<1>1. PICK n \in 1 .. call[c].size - Len(call[c].buf) :
        (n = call[c].size \/ ~windows) /\ Wrote(c, n)
  BY DEF WriteSome
<1>2. /\ call[c].pc = "write" /\ Len(call[c].buf) < call[c].size
      /\ UNCHANGED <<windows, name, handles>>
  BY DEF WriteSome
<1>3. n \in Nat
  OBVIOUS
<1>4. PICK k \in Nat, s \in Nat : k = Len(call[c].buf) /\ s = call[c].size
  BY <1>2, WriterKnows
<1>5. /\ call[c] \in CallRecords /\ call[c].op = "write" /\ call[c].file \in Inodes
      /\ call[c].buf \o Bytes(c, n) = Bytes(c, k + n)
      /\ ~call[c].raced =>
            Overwritten(data[call[c].file], k, Bytes(c, n)) = Bytes(c, k + n)
  BY <1>2, <1>3, <1>4, WriterKnows
<1>6. k + n \in Nat /\ k + n <= s /\ (windows => k + n = s)
  BY <1>1, <1>2, <1>4, WriterKnows
<1>7. Bytes(c, k + n) \in Content /\ Len(Bytes(c, k + n)) = k + n
  BY <1>6, BytesRight
<1>8. PICK r : r = [call[c] EXCEPT !.buf = @ \o Bytes(c, n)]
  OBVIOUS
<1>9. /\ r \in CallRecords /\ r.op = "write" /\ r.pc = "write" /\ r.file = call[c].file
      /\ r.size = s /\ r.buf = Bytes(c, k + n) /\ r.raced = call[c].raced
  BY <1>2, <1>4, <1>5, <1>7, <1>8 DEF CallRecords
<1>10. /\ CallAndRace(c, r, call[c].file, {})
       /\ data' = [data EXCEPT ![call[c].file] =
                     Overwritten(@, Len(call[c].buf), Bytes(c, n))]
  BY <1>1, <1>8 DEF Wrote
<1>11. ~r.raced => data'[r.file] = r.buf
  BY <1>4, <1>5, <1>9, <1>10 DEF FilesInv
<1>12. UnderWay(c, r)'
  BY <1>2, <1>5, <1>6, <1>7, <1>9, <1>11 DEF UnderWay, Working
<1>13. Over(c, r)'
  BY <1>9 DEF Over
<1> QED
  BY <1>2, <1>3, <1>9, <1>10, <1>12, <1>13, WritingKeeps DEF Working

\* A write that fails leaves some first part.
LEMMA WriteFailedKeeps ==
    ASSUME FilesInv, NEW c \in Callers, WriteFailed(c)
    PROVE  FilesInv'
<1>1. /\ call[c].pc = "write" /\ Len(call[c].buf) < call[c].size /\ Close(c)
      /\ UNCHANGED <<windows, name>>
  BY DEF WriteFailed
<1>2. PICK k \in Nat, s \in Nat : k = Len(call[c].buf) /\ s = call[c].size
  BY <1>1, WriterKnows
<1>3. PICK n \in (IF windows THEN 0 .. s - 1 ELSE {0}) :
        /\ data' = [data EXCEPT ![call[c].file] =
                      Overwritten(data[call[c].file], k, Bytes(c, n))]
        /\ CallAndRace(c, Returned([call[c] EXCEPT
                                      !.left = Overwritten(data[call[c].file], k, Bytes(c, n))],
                                   "err"), call[c].file, {})
  BY <1>2 DEF WriteFailed
<1>4. n \in Nat /\ k + n \in Nat /\ k + n <= s
  BY <1>1, <1>2, <1>3, WriterKnows
<1>5. /\ call[c] \in CallRecords /\ call[c].op = "write" /\ call[c].file \in Inodes
      /\ ~call[c].raced =>
            Overwritten(data[call[c].file], k, Bytes(c, n)) = Bytes(c, k + n)
  BY <1>1, <1>2, <1>4, WriterKnows
<1>6. PICK d \in Content : d = Overwritten(data[call[c].file], k, Bytes(c, n))
  BY <1>4, <1>5, OverwrittenTyped DEF FilesInv
<1>7. PICK r : r = Returned([call[c] EXCEPT !.left = d], "err")
  OBVIOUS
<1>8. /\ r \in CallRecords /\ r.op = "write" /\ r.pc = "idle" /\ r.result = "err"
      /\ r.size = s /\ r.left = d /\ r.raced = call[c].raced
  BY <1>2, <1>5, <1>6, <1>7 DEF CallRecords, Returned
<1>9. UnderWay(c, r)'
  BY <1>8 DEF UnderWay, Working
<1>10. ~r.raced => IsPrefix(d, Bytes(c, s))
  <2>1. /\ Bytes(c, k + n) \in Content /\ Len(Bytes(c, k + n)) = k + n
        /\ Bytes(c, s) \in Content /\ Len(Bytes(c, s)) = s
        /\ \A i \in 1 .. k + n : Bytes(c, k + n)[i] = c
        /\ \A i \in 1 .. s : Bytes(c, s)[i] = c
    BY <1>4, BytesRight
  <2>2. IsPrefix(Bytes(c, k + n), Bytes(c, s))
    BY <1>4, <2>1, Begins
  <2> QED
    BY <1>5, <1>6, <1>8, <2>2
<1>11. Over(c, r)'
  BY <1>8, <1>10 DEF Over, Removals
<1>12. /\ CallAndRace(c, r, call[c].file, {})
       /\ data' = [data EXCEPT ![call[c].file] =
                     Overwritten(@, Len(call[c].buf), Bytes(c, n))]
  BY <1>2, <1>3, <1>6, <1>7
<1> QED
  BY <1>1, <1>4, <1>8, <1>9, <1>11, <1>12, WritingKeeps

\* The file is complete when it is closed.
LEMMA WriteDoneKeeps ==
    ASSUME FilesInv, NEW c \in Callers, WriteDone(c)
    PROVE  FilesInv'
<1>1. /\ call[c].pc = "write" /\ Len(call[c].buf) >= call[c].size /\ Close(c)
      /\ UNCHANGED <<windows, name, data>>
      /\ CallIs(c, Returned([call[c] EXCEPT !.left = data[call[c].file]], "ok"))
  BY DEF WriteDone
<1>2. /\ call[c] \in CallRecords /\ call[c].op = "write" /\ call[c].file \in Inodes
      /\ Len(call[c].buf) \in Nat /\ call[c].size \in Nat
      /\ Len(call[c].buf) <= call[c].size
  BY <1>1, WriterKnows
<1>3. Len(call[c].buf) = call[c].size
  BY <1>1, <1>2
<1>4. ~call[c].raced => data[call[c].file] = Bytes(c, call[c].size)
  BY <1>1, <1>3 DEF FilesInv, UnderWay
<1>5. PICK r : r = Returned([call[c] EXCEPT !.left = data[call[c].file]], "ok")
  OBVIOUS
<1>6. data[call[c].file] \in Content
  BY <1>2 DEF FilesInv
<1>7. /\ r \in CallRecords /\ r.op = "write" /\ r.pc = "idle" /\ r.result = "ok"
      /\ r.size = call[c].size /\ r.left = data[call[c].file] /\ r.raced = call[c].raced
  BY <1>2, <1>5, <1>6 DEF CallRecords, Returned
<1>8. /\ call' \in [Callers -> CallRecords] /\ call'[c] = r
      /\ \A x \in Callers \ {c} : call'[x] = call[x]
  BY <1>1, <1>5, <1>7, CallIsEffect
<1>9. UnderWay(c, call[c])'
  BY <1>7, <1>8 DEF UnderWay, Working
<1>10. Over(c, call[c])'
  BY <1>4, <1>7, <1>8 DEF Over, Removals
<1>11. \A x \in Callers \ {c} : Undisturbed(x)
  BY <1>1, <1>8 DEF Undisturbed
<1> QED
  BY <1>1, <1>7, <1>8, <1>9, <1>10, <1>11, ClosedHandles, CallerKeeps DEF FilesInv

-----------------------------------------------------------------------------
\* The status of what will be removed.
LEMMA RemoveStatusKeeps ==
    ASSUME FilesInv, NEW c \in Callers, NEW p \in Paths, NEW op \in Removals,
           RemoveStatus(c, p, op)
    PROVE  FilesInv'
<1> DEFINE e == [NoCall EXCEPT !.op = op, !.path = p]
<1>1. /\ e \in CallRecords /\ e.op = op /\ e.path = p /\ e.pc = "idle" /\ e.file = None
      /\ ~e.raced
  BY NoCallTyped DEF CallRecords, NoCall
<1>2. /\ call[c].pc = "idle" /\ UNCHANGED <<windows, name, data, handles>>
      /\ op \in {"removeFile", "removeDir", "removeDirAll"}
      /\ \A h \in handles : h.by # c
  BY DEF RemoveStatus, CanCall, FilesInv, HandlesOK, Working
<1> HIDE DEF e
<1>3. CASE /\ Accepts(op, name[p])
           /\ CallIs(c, [e EXCEPT !.pc = "remove", !.seen = name[p]])
  <2>1. PICK r : r = [e EXCEPT !.pc = "remove", !.seen = name[p]]
    OBVIOUS
  <2>2. name[p] \in Meanings
    BY DEF FilesInv
  <2>3. /\ r \in CallRecords /\ r.op = op /\ r.pc = "remove" /\ r.file = None
        /\ r.path = p /\ r.seen = name[p]
    BY <1>1, <2>1, <2>2 DEF CallRecords
  <2>4. /\ call' \in [Callers -> CallRecords] /\ call'[c] = r
        /\ \A x \in Callers \ {c} : call'[x] = call[x]
    BY <1>3, <2>1, <2>3, CallIsEffect
  <2>5. HandlesOf(c)
    BY <1>2, <2>3, <2>4 DEF HandlesOf, Working
  <2>6. name[p] \in Inodes \cup Dirs
    BY <1>2, <1>3 DEF Accepts
  <2>7. Accepts(r.op, r.seen)'
    BY <1>3, <2>3 DEF Accepts
  <2>8. UnderWay(c, call[c])'
    BY <1>2, <2>3, <2>4, <2>6, <2>7 DEF UnderWay, Working
  <2>9. Over(c, call[c])'
    BY <2>3, <2>4 DEF Over
  <2>10. \A x \in Callers \ {c} : Undisturbed(x)
    BY <1>2, <2>4 DEF Undisturbed
  <2> QED
    BY <1>2, <2>4, <2>5, <2>8, <2>9, <2>10, CallerKeeps DEF FilesInv
<1>4. CASE CallIs(c, Returned(e, "err"))
  <2>1. /\ Returned(e, "err") \in CallRecords /\ Returned(e, "err").file = None
        /\ Returned(e, "err").pc = "idle" /\ Returned(e, "err").result = "err"
    BY <1>1 DEF CallRecords, Returned
  <2> QED
    BY <1>2, <1>4, <2>1, RefusedKeeps
<1> QED
  BY <1>3, <1>4 DEF RemoveStatus, e

\* What a removal unlinks was not open, or stays what it is.
LEMMA RemovesKeeps ==
    ASSUME FilesInv, NEW c \in Callers, call[c].pc \in {"idle", "remove"},
           NEW e \in CallRecords, e.op \in Removals, e.path \in Paths,
           ~e.raced => e.seen = name[e.path],
           Accepts(e.op, e.seen),
           Removes(c, e), UNCHANGED <<windows, data, handles>>
    PROVE  FilesInv'
<1>1. name[e.path] \in Meanings
  BY DEF FilesInv
<1>2. CASE /\ name' = [name EXCEPT ![e.path] = None]
           /\ CallAndRace(c, Returned([e EXCEPT !.left = name[e.path]], "ok"), Zero,
                          IF name[e.path] = None THEN {} ELSE {e.path})
  <2>1. PICK r : r = Returned([e EXCEPT !.left = name[e.path]], "ok")
    OBVIOUS
  <2>2. /\ r \in CallRecords /\ r.op = e.op /\ r.pc = "idle" /\ r.seen = e.seen
        /\ r.left = name[e.path] /\ r.raced = e.raced
    BY <1>1, <2>1 DEF CallRecords, Returned
  <2>3. PICK ps : ps = IF name[e.path] = None THEN {} ELSE {e.path}
    OBVIOUS
  <2>4. CallAndRace(c, r, Zero, ps)
    BY <1>2, <2>1, <2>3
  <2>5. /\ name' \in [Paths -> Meanings]
        /\ \A q \in Paths \ ps : name'[q] = name[q]
    BY <1>2, <2>3 DEF FilesInv, Meanings
  <2>6. r.op \notin {"read", "write"}
    BY <2>2 DEF Removals
  <2>7. ~r.raced => r.left = r.seen /\ Accepts(r.op, r.left)
    BY <2>2
  <2>8. /\ data' \in [Inodes -> Content]
        /\ \A f \in Inodes : IsOpen(f) => data'[f] = data[f]
    BY DEF FilesInv
  <2> QED
    BY <2>2, <2>4, <2>5, <2>6, <2>7, <2>8, NamesKeep
<1>3. CASE CallIs(c, Returned(e, "err")) /\ UNCHANGED name
  <2>1. /\ Returned(e, "err") \in CallRecords /\ Returned(e, "err").op = e.op
        /\ Returned(e, "err").pc = "idle" /\ Returned(e, "err").result = "err"
    BY DEF CallRecords, Returned
  <2> QED
    BY <1>3, <2>1, RefusedKeeps DEF Removals
<1> QED
  BY <1>2, <1>3 DEF Removes

\* The removal of what was accepted.
LEMMA RemoveSeenKeeps ==
    ASSUME FilesInv, NEW c \in Callers, RemoveSeen(c)
    PROVE  FilesInv'
<1>1. /\ call[c] \in CallRecords /\ call[c].pc = "remove"
      /\ call[c].op \in {"removeFile", "removeDir", "removeDirAll"}
      /\ call[c].path \in Paths /\ Accepts(call[c].op, call[c].seen)
      /\ ~call[c].raced => name[call[c].path] = call[c].seen
  BY DEF FilesInv, RemoveSeen, UnderWay
<1>2. Removes(c, call[c]) /\ UNCHANGED <<windows, data, handles>>
  BY DEF RemoveSeen
<1> QED
  BY <1>1, <1>2, RemovesKeeps DEF Removals

\* A removal that asks for nothing first.
LEMMA RemoveNowKeeps ==
    ASSUME FilesInv, NEW c \in Callers, NEW p \in Paths, NEW op \in Removals,
           RemoveNow(c, p, op)
    PROVE  FilesInv'
<1>1. PICK e : e = [NoCall EXCEPT !.op = op, !.path = p, !.seen = name[p]]
  OBVIOUS
<1>2. name[p] \in Meanings
  BY DEF FilesInv
<1>3. e \in CallRecords /\ e.op = op /\ e.path = p /\ e.seen = name[p]
  BY <1>1, <1>2, NoCallTyped DEF CallRecords
<1>4. /\ op \in {"remove", "removeAll"} /\ call[c].pc = "idle"
      /\ Removes(c, e) /\ UNCHANGED <<windows, data, handles>>
  BY <1>1 DEF RemoveNow, CanCall
<1>5. Accepts(e.op, e.seen)
  BY <1>3, <1>4 DEF Accepts
<1> QED
  BY <1>3, <1>4, <1>5, RemovesKeeps

\* A rename races those who are about to remove either path.
LEMMA RenameKeeps ==
    ASSUME FilesInv, NEW c \in Callers, NEW p \in Paths, NEW q \in Paths, Rename(c, p, q)
    PROVE  FilesInv'
<1>1. PICK e : e = [NoCall EXCEPT !.op = "rename", !.path = p]
  OBVIOUS
<1>2. e \in CallRecords /\ e.op = "rename"
  BY <1>1, NoCallTyped DEF CallRecords
<1>3. call[c].pc = "idle" /\ UNCHANGED <<windows, data, handles>>
  BY DEF Rename, CanCall
<1>4. \A res \in {"ok", "err"} :
        /\ Returned(e, res) \in CallRecords /\ Returned(e, res).op = "rename"
        /\ Returned(e, res).pc = "idle" /\ Returned(e, res).result = res
  BY <1>2 DEF CallRecords, Returned
<1>5. CASE /\ name' = [name EXCEPT ![p] = None, ![q] = name[p]]
           /\ CallAndRace(c, Returned(e, "ok"), Zero, {p, q})
  <2>1. /\ name' \in [Paths -> Meanings]
        /\ \A x \in Paths \ {p, q} : name'[x] = name[x]
        /\ data' \in [Inodes -> Content]
        /\ \A f \in Inodes : IsOpen(f) => data'[f] = data[f]
    BY <1>3, <1>5 DEF FilesInv, Meanings
  <2> QED
    BY <1>3, <1>4, <1>5, <2>1, NamesKeep DEF Removals
<1>6. CASE CallIs(c, Returned(e, "err")) /\ UNCHANGED name
  BY <1>3, <1>4, <1>6, RefusedKeeps
<1> QED
  BY <1>1, <1>5, <1>6 DEF Rename

\* The file of a copy is not open.
LEMMA CopyKeeps ==
    ASSUME FilesInv, NEW c \in Callers, NEW p \in Paths, NEW q \in Paths, Copy(c, p, q)
    PROVE  FilesInv'
<1>1. PICK e : e = [NoCall EXCEPT !.op = "copy", !.path = p]
  OBVIOUS
<1>2. e \in CallRecords /\ e.op = "copy"
  BY <1>1, NoCallTyped DEF CallRecords
<1>3. call[c].pc = "idle" /\ UNCHANGED <<windows, handles>>
  BY DEF Copy, CanCall
<1>4. \A res \in {"ok", "err"} :
        /\ Returned(e, res) \in CallRecords /\ Returned(e, res).op = "copy"
        /\ Returned(e, res).pc = "idle" /\ Returned(e, res).result = res
  BY <1>2 DEF CallRecords, Returned
<1>5. ASSUME NEW f \in (IF name[p] \in Inodes THEN Free ELSE {name[p]}),
             name' = [name EXCEPT ![q] = f],
             data' = [g \in Inodes |-> IF g = f THEN data[name[p]] ELSE data[g]],
             CallAndRace(c, Returned(e, "ok"), Zero, {q})
      PROVE  FilesInv'
  <2>1. /\ f \in Meanings
        /\ name[p] \in Inodes => f \in Inodes /\ ~IsOpen(f)
        /\ name[p] \notin Inodes => f \notin Inodes
    BY <1>5 DEF FilesInv, Free, IsOpen, Meanings
  <2>2. /\ name' \in [Paths -> Meanings]
        /\ \A x \in Paths \ {q} : name'[x] = name[x]
    BY <1>5, <2>1 DEF FilesInv
  <2>3. data' \in [Inodes -> Content]
    BY <1>5, <2>1 DEF FilesInv
  <2>4. \A g \in Inodes : IsOpen(g) => data'[g] = data[g]
    BY <1>5, <2>1
  <2> QED
    BY <1>3, <1>4, <1>5, <2>2, <2>3, <2>4, NamesKeep DEF Removals
<1>6. CASE CallIs(c, Returned(e, "err")) /\ UNCHANGED <<name, data>>
  BY <1>3, <1>4, <1>6, RefusedKeeps
<1> QED
  BY <1>1, <1>5, <1>6 DEF Copy

\* A directory is created where there was nothing.
LEMMA CreateDirKeeps ==
    ASSUME FilesInv, NEW c \in Callers, NEW p \in Paths, CreateDir(c, p)
    PROVE  FilesInv'
<1>1. PICK e : e = [NoCall EXCEPT !.op = "createDir", !.path = p]
  OBVIOUS
<1>2. e \in CallRecords /\ e.op = "createDir"
  BY <1>1, NoCallTyped DEF CallRecords
<1>3. call[c].pc = "idle" /\ UNCHANGED <<windows, data, handles>>
  BY DEF CreateDir, CanCall
<1>4. \A res \in {"ok", "err"} :
        /\ Returned(e, res) \in CallRecords /\ Returned(e, res).op = "createDir"
        /\ Returned(e, res).pc = "idle" /\ Returned(e, res).result = res
  BY <1>2 DEF CallRecords, Returned
<1>5. CASE /\ name' = [name EXCEPT ![p] = IF @ = None THEN EmptyDir ELSE @]
           /\ CallAndRace(c, Returned(e, "ok"), Zero, IF name[p] = None THEN {p} ELSE {})
  <2>1. PICK ps : ps = IF name[p] = None THEN {p} ELSE {}
    OBVIOUS
  <2>2. /\ name' \in [Paths -> Meanings]
        /\ \A x \in Paths \ ps : name'[x] = name[x]
    BY <1>5, <2>1 DEF FilesInv, Meanings, Dirs
  <2>3. /\ data' \in [Inodes -> Content]
        /\ \A f \in Inodes : IsOpen(f) => data'[f] = data[f]
    BY <1>3 DEF FilesInv
  <2>4. CallAndRace(c, Returned(e, "ok"), Zero, ps)
    BY <1>5, <2>1
  <2> QED
    BY <1>3, <1>4, <2>2, <2>3, <2>4, NamesKeep DEF Removals
<1>6. CASE CallIs(c, Returned(e, "err")) /\ UNCHANGED name
  BY <1>3, <1>4, <1>6, RefusedKeeps
<1> QED
  BY <1>1, <1>5, <1>6 DEF CreateDir

\* A successful call did what it was asked to, and no call leaves a file open, as
\* far as no other thread changed the same file or path meanwhile (fs.cpp).
THEOREM FilesCorrect == FilesSpec => []OutcomesRight
<1>1. FilesInit => FilesInv
  <2> SUFFICES ASSUME FilesInit PROVE FilesInv
    OBVIOUS
  <2>1. data \in [Inodes -> Content]
    <3>1. PICK n \in Sizes : data = [f \in Inodes |->
                               IF \E p \in Paths : name[p] = f THEN [i \in 1 .. n |-> Old] ELSE <<>>]
      BY DEF FilesInit
    <3>2. PICK b : b = [i \in 1 .. n |-> Old]
      OBVIOUS
    <3>3. n \in Nat /\ b \in [1 .. n -> Callers \cup {Old, Zero}]
      BY <3>2, FilesAssumption
    <3>4. b \in Content /\ <<>> \in Content
      BY <3>3, SeqDef, EmptySeq DEF Content
    <3> QED
      BY <3>1, <3>2, <3>4
  <2>2. call \in [Callers -> CallRecords] /\ \A c \in Callers : call[c] = NoCall
    BY NoCallTyped DEF FilesInit
  <2>3. \A c \in Callers : UnderWay(c, call[c]) /\ Over(c, call[c])
    BY <2>2 DEF UnderWay, Over, NoCall, Working, Removals
  <2>4. HandlesOK
    BY <2>2 DEF FilesInit, HandlesOK, NoCall, Working
  <2> QED
    BY <2>1, <2>2, <2>3, <2>4 DEF FilesInit, FilesInv, Meanings
<1>2. FilesInv /\ [FilesNext]_filesVars => FilesInv'
  <2> SUFFICES ASSUME FilesInv, [FilesNext]_filesVars PROVE FilesInv'
    OBVIOUS
  <2>1. CASE UNCHANGED filesVars
    BY <2>1 DEF filesVars, FilesInv, HandlesOK, UnderWay, Over, Working, Accepts, Bytes
  <2>2. ASSUME NEW c \in Callers, Begin(c) PROVE FilesInv'
    BY <2>2, ReadOpenKeeps, CreateDirKeeps, WriteOpenKeeps, RemoveStatusKeeps,
       RemoveNowKeeps, RenameKeeps, CopyKeeps, FilesAssumption DEF Begin
  <2>3. ASSUME NEW c \in Callers, Continue(c) PROVE FilesInv'
    <3>1. CASE WriteInterrupted(c)
      BY <3>1
         DEF WriteInterrupted, FilesInv, HandlesOK, UnderWay, Over, Working, Accepts, Bytes
    <3> QED
      BY <2>3, <3>1, ReadStatKeeps, ReadDataKeeps, WriteSomeKeeps, WriteFailedKeeps,
         WriteDoneKeeps, RemoveSeenKeeps DEF Continue
  <2> QED
    BY <2>1, <2>2, <2>3 DEF FilesNext
<1> QED
  BY <1>1, <1>2, FilesInvOutcomes, PTL DEF FilesSpec

-----------------------------------------------------------------------------
(* The small vector.                                                       *)

Object(c, z, p, f) == [cells |-> c, size |-> z, cap |-> p, fault |-> f]

\* What a vector is made of, and what one operation on a cell makes of it.
LEMMA ObjectParts ==
    ASSUME NEW s, IsObject(s)
    PROVE  /\ s = Object(s.cells, s.size, s.cap, s.fault)
           /\ s.size \in Nat /\ s.cap \in Nat /\ s.fault \in BOOLEAN
           /\ s.cells \in [0 .. s.cap - 1 -> Items \cup {Raw}]
           /\ s.size <= s.cap /\ N <= s.cap
BY DEF IsObject, Object

\* The parts of an object make an object.
LEMMA IsObjectIntro ==
    ASSUME NEW p \in Nat, NEW c \in [0 .. p - 1 -> Items \cup {Raw}],
           NEW z \in Nat, NEW f \in BOOLEAN, z <= p, N <= p
    PROVE  IsObject(Object(c, z, p, f))
BY DEF IsObject, Object

\* Building an element changes one cell.
LEMMA BuildObject ==
    ASSUME NEW c, NEW z, NEW p, NEW f \in BOOLEAN, NEW i, NEW x
    PROVE  Build(Object(c, z, p, f), i, x) = Object([c EXCEPT ![i] = x], z, p, f)
BY DEF Build, Object

\* Destroying one makes the cell raw; a raw cell is a fault if T is not trivial.
LEMMA DestroyObject ==
    ASSUME NEW c, NEW z, NEW p, NEW f \in BOOLEAN, NEW i
    PROVE  Destroy(Object(c, z, p, f), i) =
              Object([c EXCEPT ![i] = Raw], z, p, f \/ (~trivial /\ c[i] = Raw))
<1> DEFINE s == Object(c, z, p, f)
           t == Object([c EXCEPT ![i] = Raw], z, p, f)
           b == ~trivial /\ c[i] = Raw
<1>1. s.cells = c /\ Build(s, i, Raw) = t
  BY BuildObject DEF Object
<1>2. Destroy(s, i) = [Build(s, i, Raw) EXCEPT !.fault = @ \/ (~trivial /\ s.cells[i] = Raw)]
  BY DEF Destroy
<1>3. Destroy(s, i) = [t EXCEPT !.fault = @ \/ b]
  <2> HIDE DEF s, t
  <2> QED
    BY <1>1, <1>2, Zenon
<1>4. [t EXCEPT !.fault = @ \/ b] = Object([c EXCEPT ![i] = Raw], z, p, f \/ b)
  <2> HIDE DEF b
  <2> QED
    BY DEF Object
<1> QED
  BY <1>3, <1>4

\* After k rounds of the loop of clear(), the first k cells are raw.
Destroyed(s, k) ==
    Object([i \in 0 .. s.cap - 1 |-> IF i < k THEN Raw ELSE s.cells[i]], s.size, s.cap,
           s.fault \/ (~trivial /\ \E i \in 0 .. k - 1 : s.cells[i] = Raw))

\* The loop of clear() destroys the cells that m_size counts.
LEMMA DestroyAllResult ==
    ASSUME NEW s, IsObject(s)
    PROVE  DestroyAll(s) = Destroyed(s, s.size)
<1> DEFINE n == s.size
           Runs(f) == f = [k \in 0 .. n |-> IF k = 0 THEN s ELSE Destroy(f[k - 1], k - 1)]
           g == [k \in 0 .. n |-> Destroyed(s, k)]
           h == CHOOSE f : Runs(f)
<1>0. n \in Nat
  BY DEF IsObject
<1>1. g[0] = s
  <2> DEFINE c == [i \in 0 .. s.cap - 1 |-> IF i < 0 THEN Raw ELSE s.cells[i]]
             f == s.fault \/ (~trivial /\ \E i \in 0 .. 0 - 1 : s.cells[i] = Raw)
  <2>1. g[0] = Object(c, s.size, s.cap, f)
    BY <1>0 DEF Destroyed
  <2>2. c = s.cells /\ f = s.fault
    BY ObjectParts
  <2> QED
    BY <2>1, <2>2, ObjectParts
<1>2. ASSUME NEW k \in 0 .. n - 1 PROVE Destroyed(s, k + 1) = Destroy(Destroyed(s, k), k)
  <2> DEFINE c == [i \in 0 .. s.cap - 1 |-> IF i < k THEN Raw ELSE s.cells[i]]
             d == [i \in 0 .. s.cap - 1 |-> IF i < k + 1 THEN Raw ELSE s.cells[i]]
             f == s.fault \/ (~trivial /\ \E i \in 0 .. k - 1 : s.cells[i] = Raw)
             e == s.fault \/ (~trivial /\ \E i \in 0 .. k + 1 - 1 : s.cells[i] = Raw)
  <2>1. k \in 0 .. s.cap - 1 /\ c[k] = s.cells[k]
    BY <1>0, ObjectParts
  <2>2. e = (f \/ (~trivial /\ c[k] = Raw))
    BY <1>0, <2>1
  <2>3. d = [c EXCEPT ![k] = Raw]
    <3>1. /\ d = [i \in 0 .. s.cap - 1 |-> IF i = k THEN Raw ELSE c[i]]
          /\ DOMAIN c = 0 .. s.cap - 1
      BY <2>1
    <3> HIDE DEF c, d
    <3> QED
      BY <3>1
  <2>4. /\ Destroyed(s, k) = Object(c, s.size, s.cap, f)
        /\ Destroyed(s, k + 1) = Object(d, s.size, s.cap, e)
    BY DEF Destroyed
  <2>5. f \in BOOLEAN
    OBVIOUS
  <2> HIDE DEF c, d, e, f
  <2>6. Destroy(Object(c, s.size, s.cap, f), k) =
           Object([c EXCEPT ![k] = Raw], s.size, s.cap, f \/ (~trivial /\ c[k] = Raw))
    BY <2>5, DestroyObject
  <2> QED
    BY <2>2, <2>3, <2>4, <2>6, Zenon
<1>3. Runs(g)
  <2>1. ASSUME NEW k \in 0 .. n, k # 0 PROVE g[k] = Destroy(g[k - 1], k - 1)
    <3>1. k - 1 \in 0 .. n - 1 /\ k - 1 + 1 = k /\ k - 1 \in 0 .. n
      BY <1>0, <2>1
    <3> QED
      BY <1>2, <3>1
  <2> QED
    BY <1>1, <2>1
<1>4. Runs(h)
  <2> HIDE DEF g
  <2> QED
    BY <1>3, Zenon
<1>5. DestroyAll(s) = h[n]
  BY Zenon DEF DestroyAll, Loop
<1>6. h[n] = g[n]
  <2>1. \A k \in 0 .. n : h[k] = IF k = 0 THEN s ELSE Destroy(h[k - 1], k - 1)
    <3> HIDE DEF h
    <3> QED
      BY <1>4
  <2> HIDE DEF h
  <2>2. h[0] = g[0]
    BY <1>0, <1>1, <2>1
  <2>3. ASSUME NEW k \in 0 .. n - 1, h[k] = g[k] PROVE h[k + 1] = g[k + 1]
    <3>1. k + 1 \in 0 .. n /\ k + 1 # 0 /\ k + 1 - 1 = k /\ k \in 0 .. n
      BY <1>0
    <3>2. h[k + 1] = Destroy(h[k], k)
      BY <2>1, <3>1
    <3> QED
      BY <1>2, <2>3, <3>1, <3>2
  <2> HIDE DEF g, n
  <2> QED
    BY <1>0, <2>2, <2>3, SameRun
<1> QED
  BY <1>0, <1>5, <1>6

\* The powers of two are what their recursive definition says.
LEMMA PowersOfTwo ==
    /\ PowerOfTwo \in [Nat -> Nat] /\ PowerOfTwo[0] = 1
    /\ \A k \in Nat : PowerOfTwo[k + 1] = 2 * PowerOfTwo[k]
<1> DEFINE step == [p \in Nat |-> 2 * p]
           Is(f) == f = [k \in Nat |-> IF k = 0 THEN 1 ELSE 2 * f[k - 1]]
<1>1. PICK f \in [Nat -> Nat] : f[0] = 1 /\ \A k \in Nat : f[k + 1] = step[f[k]]
  <2> DEFINE X == Nat
             a == 1
  <2>1. step \in [X -> X] /\ a \in X
    OBVIOUS
  <2> HIDE DEF step, X, a
  <2>2. \E f \in [Nat -> X] : f[0] = a /\ \A k \in Nat : f[k + 1] = step[f[k]]
    BY <2>1, RecursionOnNat
  <2> QED
    BY <2>2 DEF X, a
<1>2. Is(f)
  <2>1. ASSUME NEW k \in Nat, k # 0 PROVE f[k] = 2 * f[k - 1]
    <3>1. k - 1 \in Nat /\ k - 1 + 1 = k
      BY <2>1
    <3> QED
      BY <1>1, <3>1
  <2> QED
    BY <1>1, <2>1
<1>3. Is(PowerOfTwo)
  BY <1>2, Zenon DEF PowerOfTwo
<1>4. \A k \in Nat : PowerOfTwo[k] = IF k = 0 THEN 1 ELSE 2 * PowerOfTwo[k - 1]
  BY <1>3
<1>5. \A k \in Nat : PowerOfTwo[k + 1] = 2 * PowerOfTwo[k]
  <2> SUFFICES ASSUME NEW k \in Nat PROVE PowerOfTwo[k + 1] = 2 * PowerOfTwo[k]
    OBVIOUS
  <2>1. k + 1 \in Nat /\ k + 1 # 0 /\ k + 1 - 1 = k
    OBVIOUS
  <2> QED
    BY <1>4, <2>1
<1>6. \A k \in Nat : PowerOfTwo[k] \in Nat
  <2> DEFINE S == {k \in Nat : PowerOfTwo[k] \in Nat}
  <2>1. 0 \in S /\ S \in SUBSET Nat
    BY <1>4
  <2>2. \A k \in S : k + 1 \in S
    BY <1>5
  <2> HIDE DEF S
  <2>3. S = Nat
    BY <2>1, <2>2, NatSetInduction
  <2> QED
    BY <2>3 DEF S
<1> QED
  BY <1>3, <1>4, <1>5, <1>6

\* nextPowerOfTwo does not stay below its argument.
LEMMA NextPowerBound ==
    ASSUME NEW n \in Nat \ {0}
    PROVE  NextPowerOfTwo(n) \in Nat /\ NextPowerOfTwo(n) >= n
<1> DEFINE FitsPower(m, p) == p >= m /\ p < 2 * m
           S == {m \in Nat : m = 0 \/ \E k \in 0 .. m : FitsPower(m, PowerOfTwo[k])}
<1>1. 0 \in S /\ S \in SUBSET Nat
  OBVIOUS
<1>2. ASSUME NEW m \in S PROVE m + 1 \in S
  <2>1. CASE m = 0
    <3>1. FitsPower(1, PowerOfTwo[0]) /\ 0 \in 0 .. 1
      BY PowersOfTwo
    <3> QED
      BY <2>1, <3>1
  <2>2. CASE m # 0
    <3>1. PICK k \in 0 .. m : FitsPower(m, PowerOfTwo[k])
      BY <2>2
    <3>2. PowerOfTwo[k] \in Nat /\ PowerOfTwo[k + 1] = 2 * PowerOfTwo[k]
      BY PowersOfTwo
    <3>3. FitsPower(m + 1, PowerOfTwo[k]) \/ FitsPower(m + 1, PowerOfTwo[k + 1])
      BY <3>1, <3>2, <2>2
    <3>4. k \in 0 .. m + 1 /\ k + 1 \in 0 .. m + 1 /\ m + 1 \in Nat
      OBVIOUS
    <3> HIDE DEF FitsPower
    <3> QED
      BY <3>3, <3>4
  <2> QED
    BY <2>1, <2>2
<1>3. n \in S
  <2> HIDE DEF S
  <2>1. S = Nat
    BY <1>1, <1>2, NatSetInduction
  <2> QED
    BY <2>1
<1>4. \E p \in {PowerOfTwo[k] : k \in 0 .. n} : p >= n /\ p < 2 * n
  BY <1>3
<1>5. NextPowerOfTwo(n) \in {PowerOfTwo[k] : k \in 0 .. n} /\ NextPowerOfTwo(n) >= n
  BY <1>4 DEF NextPowerOfTwo
<1> QED
  BY <1>5, PowersOfTwo

\* No element is missing among those that m_size counts; none is left beyond.
Full(s)  == \A i \in 0 .. s.size - 1 : s.cells[i] # Raw
Clean(s) == \A i \in s.size .. s.cap - 1 : s.cells[i] = Raw

\* t is s with some elements replaced or added: what every operation that
\* does not shorten s keeps.
Keeps(s, t) ==
    /\ IsObject(t)
    /\ s.size <= t.size /\ s.cap <= t.cap
    /\ t.fault => s.fault \/ (~trivial /\ ~Full(s))

\* reserve keeps the elements that are counted, and finds a hole among them.
LEMMA ReserveResult ==
    ASSUME NEW s, IsObject(s), NEW n \in Nat, SmallVecAssumption
    PROVE  LET t == Reserve(s, n)
           IN  /\ Keeps(s, t) /\ t.size = s.size /\ n <= t.cap
               /\ \A i \in 0 .. s.size - 1 : t.cells[i] = s.cells[i]
               /\ Clean(s) => Clean(t)
               /\ s.fault => t.fault
               /\ n <= s.cap => t = s
<1> DEFINE t == Reserve(s, n)
           c == [i \in 0 .. n - 1 |-> IF i < s.size THEN s.cells[i] ELSE Raw]
           f == s.fault \/ HasHole(s)
<1>1. CASE n <= s.cap
  <2>1. t = s
    BY <1>1 DEF Reserve
  <2> QED
    BY <1>1, <2>1, ObjectParts DEF Keeps
<1>2. CASE ~(n <= s.cap)
  <2>1. t = Object(c, s.size, n, f)
    <3>1. t = [s EXCEPT !.cells = c, !.cap = n, !.fault = @ \/ HasHole(s)]
      BY <1>2 DEF Reserve
    <3> HIDE DEF c, t
    <3>2. s = Object(s.cells, s.size, s.cap, s.fault)
      BY ObjectParts
    <3> QED
      BY <3>1, <3>2 DEF Object
  <2>2. c \in [0 .. n - 1 -> Items \cup {Raw}]
    BY <1>2, ObjectParts
  <2>3. /\ t.cells = c /\ t.size = s.size /\ t.cap = n
        /\ t.fault = f
    BY <2>1 DEF Object
  <2>4. IsObject(t)
    <3>1. s.size <= n /\ N <= n /\ f \in BOOLEAN
      BY <1>2, ObjectParts DEF SmallVecAssumption
    <3> HIDE DEF c, f
    <3>2. IsObject(Object(c, s.size, n, f))
      BY <2>2, <3>1, ObjectParts, IsObjectIntro
    <3> QED
      BY <2>1, <3>2, Zenon
  <2>5. f => s.fault \/ (~trivial /\ ~Full(s))
    BY DEF HasHole, Full
  <2>6. \A i \in 0 .. s.size - 1 : t.cells[i] = s.cells[i]
    BY <1>2, <2>3, ObjectParts
  <2>7. Clean(t)
    BY <1>2, <2>3, ObjectParts DEF Clean
  <2>8. Keeps(s, t) /\ (s.fault => t.fault)
    <3> HIDE DEF c, f, t
    <3>1. s.cap <= n /\ s.size \in Nat
      BY <1>2, ObjectParts
    <3>2. s.fault => f
      BY DEF f
    <3> QED
      BY <2>3, <2>4, <2>5, <3>1, <3>2 DEF Keeps
  <2> HIDE DEF c, f
  <2> QED
    BY <1>2, <2>3, <2>6, <2>7, <2>8
<1> QED
  BY <1>1, <1>2

\* growFor makes room for n elements and does no more than reserve does.
LEMMA GrowForResult ==
    ASSUME NEW s, IsObject(s), NEW n \in Nat, SmallVecAssumption
    PROVE  LET t == GrowFor(s, n)
           IN  /\ Keeps(s, t) /\ t.size = s.size /\ s.size + n <= t.cap
               /\ \A i \in 0 .. s.size - 1 : t.cells[i] = s.cells[i]
               /\ Clean(s) => Clean(t)
               /\ s.fault => t.fault
               /\ s.size + n <= s.cap => t = s
<1>1. CASE s.size + n <= s.cap
  <2>1. GrowFor(s, n) = s
    BY <1>1 DEF GrowFor
  <2> QED
    BY <1>1, <2>1, ObjectParts DEF Keeps
<1>2. CASE ~(s.size + n <= s.cap)
  <2>1. GrowFor(s, n) = Reserve(s, NextPowerOfTwo(s.size + n))
    BY <1>2 DEF GrowFor
  <2>2. s.size + n \in Nat \ {0}
    BY <1>2, ObjectParts
  <2>3. NextPowerOfTwo(s.size + n) \in Nat /\ NextPowerOfTwo(s.size + n) >= s.size + n
    BY <2>2, NextPowerBound
  <2> DEFINE m == NextPowerOfTwo(s.size + n)
  <2>4. m \in Nat /\ m >= s.size + n /\ GrowFor(s, n) = Reserve(s, m)
    BY <2>1, <2>3
  <2> HIDE DEF m
  <2>5. Reserve(s, m).cap \in Nat
    BY <2>4, ReserveResult, ObjectParts DEF Keeps
  <2> QED
    BY <1>2, <2>2, <2>4, <2>5, ReserveResult, ObjectParts
<1> QED
  BY <1>1, <1>2

\* After k rounds of a loop of emplace_back without growth.
Emplaced(s, xs, k) ==
    Object([i \in 0 .. s.cap - 1 |->
               IF i \in s.size .. s.size + k - 1 THEN xs[i - s.size + 1] ELSE s.cells[i]],
           s.size + k, s.cap, s.fault)

\* A loop of emplace_back where there is room writes one cell after the other.
LEMMA EmplaceAllResult ==
    ASSUME NEW s, IsObject(s), NEW xs \in Seq(Items \cup {Raw}), s.size + Len(xs) <= s.cap
    PROVE  EmplaceAll(s, xs) = Emplaced(s, xs, Len(xs)) /\ IsObject(Emplaced(s, xs, Len(xs)))
<1> DEFINE n == Len(xs)
           Runs(f) == f = [k \in 0 .. n |-> IF k = 0 THEN s ELSE EmplaceBack(f[k - 1], xs[k])]
           g == [k \in 0 .. n |-> Emplaced(s, xs, k)]
           h == CHOOSE f : Runs(f)
           b == s.size
           p == s.cap
           c(k) == [i \in 0 .. p - 1 |->
                       IF i \in b .. b + k - 1 THEN xs[i - b + 1] ELSE s.cells[i]]
<1>0. n \in Nat /\ b \in Nat /\ p \in Nat /\ b + n <= p
  BY ObjectParts
<1>a. \A k \in 0 .. n : Emplaced(s, xs, k) = Object(c(k), b + k, p, s.fault)
  BY DEF Emplaced
<1>c. /\ s = Object(s.cells, b, p, s.fault) /\ s.fault \in BOOLEAN /\ N <= p
      /\ s.cells \in [0 .. p - 1 -> Items \cup {Raw}]
  BY ObjectParts
<1> HIDE DEF b, p
<1>b. IsObject(Emplaced(s, xs, n))
  <2>1. c(n) \in [0 .. p - 1 -> Items \cup {Raw}]
    BY <1>0, <1>c
  <2>2. b + n \in Nat /\ b + n <= p
    BY <1>0
  <2> HIDE DEF c, n
  <2>3. IsObject(Object(c(n), b + n, p, s.fault))
    BY <2>1, <2>2, <1>0, <1>c, IsObjectIntro
  <2> QED
    BY <1>0, <1>a, <2>3
<1>1. g[0] = s
  <2>1. c(0) = s.cells /\ b + 0 = b
    BY <1>0, <1>c
  <2>2. g[0] = Object(c(0), b + 0, p, s.fault)
    BY <1>0, <1>a
  <2> QED
    BY <1>c, <2>1, <2>2, Zenon
<1>2. ASSUME NEW k \in 0 .. n - 1
      PROVE  Emplaced(s, xs, k + 1) = EmplaceBack(Emplaced(s, xs, k), xs[k + 1])
  <2> DEFINE u == Emplaced(s, xs, k)
             z == b + k
  <2>1. u = Object(c(k), z, p, s.fault) /\ u.size = z /\ u.cap = p
    BY <1>a DEF Object
  <2>2. GrowFor(u, 1) = u
    <3>1. u.size + 1 <= u.cap
      BY <1>0, <2>1, <1>c
    <3> QED
      BY <3>1 DEF GrowFor
  <2>3. EmplaceBack(u, xs[k + 1]) = [Build(u, z, xs[k + 1]) EXCEPT !.size = @ + 1]
    BY <2>1, <2>2 DEF EmplaceBack
  <2>4. Build(u, z, xs[k + 1]) = Object([c(k) EXCEPT ![z] = xs[k + 1]], z, p, s.fault)
    <3>1. s.fault \in BOOLEAN
      BY <1>c
    <3> HIDE DEF c, u, z
    <3> QED
      BY <2>1, <3>1, BuildObject
  <2>5. c(k + 1) = [c(k) EXCEPT ![z] = xs[k + 1]]
    <3>1. z \in 0 .. p - 1 /\ DOMAIN c(k) = 0 .. p - 1 /\ z - b + 1 = k + 1
      BY <1>0, <1>c
    <3>2. c(k + 1) = [i \in 0 .. p - 1 |-> IF i = z THEN xs[k + 1] ELSE c(k)[i]]
      BY <1>0, <3>1, <1>c
    <3> HIDE DEF c, z
    <3> QED
      BY <3>1, <3>2
  <2>6. z + 1 = b + (k + 1)
    BY <1>0, <1>c
  <2>7. Emplaced(s, xs, k + 1) = Object(c(k + 1), b + (k + 1), p, s.fault)
    BY <1>0, <1>a
  <2> HIDE DEF c, u, z
  <2>8. EmplaceBack(u, xs[k + 1]) = Object(c(k + 1), z + 1, p, s.fault)
    BY <2>3, <2>4, <2>5 DEF Object
  <2> QED
    BY <2>6, <2>7, <2>8 DEF u
<1> HIDE DEF c
<1>3. Runs(g)
  <2>1. ASSUME NEW k \in 0 .. n, k # 0 PROVE g[k] = EmplaceBack(g[k - 1], xs[k])
    <3>1. k - 1 \in 0 .. n - 1 /\ k - 1 + 1 = k /\ k - 1 \in 0 .. n
      BY <1>0, <2>1
    <3> QED
      BY <1>2, <3>1
  <2> QED
    BY <1>1, <2>1
<1>4. Runs(h)
  <2> HIDE DEF g
  <2> QED
    BY <1>3, Zenon
<1>5. EmplaceAll(s, xs) = h[n]
  BY Zenon DEF EmplaceAll, Loop
<1>6. h[n] = g[n]
  <2>1. \A k \in 0 .. n : h[k] = IF k = 0 THEN s ELSE EmplaceBack(h[k - 1], xs[k])
    <3> HIDE DEF h
    <3> QED
      BY <1>4
  <2> HIDE DEF h
  <2>2. h[0] = g[0]
    BY <1>0, <1>1, <2>1
  <2>3. ASSUME NEW k \in 0 .. n - 1, h[k] = g[k] PROVE h[k + 1] = g[k + 1]
    <3>1. k + 1 \in 0 .. n /\ k + 1 # 0 /\ k + 1 - 1 = k /\ k \in 0 .. n
      BY <1>0
    <3>2. h[k + 1] = EmplaceBack(h[k], xs[k + 1])
      BY <2>1, <3>1
    <3> QED
      BY <1>2, <2>3, <3>1, <3>2
  <2> HIDE DEF g, n
  <2> QED
    BY <1>0, <2>2, <2>3, SameRun
<1> QED
  BY <1>0, <1>b, <1>5, <1>6

\* After k rounds of the loop of an insert, the first k of the elements are there.
Built(s, index, xs, k) ==
    Object([i \in 0 .. s.cap - 1 |->
               IF i \in index .. index + k - 1 THEN xs[i - index + 1] ELSE s.cells[i]],
           s.size, s.cap, s.fault)

\* The elements of an insert are written into the gap.
LEMMA BuildAllResult ==
    ASSUME NEW s, IsObject(s), NEW xs \in Seq(Items), NEW index \in Nat,
           index + Len(xs) <= s.cap
    PROVE  BuildAll(s, index, xs) = Built(s, index, xs, Len(xs))
<1> DEFINE n == Len(xs)
           Runs(f) == f = [k \in 0 .. n |->
                              IF k = 0 THEN s ELSE Build(f[k - 1], index + k - 1, xs[k])]
           g == [k \in 0 .. n |-> Built(s, index, xs, k)]
           h == CHOOSE f : Runs(f)
           c(k) == [i \in 0 .. s.cap - 1 |->
                       IF i \in index .. index + k - 1 THEN xs[i - index + 1] ELSE s.cells[i]]
<1>0. n \in Nat
  OBVIOUS
<1>a. \A k \in 0 .. n : Built(s, index, xs, k) = Object(c(k), s.size, s.cap, s.fault)
  BY DEF Built
<1>1. g[0] = s
  <2>1. c(0) = s.cells
    BY ObjectParts
  <2>2. g[0] = Object(c(0), s.size, s.cap, s.fault)
    BY <1>0, <1>a
  <2> QED
    BY <2>1, <2>2, ObjectParts, Zenon
<1>2. ASSUME NEW k \in 0 .. n - 1
      PROVE  Built(s, index, xs, k + 1)
                = Build(Built(s, index, xs, k), index + (k + 1) - 1, xs[k + 1])
  <2> DEFINE z == index + (k + 1) - 1
  <2>1. c(k + 1) = [c(k) EXCEPT ![z] = xs[k + 1]]
    <3>1. z \in 0 .. s.cap - 1 /\ DOMAIN c(k) = 0 .. s.cap - 1 /\ z - index + 1 = k + 1
      BY <1>0, ObjectParts
    <3>2. c(k + 1) = [i \in 0 .. s.cap - 1 |-> IF i = z THEN xs[k + 1] ELSE c(k)[i]]
      BY <1>0, <3>1, ObjectParts
    <3> HIDE DEF c, z
    <3> QED
      BY <3>1, <3>2
  <2>2. /\ Built(s, index, xs, k + 1) = Object(c(k + 1), s.size, s.cap, s.fault)
        /\ Built(s, index, xs, k) = Object(c(k), s.size, s.cap, s.fault)
    <3>1. k \in 0 .. n /\ k + 1 \in 0 .. n
      BY <1>0
    <3> QED
      BY <1>a, <3>1
  <2> DEFINE u == Built(s, index, xs, k)
  <2>4. u = Object(c(k), s.size, s.cap, s.fault)
    BY <2>2
  <2>3. Build(u, z, xs[k + 1]) = Object([c(k) EXCEPT ![z] = xs[k + 1]], s.size, s.cap, s.fault)
    <3>1. s.fault \in BOOLEAN
      BY ObjectParts
    <3> HIDE DEF c, u, z
    <3> QED
      BY <2>4, <3>1, BuildObject
  <2> HIDE DEF c, z
  <2> QED
    BY <2>1, <2>2, <2>3 DEF z
<1> HIDE DEF c
<1>3. Runs(g)
  <2>1. ASSUME NEW k \in 0 .. n, k # 0 PROVE g[k] = Build(g[k - 1], index + k - 1, xs[k])
    <3>1. k - 1 \in 0 .. n - 1 /\ k - 1 + 1 = k /\ k - 1 \in 0 .. n
      BY <1>0, <2>1
    <3> QED
      BY <1>2, <3>1
  <2> QED
    BY <1>1, <2>1
<1>4. Runs(h)
  <2> HIDE DEF g
  <2> QED
    BY <1>3, Zenon
<1>5. BuildAll(s, index, xs) = h[n]
  BY Zenon DEF BuildAll, Loop
<1>6. h[n] = g[n]
  <2>1. \A k \in 0 .. n : h[k] = IF k = 0 THEN s ELSE Build(h[k - 1], index + k - 1, xs[k])
    <3> HIDE DEF h
    <3> QED
      BY <1>4
  <2> HIDE DEF h
  <2>2. h[0] = g[0]
    BY <1>0, <1>1, <2>1
  <2>3. ASSUME NEW k \in 0 .. n - 1, h[k] = g[k] PROVE h[k + 1] = g[k + 1]
    <3>1. k + 1 \in 0 .. n /\ k + 1 # 0 /\ k + 1 - 1 = k /\ k \in 0 .. n
      BY <1>0
    <3>2. h[k + 1] = Build(h[k], index + k + 1 - 1, xs[k + 1])
      BY <2>1, <3>1
    <3> QED
      BY <1>2, <2>3, <3>1, <3>2
  <2> HIDE DEF g, n
  <2> QED
    BY <1>0, <2>2, <2>3, SameRun
<1> QED
  BY <1>0, <1>5, <1>6

\* What moveOne does to the cells, with those after the target's destruction
\* and those after the move.
Vacated(c, z, to) == IF to < z THEN [c EXCEPT ![to] = Raw] ELSE c
Refilled(c, z, from, to) == [Vacated(c, z, to) EXCEPT ![to] = Vacated(c, z, to)[from]]
MovedCells(c, z, from, to) == [Refilled(c, z, from, to) EXCEPT ![from] = Raw]
MovedFault(c, z, f, from, to) ==
    \/ f \/ (~trivial /\ to < z /\ c[to] = Raw)
    \/ ~trivial /\ Refilled(c, z, from, to)[from] = Raw

\* moveOne destroys what is counted at the target, moves the element and destroys it.
LEMMA MoveOneCells ==
    ASSUME NEW p, NEW c, NEW z, NEW f \in BOOLEAN, NEW from, NEW to
    PROVE  from # to =>
           MoveOne(Object(c, z, p, f), from, to) =
              Object(MovedCells(c, z, from, to), z, p, MovedFault(c, z, f, from, to))
<1> DEFINE s == Object(c, z, p, f)
           d == Vacated(c, z, to)
           a == Refilled(c, z, from, to)
           e == f \/ (~trivial /\ to < z /\ c[to] = Raw)
           t == Object(d, z, p, e)
           g == e \/ (~trivial /\ a[from] = Raw)
<1>1. s.size = z
  BY DEF Object
<1>2. (IF to < s.size THEN Destroy(s, to) ELSE s) = t
  <2>1. Destroy(s, to) = Object([c EXCEPT ![to] = Raw], z, p, f \/ (~trivial /\ c[to] = Raw))
    BY DestroyObject
  <2>2. CASE to < z
    <3>1. d = [c EXCEPT ![to] = Raw] /\ e = (f \/ (~trivial /\ c[to] = Raw))
      BY <2>2 DEF Vacated
    <3> HIDE DEF s, d, e
    <3> QED
      BY <1>1, <2>1, <2>2, <3>1, Zenon
  <2>3. CASE ~(to < z)
    <3>1. d = c /\ e = f
      BY <2>3 DEF Vacated
    <3> HIDE DEF d, e
    <3> QED
      BY <1>1, <2>3, <3>1, Zenon
  <2> QED
    BY <2>2, <2>3
<1>3. e \in BOOLEAN /\ t.cells = d
  BY DEF Object
<1> HIDE DEF d, e
<1>4. Build(t, to, t.cells[from]) = Object(a, z, p, e)
  <2>1. Build(t, to, d[from]) = Object([d EXCEPT ![to] = d[from]], z, p, e)
    BY <1>3, BuildObject
  <2>2. a = [d EXCEPT ![to] = d[from]]
    BY DEF d, Refilled
  <2> HIDE DEF t, a
  <2> QED
    BY <1>3, <2>1, <2>2
<1>5. Destroy(Object(a, z, p, e), from) = Object([a EXCEPT ![from] = Raw], z, p, g)
  <2> HIDE DEF a
  <2> QED
    BY <1>3, DestroyObject
<1>6. from # to => MoveOne(s, from, to) = MoveOut(t, from, to)
  <2> HIDE DEF s, t
  <2> QED
    BY <1>2 DEF MoveOne
<1>7. MoveOut(t, from, to) = Object([a EXCEPT ![from] = Raw], z, p, g)
  <2> HIDE DEF t, a, g
  <2> QED
    BY <1>4, <1>5 DEF MoveOut
<1> QED
  BY <1>6, <1>7 DEF d, e, MovedCells, MovedFault

\* The same where both cells are in the row.
Relocated(c, p, from, to) ==
    [i \in 0 .. p - 1 |-> IF i = from THEN Raw ELSE IF i = to THEN c[from] ELSE c[i]]
MoveFault(c, z, from, to) == ~trivial /\ (c[from] = Raw \/ (to < z /\ c[to] = Raw))

\* moveOne inside the row takes the element from one cell to the other.
LEMMA MoveOneObject ==
    ASSUME NEW p \in Nat, NEW c \in [0 .. p - 1 -> Items \cup {Raw}], NEW z \in Nat,
           NEW f \in BOOLEAN, NEW from \in 0 .. p - 1, NEW to \in 0 .. p - 1, from # to
    PROVE  MoveOne(Object(c, z, p, f), from, to) =
              Object(Relocated(c, p, from, to), z, p, f \/ MoveFault(c, z, from, to))
<1> DEFINE d == Vacated(c, z, to)
           a == Refilled(c, z, from, to)
           b == [a EXCEPT ![from] = Raw]
           r == Relocated(c, p, from, to)
           g == (f \/ (~trivial /\ to < z /\ c[to] = Raw)) \/ (~trivial /\ a[from] = Raw)
<1>1. MoveOne(Object(c, z, p, f), from, to) =
         Object(MovedCells(c, z, from, to), z, p, MovedFault(c, z, f, from, to))
  BY MoveOneCells
<1>2. /\ d \in [0 .. p - 1 -> Items \cup {Raw}] /\ d[from] = c[from]
      /\ \A i \in 0 .. p - 1 : i # to => d[i] = c[i]
  BY DEF Vacated
<1>3. b = r /\ a[from] = c[from]
  <2>1. a = [d EXCEPT ![to] = d[from]]
    BY DEF Refilled
  <2> HIDE DEF d, a
  <2> QED
    BY <1>2, <2>1 DEF Relocated
<1>4. g = (f \/ MoveFault(c, z, from, to))
  <2> HIDE DEF a
  <2> QED
    BY <1>3 DEF MoveFault
<1>6. MovedCells(c, z, from, to) = b /\ MovedFault(c, z, f, from, to) = g
  BY DEF MovedCells, MovedFault
<1> HIDE DEF b, g
<1>5. MoveOne(Object(c, z, p, f), from, to) = Object(r, z, p, g)
  BY <1>1, <1>3, <1>6
<1> HIDE DEF r
<1> QED
  BY <1>4, <1>5 DEF r

\* After k rounds of shift to the right: an element whose target is counted
\* meets a cell that was vacated before.
MovedRight(s, count, k) ==
    Object([i \in 0 .. s.cap - 1 |->
               IF i \in s.size - k + count .. s.size - 1 + count THEN s.cells[i - count]
               ELSE IF i \in s.size - k .. s.size - 1 THEN Raw ELSE s.cells[i]],
           s.size, s.cap,
           s.fault \/ (~trivial /\ \E i \in s.size - k .. s.size - 1 :
                                       s.cells[i] = Raw \/ i + count < s.size))

\* The loop of shift to the right, whose targets lie behind the cells still to be moved.
LEMMA MovesRight ==
    ASSUME NEW s, IsObject(s), NEW count \in Nat \ {0}, NEW index \in 0 .. s.size,
           s.size + count <= s.cap
    PROVE  Loop(LAMBDA u, k : MoveOne(u, s.size - k, s.size - k + count), s, s.size - index)
              = MovedRight(s, count, s.size - index)
<1> DEFINE n == s.size - index
           z == s.size
           p == s.cap
           cells == s.cells
           fault == s.fault
           Runs(f) == f = [k \in 0 .. n |->
                              IF k = 0 THEN s ELSE MoveOne(f[k - 1], z - k, z - k + count)]
           g == [k \in 0 .. n |-> MovedRight(s, count, k)]
           h == CHOOSE f : Runs(f)
           c(k) == [i \in 0 .. p - 1 |->
                       IF i \in z - k + count .. z - 1 + count THEN cells[i - count]
                       ELSE IF i \in z - k .. z - 1 THEN Raw ELSE cells[i]]
           e(k) == fault \/ (~trivial /\ \E i \in z - k .. z - 1 : cells[i] = Raw
                      \/ i + count < z)
<1>0. n \in Nat /\ n <= z /\ z \in Nat /\ p \in Nat /\ z + count <= p
  BY ObjectParts
<1>a. /\ s = Object(cells, z, p, fault) /\ fault \in BOOLEAN
      /\ cells \in [0 .. p - 1 -> Items \cup {Raw}]
  BY ObjectParts
<1>b. \A k : MovedRight(s, count, k) = Object(c(k), z, p, e(k))
  BY DEF MovedRight
<1> HIDE DEF cells, fault
<1>1. g[0] = s
  <2> HIDE DEF z, p, n
  <2>1. c(0) = cells
    BY <1>0, <1>a
  <2>2. e(0) = fault
    BY <1>0, <1>a
  <2> HIDE DEF c, e
  <2>3. g[0] = Object(c(0), z, p, e(0))
    BY <1>0, <1>b
  <2> HIDE DEF g
  <2> QED
    BY <1>a, <2>1, <2>2, <2>3
<1>2. ASSUME NEW k \in 0 .. n - 1
      PROVE  MovedRight(s, count, k + 1) =
                MoveOne(MovedRight(s, count, k), z - (k + 1), z - (k + 1) + count)
  <2> DEFINE from == z - (k + 1)
             to == from + count
             a == c(k)
             b == Relocated(a, p, from, to)
             f == e(k) \/ MoveFault(a, z, from, to)
  <2> HIDE DEF n, z, p
  <2>1. from \in 0 .. p - 1 /\ to \in 0 .. p - 1 /\ from # to
    BY <1>0
  <2>2. a \in [0 .. p - 1 -> Items \cup {Raw}]
    BY <1>0, <1>a
  <2>3. a[from] = cells[from] /\ (to < z => a[to] = Raw)
    BY <1>0, <2>1
  <2>4. c(k + 1) = b
    <3>1. \A i \in 0 .. p - 1 : c(k + 1)[i] = b[i]
      BY <1>0, <2>1, <2>3 DEF Relocated
    <3>2. c(k + 1) = [i \in 0 .. p - 1 |-> c(k + 1)[i]] /\ b = [i \in 0 .. p - 1 |-> b[i]]
      BY DEF Relocated
    <3> HIDE DEF c, b
    <3> QED
      BY <3>1, <3>2
  <2>5. e(k + 1) = f
    <3>1. z - (k + 1) .. z - 1 = {from} \cup (z - k .. z - 1)
      BY <1>0
    <3> HIDE DEF a
    <3> QED
      BY <1>0, <2>3, <3>1 DEF MoveFault
  <2>6. e(k) \in BOOLEAN
    OBVIOUS
  <2> HIDE DEF a, e, from, to
  <2>7. MoveOne(Object(a, z, p, e(k)), from, to) = Object(b, z, p, f)
    BY <1>0, <2>1, <2>2, <2>6, MoveOneObject
  <2>8. MoveOne(MovedRight(s, count, k), from, to) = MovedRight(s, count, k + 1)
    <3> HIDE DEF b, f, c
    <3>1. MovedRight(s, count, k) = Object(a, z, p, e(k))
      BY <1>b DEF a
    <3>2. MovedRight(s, count, k + 1) = Object(b, z, p, f)
      BY <1>b, <2>4, <2>5
    <3> QED
      BY <2>7, <3>1, <3>2
  <2> QED
    BY <2>8 DEF from, to
<1> HIDE DEF c, e, p
<1>3. Runs(g)
  <2>1. ASSUME NEW k \in 0 .. n, k # 0 PROVE g[k] = MoveOne(g[k - 1], z - k, z - k + count)
    <3>1. k - 1 \in 0 .. n - 1 /\ k - 1 + 1 = k /\ k - 1 \in 0 .. n
      BY <1>0, <2>1
    <3> QED
      BY <1>2, <3>1
  <2> QED
    BY <1>1, <2>1
<1>4. Runs(h)
  <2> HIDE DEF g
  <2> QED
    BY <1>3, Zenon
<1>5. Loop(LAMBDA u, k : MoveOne(u, s.size - k, s.size - k + count), s, s.size - index) = h[n]
  BY Zenon DEF Loop
<1>6. h[n] = g[n]
  <2>1. \A k \in 0 .. n : h[k] = IF k = 0 THEN s ELSE MoveOne(h[k - 1], z - k, z - k + count)
    <3> HIDE DEF h
    <3> QED
      BY <1>4
  <2> HIDE DEF h
  <2>2. h[0] = g[0]
    BY <1>0, <1>1, <2>1
  <2>3. ASSUME NEW k \in 0 .. n - 1, h[k] = g[k] PROVE h[k + 1] = g[k + 1]
    <3>1. k + 1 \in 0 .. n /\ k + 1 # 0 /\ k + 1 - 1 = k /\ k \in 0 .. n
      BY <1>0
    <3>2. h[k + 1] = MoveOne(h[k], z - (k + 1), z - (k + 1) + count)
      BY <2>1, <3>1
    <3> QED
      BY <1>2, <2>3, <3>1, <3>2
  <2> HIDE DEF g, n
  <2> QED
    BY <1>0, <2>2, <2>3, SameRun
<1>7. g[n] = MovedRight(s, count, n)
  <2> HIDE DEF n
  <2> QED
    BY <1>0
<1> QED
  BY <1>5, <1>6, <1>7, Zenon

\* After k rounds of shift to the left: an element meets one to be erased, or
\* a cell that was vacated before.
MovedLeft(s, index, count, k) ==
    Object([i \in 0 .. s.cap - 1 |->
               IF i \in index - count .. index + k - 1 - count THEN s.cells[i + count]
               ELSE IF i \in index .. index + k - 1 THEN Raw ELSE s.cells[i]],
           s.size, s.cap,
           s.fault \/ (~trivial /\ \E i \in index .. index + k - 1 :
                          s.cells[i] = Raw \/ i - count >= index \/ s.cells[i - count] = Raw))

\* The loop of shift to the left.
LEMMA MovesLeft ==
    ASSUME NEW s, IsObject(s), NEW index \in 0 .. s.size, NEW count \in 1 .. index
    PROVE  Loop(LAMBDA u, k : MoveOne(u, index + k - 1, index + k - 1 - count), s,
              s.size - index)
              = MovedLeft(s, index, count, s.size - index)
<1> DEFINE n == s.size - index
           z == s.size
           p == s.cap
           cells == s.cells
           fault == s.fault
           Runs(f) == f = [k \in 0 .. n |->
                              IF k = 0 THEN s
                              ELSE MoveOne(f[k - 1], index + k - 1, index + k - 1 - count)]
           g == [k \in 0 .. n |-> MovedLeft(s, index, count, k)]
           h == CHOOSE f : Runs(f)
           c(k) == [i \in 0 .. p - 1 |->
                       IF i \in index - count .. index + k - 1 - count THEN cells[i + count]
                       ELSE IF i \in index .. index + k - 1 THEN Raw ELSE cells[i]]
           e(k) == fault \/ (~trivial /\ \E i \in index .. index + k - 1 :
                                cells[i] = Raw \/ i - count >= index \/ cells[i - count] = Raw)
<1>0. /\ n \in Nat /\ z \in Nat /\ p \in Nat /\ z <= p /\ n = z - index
      /\ index \in Nat /\ count \in Nat /\ 1 <= count /\ count <= index /\ index <= z
  BY ObjectParts
<1>a. /\ s = Object(cells, z, p, fault) /\ fault \in BOOLEAN
      /\ cells \in [0 .. p - 1 -> Items \cup {Raw}]
  BY ObjectParts
<1>b. \A k : MovedLeft(s, index, count, k) = Object(c(k), z, p, e(k))
  BY DEF MovedLeft
<1> HIDE DEF cells, fault
<1>1. g[0] = s
  <2> HIDE DEF z, p, n
  <2>1. c(0) = cells
    BY <1>0, <1>a
  <2>2. e(0) = fault
    BY <1>0, <1>a
  <2> HIDE DEF c, e
  <2>3. g[0] = Object(c(0), z, p, e(0))
    BY <1>0, <1>b
  <2> HIDE DEF g
  <2> QED
    BY <1>a, <2>1, <2>2, <2>3
<1>2. ASSUME NEW k \in 0 .. n - 1
      PROVE  MovedLeft(s, index, count, k + 1) =
                MoveOne(MovedLeft(s, index, count, k), index + (k + 1) - 1,
                   index + (k + 1) - 1 - count)
  <2> DEFINE from == index + (k + 1) - 1
             to == from - count
             a == c(k)
             b == Relocated(a, p, from, to)
             f == e(k) \/ MoveFault(a, z, from, to)
  <2> HIDE DEF n, z, p
  <2>1. from \in 0 .. p - 1 /\ to \in 0 .. p - 1 /\ from # to /\ from = index + k /\ to < z
    BY <1>0
  <2>2. a \in [0 .. p - 1 -> Items \cup {Raw}]
    BY <1>0, <1>a
  <2>3. a[from] = cells[from] /\ a[to] = IF to >= index THEN Raw ELSE cells[to]
    BY <1>0, <2>1
  <2>4. c(k + 1) = b
    <3>1. \A i \in 0 .. p - 1 : c(k + 1)[i] = b[i]
      BY <1>0, <2>1, <2>3 DEF Relocated
    <3>2. c(k + 1) = [i \in 0 .. p - 1 |-> c(k + 1)[i]] /\ b = [i \in 0 .. p - 1 |-> b[i]]
      BY DEF Relocated
    <3> HIDE DEF c, b
    <3> QED
      BY <3>1, <3>2
  <2>5. e(k + 1) = f
    <3>1. index .. index + (k + 1) - 1 = {from} \cup (index .. index + k - 1)
      BY <1>0
    <3> HIDE DEF a
    <3> QED
      BY <1>0, <2>1, <2>3, <3>1 DEF MoveFault
  <2>6. e(k) \in BOOLEAN
    OBVIOUS
  <2> HIDE DEF a, e, from, to
  <2>7. MoveOne(Object(a, z, p, e(k)), from, to) = Object(b, z, p, f)
    BY <1>0, <2>1, <2>2, <2>6, MoveOneObject
  <2>8. MoveOne(MovedLeft(s, index, count, k), from, to) = MovedLeft(s, index, count, k + 1)
    <3> HIDE DEF b, f, c
    <3>1. MovedLeft(s, index, count, k) = Object(a, z, p, e(k))
      BY <1>b DEF a
    <3>2. MovedLeft(s, index, count, k + 1) = Object(b, z, p, f)
      BY <1>b, <2>4, <2>5
    <3> QED
      BY <2>7, <3>1, <3>2
  <2> QED
    BY <2>8 DEF from, to
<1> HIDE DEF c, e, p
<1>3. Runs(g)
  <2>1. ASSUME NEW k \in 0 .. n, k # 0
        PROVE g[k] = MoveOne(g[k - 1], index + k - 1, index + k - 1 - count)
    <3>1. k - 1 \in 0 .. n - 1 /\ k - 1 + 1 = k /\ k - 1 \in 0 .. n
      BY <1>0, <2>1
    <3> QED
      BY <1>2, <3>1
  <2> QED
    BY <1>1, <2>1
<1>4. Runs(h)
  <2> HIDE DEF g
  <2> QED
    BY <1>3, Zenon
<1>5. Loop(LAMBDA u, k : MoveOne(u, index + k - 1, index + k - 1 - count), s,
         s.size - index) = h[n]
  BY Zenon DEF Loop
<1>6. h[n] = g[n]
  <2>1. \A k \in 0 .. n : h[k] = IF k = 0 THEN s
           ELSE MoveOne(h[k - 1], index + k - 1, index + k - 1 - count)
    <3> HIDE DEF h
    <3> QED
      BY <1>4
  <2> HIDE DEF h
  <2>2. h[0] = g[0]
    BY <1>0, <1>1, <2>1
  <2>3. ASSUME NEW k \in 0 .. n - 1, h[k] = g[k] PROVE h[k + 1] = g[k + 1]
    <3>1. k + 1 \in 0 .. n /\ k + 1 # 0 /\ k + 1 - 1 = k /\ k \in 0 .. n
      BY <1>0
    <3>2. h[k + 1] = MoveOne(h[k], index + (k + 1) - 1, index + (k + 1) - 1 - count)
      BY <2>1, <3>1
    <3> QED
      BY <1>2, <2>3, <3>1, <3>2
  <2> HIDE DEF g, n
  <2> QED
    BY <1>0, <2>2, <2>3, SameRun
<1>7. g[n] = MovedLeft(s, index, count, n)
  <2> HIDE DEF n
  <2> QED
    BY <1>0
<1> QED
  BY <1>5, <1>6, <1>7, Zenon

\* Only the size changes.
LEMMA Resized ==
    ASSUME NEW c, NEW z, NEW p, NEW f, NEW n
    PROVE  [Object(c, z, p, f) EXCEPT !.size = n] = Object(c, n, p, f)
BY DEF Object

\* The fields of an object by its parts.
LEMMA ObjectFields ==
    ASSUME NEW c, NEW z, NEW p, NEW f, NEW t, t = Object(c, z, p, f)
    PROVE  t.cells = c /\ t.size = z /\ t.cap = p /\ t.fault = f
BY DEF Object

\* An object with room for n elements more and no fault: emplace_back fills the
\* cell behind the last one.
LEMMA EmplaceBackResult ==
    ASSUME NEW s, IsObject(s), NEW x \in Items, SmallVecAssumption
    PROVE  LET t == EmplaceBack(s, x)
           IN  /\ IsObject(t) /\ t.size = s.size + 1
               /\ \A i \in 0 .. s.size - 1 : t.cells[i] = s.cells[i]
               /\ t.cells[s.size] = x
               /\ Clean(s) => Clean(t)
               /\ t.fault => s.fault \/ (~trivial /\ ~Full(s))
<1> DEFINE g == GrowFor(s, 1)
           z == s.size
           p == g.cap
           f == g.fault
           d == g.cells
           c == [d EXCEPT ![z] = x]
           t == EmplaceBack(s, x)
<1>1. /\ IsObject(g) /\ g.size = z /\ z + 1 <= p /\ z \in Nat
      /\ \A i \in 0 .. z - 1 : d[i] = s.cells[i]
      /\ Clean(s) => Clean(g)
      /\ f => s.fault \/ (~trivial /\ ~Full(s))
  <2>1. 1 \in Nat /\ z \in Nat
    BY ObjectParts
  <2> QED
    BY <2>1, GrowForResult DEF Keeps
<1>2. /\ g = Object(d, z, p, f) /\ f \in BOOLEAN /\ p \in Nat /\ N <= p
      /\ d \in [0 .. p - 1 -> Items \cup {Raw}]
  <2>1. IsObject(g) /\ g.size = z
    BY <1>1
  <2> HIDE DEF g
  <2> QED
    BY <2>1, ObjectParts
<1>3. t = [Build(g, z, x) EXCEPT !.size = @ + 1]
  BY <1>1 DEF EmplaceBack
<1> HIDE DEF g, z, p, f, d, t
<1>4. /\ c \in [0 .. p - 1 -> Items \cup {Raw}] /\ c[z] = x
      /\ \A i \in 0 .. p - 1 : i # z => c[i] = d[i]
  BY <1>1, <1>2
<1> HIDE DEF c
<1>5. t = Object(c, z + 1, p, f)
  <2>1. Build(g, z, x) = Object(c, z, p, f)
    <3>1. Build(Object(d, z, p, f), z, x) = Object([d EXCEPT ![z] = x], z, p, f)
      <4>1. f \in BOOLEAN
        BY <1>2
      <4> QED
        BY <4>1, BuildObject
    <3>2. g = Object(d, z, p, f)
      BY <1>2
    <3> QED
      BY <3>1, <3>2 DEF c
  <2>2. Object(c, z, p, f).size = z
    BY DEF Object
  <2> QED
    BY <1>3, <2>1, <2>2, Resized
<1>6. IsObject(t)
  <2>1. z + 1 \in Nat /\ z + 1 <= p
    BY <1>1
  <2> QED
    BY <1>2, <1>4, <1>5, <2>1, IsObjectIntro
<1>7. t.cells = c /\ t.size = z + 1 /\ t.cap = p /\ t.fault = f
  BY <1>5, ObjectFields
<1>8. \A i \in 0 .. z - 1 : c[i] = s.cells[i]
  BY <1>1, <1>2, <1>4
<1>9. Clean(s) => Clean(t)
  <2>1. Clean(g) => \A i \in z + 1 .. p - 1 : c[i] = Raw
    <3>1. g.cells = d /\ g.size = z /\ g.cap = p
      BY <1>2, ObjectFields
    <3> QED
      BY <1>1, <1>2, <1>4, <3>1 DEF Clean
  <2> QED
    BY <1>1, <1>7, <2>1 DEF Clean
<1> QED
  BY <1>1, <1>4, <1>6, <1>7, <1>8, <1>9 DEF t, z

\* clear() destroys every element that is counted, and nothing else.
LEMMA DestroyAllFacts ==
    ASSUME NEW s, IsObject(s)
    PROVE  LET t == DestroyAll(s)
           IN  /\ IsObject(t) /\ t.size = s.size /\ t.cap = s.cap
               /\ Clean(s) => \A i \in 0 .. t.cap - 1 : t.cells[i] = Raw
               /\ t.fault => s.fault \/ (~trivial /\ ~Full(s))
               /\ t = Object(t.cells, s.size, s.cap, t.fault)
<1> DEFINE z == s.size
           p == s.cap
           c == [i \in 0 .. p - 1 |-> IF i < z THEN Raw ELSE s.cells[i]]
           f == s.fault \/ (~trivial /\ \E i \in 0 .. z - 1 : s.cells[i] = Raw)
           t == DestroyAll(s)
<1>1. t = Object(c, z, p, f)
  <2>1. t = Destroyed(s, z)
    BY DestroyAllResult
  <2> HIDE DEF t
  <2> QED
    BY <2>1 DEF Destroyed
<1>2. /\ z \in Nat /\ p \in Nat /\ z <= p /\ N <= p
      /\ s.cells \in [0 .. p - 1 -> Items \cup {Raw}]
  BY ObjectParts
<1>3. c \in [0 .. p - 1 -> Items \cup {Raw}] /\ f \in BOOLEAN
  BY <1>2, ObjectParts
<1>4. f => s.fault \/ (~trivial /\ ~Full(s))
  BY DEF Full
<1>5. Clean(s) => \A i \in 0 .. p - 1 : c[i] = Raw
  BY <1>2 DEF Clean
<1> HIDE DEF z, p, c, f, t
<1>6. t.cells = c /\ t.size = z /\ t.cap = p /\ t.fault = f
  BY <1>1, ObjectFields
<1>7. IsObject(t)
  BY <1>1, <1>2, <1>3, IsObjectIntro
<1> QED
  BY <1>1, <1>4, <1>5, <1>6, <1>7 DEF t, z, p

\* clear() destroys every element and counts none.
LEMMA ClearResult ==
    ASSUME NEW s, IsObject(s)
    PROVE  LET t == Clear(s)
           IN  /\ IsObject(t) /\ t.size = 0 /\ t.cap = s.cap
               /\ Clean(s) => Clean(t)
               /\ t.fault => s.fault \/ (~trivial /\ ~Full(s))
<1> DEFINE d == DestroyAll(s)
           t == Clear(s)
<1>1. /\ IsObject(d) /\ d.size = s.size /\ d.cap = s.cap
      /\ Clean(s) => \A i \in 0 .. d.cap - 1 : d.cells[i] = Raw
      /\ d.fault => s.fault \/ (~trivial /\ ~Full(s))
  BY DestroyAllFacts, Zenon
<1>2. t = [d EXCEPT !.size = 0]
  BY DEF Clear
<1> HIDE DEF d, t
<1>3. /\ d = Object(d.cells, d.size, d.cap, d.fault) /\ d.cap \in Nat /\ d.fault \in BOOLEAN
      /\ N <= d.cap /\ d.cells \in [0 .. d.cap - 1 -> Items \cup {Raw}]
  BY <1>1, ObjectParts
<1>4. t = Object(d.cells, 0, d.cap, d.fault)
  BY <1>2, <1>3, Resized
<1>5. t.cells = d.cells /\ t.size = 0 /\ t.cap = d.cap /\ t.fault = d.fault
  BY <1>4, ObjectFields
<1>6. IsObject(t)
  BY <1>3, <1>4, IsObjectIntro
<1> QED
  BY <1>1, <1>5, <1>6 DEF t, Clean

\* pop_back destroys the last element.
LEMMA PopBackResult ==
    ASSUME NEW s, IsObject(s), s.size > 0
    PROVE  LET t == Destroy([s EXCEPT !.size = @ - 1], s.size - 1)
           IN  /\ IsObject(t) /\ t.size = s.size - 1
               /\ \A i \in 0 .. s.size - 2 : t.cells[i] = s.cells[i]
               /\ Clean(s) => Clean(t)
               /\ t.fault => s.fault \/ (~trivial /\ ~Full(s))
<1> DEFINE z == s.size - 1
           p == s.cap
           c == [s.cells EXCEPT ![z] = Raw]
           b == s.fault
           f == b \/ (~trivial /\ s.cells[z] = Raw)
           u == [s EXCEPT !.size = @ - 1]
           t == Destroy(u, z)
<1>1. /\ s = Object(s.cells, s.size, p, b) /\ z \in Nat /\ p \in Nat /\ z < p /\ N <= p
      /\ s.size \in Nat /\ s.cells \in [0 .. p - 1 -> Items \cup {Raw}] /\ b \in BOOLEAN
  BY ObjectParts
<1>2. u = Object(s.cells, z, p, b)
  <2> HIDE DEF p, b
  <2> QED
    BY <1>1, Resized
<1>3. /\ c \in [0 .. p - 1 -> Items \cup {Raw}] /\ f \in BOOLEAN
      /\ \A i \in 0 .. p - 1 : c[i] = IF i = z THEN Raw ELSE s.cells[i]
  BY <1>1
<1>4. f => b \/ (~trivial /\ ~Full(s))
  BY <1>1 DEF Full
<1>5. Clean(s) => \A i \in z .. p - 1 : c[i] = Raw
  <2> HIDE DEF c
  <2> QED
    BY <1>1, <1>3 DEF Clean
<1>6. \A i \in 0 .. s.size - 2 : c[i] = s.cells[i]
  <2> HIDE DEF c
  <2> QED
    BY <1>1, <1>3
<1>7. t = Object(c, z, p, f)
  <2> HIDE DEF u, z, p, b
  <2>1. Destroy(Object(s.cells, z, p, b), z) = Object([s.cells EXCEPT ![z] = Raw], z, p, b
           \/ (~trivial /\ s.cells[z] = Raw))
    BY <1>1, DestroyObject
  <2> QED
    BY <1>2, <2>1
<1> HIDE DEF z, p, c, f, t
<1>8. t.cells = c /\ t.size = z /\ t.cap = p /\ t.fault = f
  BY <1>7, ObjectFields
<1>9. IsObject(t)
  <2>1. z <= p
    BY <1>1
  <2> QED
    BY <1>1, <1>3, <1>7, <2>1, IsObjectIntro
<1> QED
  BY <1>4, <1>5, <1>6, <1>8, <1>9 DEF t, z, Clean

\* An insert of nothing moves every element to where it is.
LEMMA MovesNowhere ==
    ASSUME NEW s, IsObject(s), NEW count \in {0}, NEW index \in 0 .. s.size
    PROVE  Loop(LAMBDA u, k : MoveOne(u, s.size - k, s.size - k + count), s, s.size - index) = s
<1> DEFINE z == s.size
           n == s.size - index
           Runs(f) == f = [k \in 0 .. n |-> IF k = 0 THEN s
                         ELSE MoveOne(f[k - 1], z - k, z - k + count)]
           g == [k \in 0 .. n |-> s]
           h == CHOOSE f : Runs(f)
<1>0. z \in Nat /\ n \in Nat /\ count = 0
  BY ObjectParts
<1> HIDE DEF z, n
<1>1. \A u : \A k \in 0 .. n : MoveOne(u, z - k, z - k + count) = u
  <2> SUFFICES ASSUME NEW u, NEW k \in 0 .. n PROVE MoveOne(u, z - k, z - k + count) = u
    OBVIOUS
  <2>1. z - k = z - k + count
    BY <1>0
  <2> QED
    BY <2>1, Zenon DEF MoveOne
<1>2. Runs(g)
  <2>1. ASSUME NEW k \in 0 .. n, k # 0 PROVE g[k] = MoveOne(g[k - 1], z - k, z - k + count)
    <3>1. k - 1 \in 0 .. n
      BY <1>0, <2>1
    <3> QED
      BY <1>1, <3>1
  <2> QED
    BY <2>1
<1>3. Runs(h)
  <2> HIDE DEF g
  <2> QED
    BY <1>2, Zenon
<1>4. Loop(LAMBDA u, k : MoveOne(u, s.size - k, s.size - k + count), s, s.size - index) = h[n]
  BY Zenon DEF Loop, z, n
<1>5. h[n] = s
  <2>1. \A k \in 0 .. n : h[k] = IF k = 0 THEN s ELSE MoveOne(h[k - 1], z - k, z - k + count)
    <3> HIDE DEF h
    <3> QED
      BY <1>3
  <2> HIDE DEF h
  <2>2. h[0] = g[0]
    BY <1>0, <2>1
  <2>3. ASSUME NEW k \in 0 .. n - 1, h[k] = g[k] PROVE h[k + 1] = g[k + 1]
    <3>1. k + 1 \in 0 .. n /\ k + 1 # 0 /\ k + 1 - 1 = k /\ k \in 0 .. n
      BY <1>0
    <3>2. h[k + 1] = MoveOne(h[k], z - (k + 1), z - (k + 1) + count)
      BY <2>1, <3>1
    <3> QED
      BY <1>1, <2>3, <3>1, <3>2
  <2>4. g[n] = s
    BY <1>0
  <2> HIDE DEF g
  <2> QED
    BY <1>0, <2>2, <2>3, <2>4, SameRun
<1> QED
  BY <1>4, <1>5, Zenon

\* Where the elements are after a shift to the right, and when it was undefined.
ShiftedCells(t, index, count) ==
    [i \in 0 .. t.cap - 1 |->
        IF i \in index + count .. t.size - 1 + count THEN t.cells[i - count]
        ELSE IF i \in index .. t.size - 1 THEN Raw ELSE t.cells[i]]
ShiftedFault(t, index, count) ==
    t.fault \/ (~trivial /\ count > 0 /\ \E i \in index .. t.size - 1 :
                                            t.cells[i] = Raw \/ i + count < t.size)

\* What a shift to the right leaves, for any width of the gap.
LEMMA ShiftRightObject ==
    ASSUME NEW s, IsObject(s), NEW count \in Nat, NEW index \in 0 .. s.size, SmallVecAssumption
    PROVE  LET t == GrowFor(s, count)
           IN  ShiftRight(s, index, count)
                  = Object(ShiftedCells(t, index, count), t.size + count, t.cap,
                                                    ShiftedFault(t, index, count))
<1> DEFINE t == GrowFor(s, count)
           m == Loop(LAMBDA u, k : MoveOne(u, t.size - k, t.size - k + count), t,
                   t.size - index)
           c == ShiftedCells(t, index, count)
           f == ShiftedFault(t, index, count)
<1>1. IsObject(t) /\ t.size = s.size /\ t.size + count <= t.cap
  BY GrowForResult DEF Keeps
<1>2. /\ t.size \in Nat /\ t.cap \in Nat /\ t.cells \in [0 .. t.cap - 1 -> Items \cup {Raw}]
      /\ t.fault \in BOOLEAN /\ t = Object(t.cells, t.size, t.cap, t.fault)
  <2>1. IsObject(t)
    BY <1>1
  <2> HIDE DEF t
  <2> QED
    BY <2>1, ObjectParts
<1>3. ShiftRight(s, index, count) = [m EXCEPT !.size = @ + count]
  BY Zenon DEF ShiftRight
<1>4. m = Object(c, t.size, t.cap, f)
  <2>1. CASE count = 0
    <3>1. m = t
      <4>1. count \in {0} /\ index \in 0 .. t.size
        BY <2>1, <1>1
      <4> QED
        BY <1>1, <4>1, MovesNowhere, Zenon
    <3> HIDE DEF t
    <3>2. c = t.cells
      <4>1. \A i \in 0 .. t.cap - 1 : c[i] = t.cells[i]
        BY <2>1, <1>1, <1>2 DEF ShiftedCells
      <4>2. c = [i \in 0 .. t.cap - 1 |-> c[i]]
        BY DEF ShiftedCells
      <4> HIDE DEF c
      <4> QED
        BY <1>2, <4>1, <4>2
    <3>3. f = t.fault
      BY <2>1, <1>2 DEF ShiftedFault
    <3> HIDE DEF m, c, f
    <3> QED
      BY <1>2, <3>1, <3>2, <3>3
  <2>2. CASE count # 0
    <3>1. m = MovedRight(t, count, t.size - index)
      <4>1. count \in Nat \ {0} /\ index \in 0 .. t.size /\ t.size + count <= t.cap
        BY <2>2, <1>1
      <4> QED
        BY <1>1, <4>1, MovesRight, Zenon
    <3> HIDE DEF t
    <3>2. t.size - (t.size - index) = index
      BY <1>1, <1>2
    <3>3. f = (t.fault \/ (~trivial /\ \E i \in index .. t.size - 1 : t.cells[i] = Raw
             \/ i + count < t.size))
      BY <2>2 DEF ShiftedFault
    <3> HIDE DEF m
    <3> QED
      BY <3>1, <3>2, <3>3, Zenon DEF MovedRight, ShiftedCells
  <2> QED
    BY <2>1, <2>2
<1> HIDE DEF m, c, f, t
<1>5. [m EXCEPT !.size = @ + count] = Object(c, t.size + count, t.cap, f)
  <2>1. Object(c, t.size, t.cap, f).size = t.size
    BY DEF Object
  <2> QED
    BY <1>4, <2>1, Resized
<1> QED
  BY <1>3, <1>5 DEF c, f, t

\* insert: the elements before the gap stay, those behind it follow the new ones.
LEMMA InsertResult ==
    ASSUME NEW s, IsObject(s), NEW xs \in Seq(Items), NEW index \in 0 .. s.size,
              SmallVecAssumption
    PROVE  LET n == Len(xs)
               t == BuildAll(ShiftRight(s, index, n), index, xs)
               gap == n \in 1 .. s.size - index - 1
           IN  /\ IsObject(t) /\ t.size = s.size + n
               /\ \A i \in 0 .. index - 1 : t.cells[i] = s.cells[i]
               /\ \A i \in index .. index + n - 1 : t.cells[i] = xs[i - index + 1]
               /\ \A i \in index + n .. s.size + n - 1 : t.cells[i] = s.cells[i - n]
               /\ Clean(s) => Clean(t)
               /\ t.fault => s.fault \/ (~trivial /\ (~Full(s) \/ gap))
               /\ ~trivial /\ gap => t.fault
<1> DEFINE n == Len(xs)
           g == GrowFor(s, n)
           r == ShiftRight(s, index, n)
           t == BuildAll(r, index, xs)
           gap == n \in 1 .. s.size - index - 1
           c == ShiftedCells(g, index, n)
           f == ShiftedFault(g, index, n)
           z == g.size + n
           p == g.cap
           d == [i \in 0 .. p - 1 |-> IF i \in index .. index + n - 1
                   THEN xs[i - index + 1] ELSE c[i]]
<1>1. n \in Nat /\ index \in Nat /\ s.size \in Nat
  BY ObjectParts
<1>2. /\ IsObject(g) /\ g.size = s.size /\ s.size + n <= p
      /\ \A i \in 0 .. s.size - 1 : g.cells[i] = s.cells[i]
      /\ Clean(s) => Clean(g)
      /\ g.fault => s.fault \/ (~trivial /\ ~Full(s))
  <2> HIDE DEF n
  <2> QED
    BY <1>1, GrowForResult DEF Keeps
<1>3. r = Object(c, z, p, f)
  <2>1. index \in 0 .. s.size
    OBVIOUS
  <2> QED
    BY <1>1, <2>1, ShiftRightObject, Zenon
<1> HIDE DEF g
<1>4. /\ p \in Nat /\ N <= p /\ g.cells \in [0 .. p - 1 -> Items \cup {Raw}]
            /\ g.fault \in BOOLEAN
      /\ g.size \in Nat
  BY <1>2, ObjectParts
<1>5. c \in [0 .. p - 1 -> Items \cup {Raw}] /\ f \in BOOLEAN
  <2> HIDE DEF n
  <2>1. c \in [0 .. p - 1 -> Items \cup {Raw}]
    <3>1. ASSUME NEW i \in 0 .. p - 1 PROVE c[i] \in Items \cup {Raw}
      <4>1. CASE i \in index + n .. g.size - 1 + n
        <5>1. i - n \in 0 .. p - 1 /\ c[i] = g.cells[i - n]
          BY <1>1, <1>4, <4>1 DEF ShiftedCells
        <5> QED
          BY <1>4, <5>1
      <4>2. CASE ~(i \in index + n .. g.size - 1 + n)
        BY <1>4, <4>2 DEF ShiftedCells
      <4> QED
        BY <4>1, <4>2
    <3>2. c = [i \in 0 .. p - 1 |-> c[i]]
      BY DEF ShiftedCells
    <3> HIDE DEF c
    <3> QED
      BY <3>1, <3>2
  <2>2. f \in BOOLEAN
    BY <1>4 DEF ShiftedFault
  <2> QED
    BY <2>1, <2>2
<1>6. z \in Nat /\ z <= p /\ index + n <= p
  BY <1>1, <1>2, <1>4
<1>7. IsObject(r)
  <2> HIDE DEF c, f, z, p, r
  <2> QED
    BY <1>3, <1>4, <1>5, <1>6, IsObjectIntro
<1>8. r.cells = c /\ r.size = z /\ r.cap = p /\ r.fault = f
  <2> HIDE DEF c, f, z, p, r
  <2> QED
    BY <1>3, ObjectFields
<1>9. t = Object(d, z, p, f)
  <2>1. t = Built(r, index, xs, n)
    <3>1. index + Len(xs) <= r.cap
      BY <1>6, <1>8
    <3> HIDE DEF r
    <3> QED
      BY <1>1, <1>7, <3>1, BuildAllResult
  <2> HIDE DEF r, t, c, f, z, p, n
  <2> QED
    BY <1>8, <2>1, Zenon DEF Built
<1>10. d \in [0 .. p - 1 -> Items \cup {Raw}]
  <2>1. \A i \in 1 .. n : xs[i] \in Items
    OBVIOUS
  <2> HIDE DEF n, c, p
  <2> QED
    BY <1>1, <1>5, <2>1
<1>11. \A i \in 0 .. index - 1 : d[i] = s.cells[i]
  <2> HIDE DEF n
  <2> QED
    BY <1>1, <1>2, <1>4 DEF ShiftedCells
<1>12. \A i \in index .. index + n - 1 : d[i] = xs[i - index + 1]
  <2> HIDE DEF n, c
  <2> QED
    BY <1>1, <1>2, <1>4
<1>13. \A i \in index + n .. s.size + n - 1 : d[i] = s.cells[i - n]
  <2> HIDE DEF n
  <2> QED
    BY <1>1, <1>2, <1>4 DEF ShiftedCells
<1>14. Clean(s) => \A i \in z .. p - 1 : d[i] = Raw
  <2> HIDE DEF n
  <2>1. Clean(s) => \A i \in s.size .. p - 1 : g.cells[i] = Raw
    BY <1>2 DEF Clean
  <2> QED
    BY <1>1, <1>2, <1>4, <2>1 DEF ShiftedCells
<1>15. f => s.fault \/ (~trivial /\ (~Full(s) \/ gap))
  <2> HIDE DEF n, gap
  <2>1. ASSUME ~trivial, n > 0, NEW i \in index .. g.size - 1, g.cells[i] = Raw PROVE ~Full(s)
    BY <1>1, <1>2, <2>1 DEF Full
  <2>2. ASSUME n > 0, NEW i \in index .. g.size - 1, i + n < g.size PROVE gap
    BY <1>1, <1>2, <2>2 DEF gap
  <2> QED
    BY <1>2, <2>1, <2>2 DEF ShiftedFault
<1>16. ~trivial /\ gap => f
  <2> HIDE DEF n
  <2>1. gap => index \in index .. g.size - 1 /\ index + n < g.size /\ n > 0
    BY <1>1, <1>2
  <2> QED
    BY <2>1 DEF ShiftedFault
<1> HIDE DEF d, f, t, p
<1>17. t.cells = d /\ t.size = z /\ t.cap = p /\ t.fault = f
  BY <1>9, ObjectFields
<1>18. IsObject(t)
  <2> HIDE DEF z
  <2> QED
    BY <1>4, <1>5, <1>6, <1>9, <1>10, IsObjectIntro
<1>19. Clean(s) => Clean(t)
  BY <1>14, <1>17 DEF Clean
<1> HIDE DEF n, gap
<1> QED
  BY <1>2, <1>11, <1>12, <1>13, <1>15, <1>16, <1>17, <1>18, <1>19 DEF t, n, gap

\* erase: the elements behind the erased ones follow those before them.
LEMMA EraseResult ==
    ASSUME NEW s, IsObject(s), NEW first \in Nat, NEW count \in Nat \ {0},
              first + count <= s.size
    PROVE  LET t == ShiftLeft(s, first + count, count)
               after == s.size - first - count
           IN  /\ IsObject(t) /\ t.size = s.size - count
               /\ \A i \in 0 .. first - 1 : t.cells[i] = s.cells[i]
               /\ \A i \in first .. t.size - 1 : t.cells[i] = s.cells[i + count]
               /\ Clean(s) /\ after >= count => Clean(t)
               /\ t.fault => s.fault \/ (~trivial /\ (~Full(s) \/ after > count))
               /\ ~trivial /\ after > count => t.fault
<1> DEFINE index == first + count
           n == s.size - index
           t == ShiftLeft(s, index, count)
           m == Loop(LAMBDA u, k : MoveOne(u, index + k - 1, index + k - 1 - count), s,
                   s.size - index)
           z == s.size
           p == s.cap
           c == [i \in 0 .. p - 1 |->
                    IF i \in first .. z - 1 - count THEN s.cells[i + count]
                    ELSE IF i \in index .. z - 1 THEN Raw ELSE s.cells[i]]
           f == s.fault \/ (~trivial /\ \E i \in index .. z - 1 :
                       s.cells[i] = Raw \/ i - count >= index \/ s.cells[i - count] = Raw)
<1>1. /\ z \in Nat /\ p \in Nat /\ z <= p /\ N <= p /\ s.fault \in BOOLEAN
      /\ s.cells \in [0 .. p - 1 -> Items \cup {Raw}]
  BY ObjectParts
<1>2. m = Object(c, z, p, f)
  <2>1. index \in 0 .. s.size /\ count \in 1 .. index
    BY <1>1
  <2>2. m = MovedLeft(s, index, count, n)
    BY <2>1, MovesLeft, Zenon
  <2>3. index - count = first /\ index + n - 1 = z - 1 /\ index + n - 1 - count = z - 1 - count
    BY <1>1
  <2> HIDE DEF m, index, n
  <2> QED
    BY <2>2, <2>3, Zenon DEF MovedLeft
<1>3. t = [m EXCEPT !.size = @ - count]
  BY Zenon DEF ShiftLeft
<1>4. t = Object(c, z - count, p, f)
  <2> HIDE DEF m, t, c, f, z, p
  <2>1. Object(c, z, p, f).size = z
    BY DEF Object
  <2> QED
    BY <1>2, <1>3, <2>1, Resized
<1>5. c \in [0 .. p - 1 -> Items \cup {Raw}]
  <2>1. ASSUME NEW i \in 0 .. p - 1 PROVE c[i] \in Items \cup {Raw}
    <3>1. CASE i \in first .. z - 1 - count
      <4>1. i + count \in 0 .. p - 1 /\ c[i] = s.cells[i + count]
        BY <1>1, <3>1
      <4> QED
        BY <1>1, <4>1
    <3>2. CASE ~(i \in first .. z - 1 - count)
      BY <1>1, <3>2
    <3> QED
      BY <3>1, <3>2
  <2>2. c = [i \in 0 .. p - 1 |-> c[i]]
    OBVIOUS
  <2> HIDE DEF c
  <2> QED
    BY <2>1, <2>2
<1>6. f \in BOOLEAN /\ z - count \in Nat /\ z - count <= p
  <2>1. f \in BOOLEAN
    BY <1>1
  <2> QED
    BY <1>1, <2>1
<1>7. \A i \in 0 .. first - 1 : c[i] = s.cells[i]
  BY <1>1
<1>8. \A i \in first .. z - count - 1 : c[i] = s.cells[i + count]
  BY <1>1
<1>9. Clean(s) /\ z - first - count >= count => \A i \in z - count .. p - 1 : c[i] = Raw
  BY <1>1 DEF Clean
<1>10. f => s.fault \/ (~trivial /\ (~Full(s) \/ z - first - count > count))
  <2>1. ASSUME NEW i \in index .. z - 1, s.cells[i] = Raw PROVE ~Full(s)
    BY <1>1, <2>1 DEF Full
  <2>2. ASSUME NEW i \in index .. z - 1, i - count >= index PROVE z - first - count > count
    BY <1>1, <2>2
  <2>3. ASSUME NEW i \in index .. z - 1, s.cells[i - count] = Raw PROVE ~Full(s)
    BY <1>1, <2>3 DEF Full
  <2> HIDE DEF index
  <2> QED
    BY <2>1, <2>2, <2>3
<1>11. ~trivial /\ z - first - count > count => f
  <2>1. z - first - count > count => z - 1 \in index .. z - 1 /\ z - 1 - count >= index
    BY <1>1
  <2> HIDE DEF index
  <2> QED
    BY <2>1
<1> HIDE DEF c, f, t, p, index
<1>12. t.cells = c /\ t.size = z - count /\ t.cap = p /\ t.fault = f
  BY <1>4, ObjectFields
<1>13. IsObject(t)
  <2> HIDE DEF z
  <2> QED
    BY <1>1, <1>4, <1>5, <1>6, IsObjectIntro
<1> QED
  BY <1>7, <1>8, <1>9, <1>10, <1>11, <1>12, <1>13 DEF t, index, Clean

\* A vector filled from a list by emplace_back.
LEMMA FilledResult ==
    ASSUME NEW s, IsObject(s), s.size = 0, NEW xs \in Seq(Items \cup {Raw}), Len(xs) <= s.cap
    PROVE  LET t == EmplaceAll(s, xs)
           IN  /\ IsObject(t) /\ t.size = Len(xs) /\ t.fault = s.fault
               /\ \A i \in 0 .. t.size - 1 : t.cells[i] = xs[i + 1]
               /\ Clean(s) => Clean(t)
<1> DEFINE n == Len(xs)
           p == s.cap
           b == s.fault
           c == [i \in 0 .. p - 1 |-> IF i \in s.size .. s.size + n - 1
                   THEN xs[i - s.size + 1] ELSE s.cells[i]]
           t == EmplaceAll(s, xs)
<1>1. n \in Nat /\ p \in Nat /\ n <= p
  BY ObjectParts
<1>2. t = Emplaced(s, xs, n) /\ IsObject(t)
  <2>1. s.size + Len(xs) <= s.cap
    BY <1>1
  <2>2. t = Emplaced(s, xs, Len(xs)) /\ IsObject(Emplaced(s, xs, Len(xs)))
    BY <2>1, EmplaceAllResult, Zenon
  <2> QED
    BY <2>2, Zenon
<1>3. t = Object(c, n, p, b)
  <2>1. s.size + n = n
    BY <1>1
  <2> HIDE DEF t, n
  <2> QED
    BY <1>2, <2>1, Zenon DEF Emplaced
<1>4. \A i \in 0 .. n - 1 : c[i] = xs[i + 1]
  <2> HIDE DEF n, p
  <2> QED
    BY <1>1
<1>5. Clean(s) => \A i \in n .. p - 1 : c[i] = Raw
  <2> HIDE DEF n
  <2> QED
    BY <1>1 DEF Clean
<1> HIDE DEF t, c, p, b, n
<1>6. t.cells = c /\ t.size = n /\ t.cap = p /\ t.fault = b
  BY <1>3, ObjectFields
<1> QED
  BY <1>2, <1>4, <1>5, <1>6 DEF t, n, b, Clean

\* The vector s holds xs, element by element.
Holds(s, xs) == s.size = Len(xs) /\ \A i \in 0 .. s.size - 1 : s.cells[i] = xs[i + 1]

\* The lapses ls of a vector once it has been cleared.
Cleared(ls) == IF trivial THEN ls \ {"husk"} ELSE ls

\* How a vector s that should hold xs stands after the lapses ls: a fault needs
\* one of three of them, two are followed by a fault at once, and without a
\* husk the elements are right until there is a fault.
Agrees(s, xs, ls) ==
    /\ s.fault => "alias" \in ls \/ (~trivial /\ ("shift" \in ls \/ "husk" \in ls))
    /\ "alias" \in ls \/ (~trivial /\ "shift" \in ls) => s.fault
    /\ ~s.fault /\ "husk" \notin ls => Holds(s, xs)
    /\ ~s.fault /\ ~trivial /\ ls = {} => Clean(s)

Sound(s, xs, ls) == IsObject(s) /\ xs \in Seq(Items) /\ ls \in SUBSET Lapses
                       /\ Agrees(s, xs, ls)

\* What a step may rely on: nothing follows a fault.
LEMMA BeforeStep ==
    ASSUME NEW s, NEW xs, NEW ls, Sound(s, xs, ls), ~s.fault, SmallVecAssumption
    PROVE  /\ "alias" \notin ls /\ ("shift" \in ls => trivial)
           /\ "husk" \notin ls => Holds(s, xs) /\ Full(s)
           /\ ~trivial /\ ls = {} => Clean(s)
           /\ xs \in [1 .. Len(xs) -> Items] /\ Len(xs) \in Nat /\ s.size \in Nat
<1>1. Agrees(s, xs, ls) /\ xs \in Seq(Items) /\ s.size \in Nat
  BY ObjectParts DEF Sound
<1>2. ASSUME Holds(s, xs) PROVE Full(s)
  <2>1. ASSUME NEW i \in 0 .. s.size - 1 PROVE s.cells[i] # Raw
    <3>1. i + 1 \in 1 .. Len(xs) /\ s.cells[i] = xs[i + 1]
      BY <1>1, <1>2 DEF Holds
    <3>2. xs[i + 1] \in Items
      BY <1>1, <3>1, ElementOfSeq
    <3> QED
      BY <3>1, <3>2 DEF SmallVecAssumption
  <2> QED
    BY <2>1 DEF Full
<1>3. xs \in [1 .. Len(xs) -> Items] /\ Len(xs) \in Nat
  BY <1>1, LenProperties
<1>4. /\ "alias" \notin ls /\ ("shift" \in ls => trivial)
      /\ "husk" \notin ls => Holds(s, xs)
      /\ ~trivial /\ ls = {} => Clean(s)
  BY <1>1, Zenon DEF Agrees
<1> QED
  BY <1>1, <1>2, <1>3, <1>4

\* What an operation has to give when its lapses are `more`.
LEMMA AfterStep ==
    ASSUME NEW t, IsObject(t), NEW ys \in Seq(Items), NEW ls \in SUBSET Lapses,
           t.fault => "alias" \in ls \/ (~trivial /\ ("shift" \in ls \/ "husk" \in ls)),
           "alias" \in ls \/ (~trivial /\ "shift" \in ls) => t.fault,
           "husk" \notin ls => Holds(t, ys),
           ~trivial /\ ls = {} => Clean(t)
    PROVE  Sound(t, ys, ls)
BY Zenon DEF Sound, Agrees

\* push_back keeps a vector sound.
LEMMA PushBackSound ==
    ASSUME NEW s, NEW xs, NEW ls, Sound(s, xs, ls), ~s.fault, SmallVecAssumption,
              NEW x \in Items
    PROVE  Sound(EmplaceBack(s, x), Append(xs, x), ls)
<1> DEFINE t == EmplaceBack(s, x)
           ys == Append(xs, x)
<1>1. /\ IsObject(s) /\ xs \in Seq(Items) /\ ls \in SUBSET Lapses
  BY DEF Sound
<1>2. /\ IsObject(t) /\ t.size = s.size + 1
      /\ \A i \in 0 .. s.size - 1 : t.cells[i] = s.cells[i]
      /\ t.cells[s.size] = x
      /\ Clean(s) => Clean(t)
      /\ t.fault => s.fault \/ (~trivial /\ ~Full(s))
  BY <1>1, EmplaceBackResult
<1>3. /\ ys \in Seq(Items) /\ Len(ys) = Len(xs) + 1
      /\ \A i \in 1 .. Len(xs) : ys[i] = xs[i]
      /\ ys[Len(xs) + 1] = x
  BY <1>1, AppendProperties
<1>4. /\ "alias" \notin ls /\ ("shift" \in ls => trivial)
      /\ "husk" \notin ls => Holds(s, xs) /\ Full(s)
      /\ ~trivial /\ ls = {} => Clean(s)
      /\ s.size \in Nat
  BY BeforeStep
<1> HIDE DEF t, ys
<1>5. ASSUME Holds(s, xs) PROVE Holds(t, ys)
  BY <1>2, <1>3, <1>4, <1>5 DEF Holds
<1>6. t.fault => ~trivial /\ "husk" \in ls
  BY <1>2, <1>4
<1>7. "husk" \notin ls => Holds(t, ys)
  BY <1>4, <1>5
<1>8. ~trivial /\ ls = {} => Clean(t)
  BY <1>2, <1>4
<1>9. "alias" \in ls \/ (~trivial /\ "shift" \in ls) => t.fault
  BY <1>4
<1> QED
  BY <1>1, <1>2, <1>3, <1>6, <1>7, <1>8, <1>9, AfterStep DEF t, ys

\* pop_back keeps a vector sound.
LEMMA PopBackSound ==
    ASSUME NEW s, NEW xs, NEW ls, Sound(s, xs, ls), ~s.fault, SmallVecAssumption, s.size > 0
    PROVE  Sound(Destroy([s EXCEPT !.size = @ - 1], s.size - 1), SubSeq(xs, 1, Len(xs) - 1), ls)
<1> DEFINE t == Destroy([s EXCEPT !.size = @ - 1], s.size - 1)
           ys == SubSeq(xs, 1, Len(xs) - 1)
<1>1. /\ IsObject(s) /\ xs \in Seq(Items) /\ ls \in SUBSET Lapses
  BY DEF Sound
<1>2. /\ IsObject(t) /\ t.size = s.size - 1
      /\ \A i \in 0 .. s.size - 2 : t.cells[i] = s.cells[i]
      /\ Clean(s) => Clean(t)
      /\ t.fault => s.fault \/ (~trivial /\ ~Full(s))
  BY <1>1, PopBackResult
<1>4. /\ "alias" \notin ls /\ ("shift" \in ls => trivial)
      /\ "husk" \notin ls => Holds(s, xs) /\ Full(s)
      /\ ~trivial /\ ls = {} => Clean(s)
      /\ s.size \in Nat /\ Len(xs) \in Nat
  BY BeforeStep
<1>3. /\ ys \in Seq(Items) /\ (1 <= Len(xs) - 1 => Len(ys) = Len(xs) - 1)
            /\ (Len(xs) - 1 < 1 => Len(ys) = 0)
      /\ \A i \in 1 .. Len(xs) - 1 : ys[i] = xs[i]
  <2>1. \A i \in 1 .. Len(xs) - 1 : xs[i] \in Items
    BY <1>1, <1>4, ElementOfSeq
  <2>2. 1 \in Int /\ Len(xs) - 1 \in Int
    BY <1>4
  <2>3. /\ ys \in Seq(Items) /\ Len(ys) = IF 1 <= Len(xs) - 1 THEN Len(xs) - 1 - 1 + 1 ELSE 0
        /\ \A i \in 1 .. Len(xs) - 1 - 1 + 1 : ys[i] = xs[1 + i - 1]
    BY <2>1, <2>2, SubSeqProperties
  <2> HIDE DEF ys
  <2> QED
    BY <1>4, <2>3
<1> HIDE DEF t, ys
<1>5. ASSUME Holds(s, xs) PROVE Holds(t, ys)
  <2>1. s.size = Len(xs) /\ \A i \in 0 .. s.size - 1 : s.cells[i] = xs[i + 1]
    BY <1>5 DEF Holds
  <2>2. t.size = Len(ys)
    BY <1>2, <1>3, <1>4, <2>1
  <2>3. ASSUME NEW i \in 0 .. t.size - 1 PROVE t.cells[i] = ys[i + 1]
    <3>1. i \in 0 .. s.size - 2 /\ i \in 0 .. s.size - 1 /\ i + 1 \in 1 .. Len(xs) - 1
      BY <1>2, <1>4, <2>1
    <3> QED
      BY <1>2, <1>3, <2>1, <3>1
  <2> QED
    BY <2>2, <2>3 DEF Holds
<1>6. t.fault => ~trivial /\ "husk" \in ls
  BY <1>2, <1>4
<1>7. "husk" \notin ls => Holds(t, ys)
  BY <1>4, <1>5
<1>8. ~trivial /\ ls = {} => Clean(t)
  BY <1>2, <1>4
<1>9. "alias" \in ls \/ (~trivial /\ "shift" \in ls) => t.fault
  BY <1>4
<1> QED
  BY <1>1, <1>2, <1>3, <1>6, <1>7, <1>8, <1>9, AfterStep DEF t, ys

\* clear keeps a vector sound, and a husk is one no longer.
LEMMA ClearSound ==
    ASSUME NEW s, NEW xs, NEW ls, Sound(s, xs, ls), ~s.fault, SmallVecAssumption
    PROVE  Sound(Clear(s), <<>>, Cleared(ls))
<1> DEFINE t == Clear(s)
           ks == Cleared(ls)
<1>1. IsObject(s) /\ ls \in SUBSET Lapses
  BY DEF Sound
<1>2. /\ IsObject(t) /\ t.size = 0 /\ (Clean(s) => Clean(t))
      /\ t.fault => s.fault \/ (~trivial /\ ~Full(s))
  BY <1>1, ClearResult
<1>3. <<>> \in Seq(Items) /\ Len(<<>>) = 0
  BY EmptySeq
<1>4. /\ "alias" \notin ls /\ ("shift" \in ls => trivial)
      /\ "husk" \notin ls => Full(s)
      /\ ~trivial /\ ls = {} => Clean(s)
  BY BeforeStep
<1>10. /\ ks \in SUBSET Lapses /\ (~trivial => ks = ls)
       /\ "alias" \notin ks /\ ("shift" \in ks => trivial)
  BY <1>1, <1>4 DEF Cleared
<1> HIDE DEF t, ks
<1>5. Holds(t, <<>>)
  BY <1>2, <1>3 DEF Holds
<1>6. t.fault => ~trivial /\ "husk" \in ks
  BY <1>2, <1>4, <1>10
<1>8. ~trivial /\ ks = {} => Clean(t)
  BY <1>2, <1>4, <1>10
<1>9. "alias" \in ks \/ (~trivial /\ "shift" \in ks) => t.fault
  BY <1>10
<1>11. Sound(t, <<>>, ks)
  BY <1>2, <1>3, <1>5, <1>6, <1>8, <1>9, <1>10, AfterStep
<1> QED
  BY <1>11 DEF t, ks

\* reserve keeps a vector sound.
LEMMA ReserveSound ==
    ASSUME NEW s, NEW xs, NEW ls, Sound(s, xs, ls), ~s.fault, SmallVecAssumption, NEW n \in Nat
    PROVE  Sound(Reserve(s, n), xs, ls)
<1> DEFINE t == Reserve(s, n)
<1>1. IsObject(s) /\ xs \in Seq(Items) /\ ls \in SUBSET Lapses
  BY DEF Sound
<1>2. /\ IsObject(t) /\ t.size = s.size /\ (Clean(s) => Clean(t))
      /\ \A i \in 0 .. s.size - 1 : t.cells[i] = s.cells[i]
      /\ t.fault => s.fault \/ (~trivial /\ ~Full(s))
  <2>1. /\ Keeps(s, t) /\ t.size = s.size /\ (Clean(s) => Clean(t))
        /\ \A i \in 0 .. s.size - 1 : t.cells[i] = s.cells[i]
    BY <1>1, ReserveResult
  <2> HIDE DEF t
  <2> QED
    BY <2>1 DEF Keeps
<1>4. /\ "alias" \notin ls /\ ("shift" \in ls => trivial)
      /\ "husk" \notin ls => Holds(s, xs) /\ Full(s)
      /\ ~trivial /\ ls = {} => Clean(s)
  BY BeforeStep
<1> HIDE DEF t
<1>5. ASSUME Holds(s, xs) PROVE Holds(t, xs)
  BY <1>2, <1>5 DEF Holds
<1>6. t.fault => ~trivial /\ "husk" \in ls
  BY <1>2, <1>4
<1>7. "husk" \notin ls => Holds(t, xs)
  BY <1>4, <1>5
<1>8. ~trivial /\ ls = {} => Clean(t)
  BY <1>2, <1>4
<1>9. "alias" \in ls \/ (~trivial /\ "shift" \in ls) => t.fault
  BY <1>4
<1> QED
  BY <1>1, <1>2, <1>6, <1>7, <1>8, <1>9, AfterStep DEF t

\* What is in a sequence after an insert and after an erase.
WithInserted(S, xs, ws, index, ys) ==
    /\ ys \in Seq(S) /\ Len(ys) = Len(xs) + Len(ws)
    /\ \A i \in 1 .. index : ys[i] = xs[i]
    /\ \A i \in index + 1 .. index + Len(ws) : ys[i] = ws[i - index]
    /\ \A i \in index + Len(ws) + 1 .. Len(xs) + Len(ws) : ys[i] = xs[i - Len(ws)]

WithErased(S, xs, first, count, ys) ==
    /\ ys \in Seq(S) /\ Len(ys) = Len(xs) - count
    /\ \A i \in 1 .. first : ys[i] = xs[i]
    /\ \A i \in first + 1 .. Len(xs) - count : ys[i] = xs[i + count]

\* insert, on the sequence the caller means.
LEMMA InsertedElements ==
    ASSUME NEW S, NEW xs \in Seq(S), NEW ws \in Seq(S), NEW index \in 0 .. Len(xs)
    PROVE  WithInserted(S, xs, ws, index, SubSeq(xs, 1, index) \o ws
              \o SubSeq(xs, index + 1, Len(xs)))
<1> DEFINE a == SubSeq(xs, 1, index)
           b == SubSeq(xs, index + 1, Len(xs))
           l == Len(xs)
           n == Len(ws)
           c == a \o ws
           ys == c \o b
<1>1. l \in Nat /\ n \in Nat /\ index \in Nat /\ index <= l
  OBVIOUS
<1>2. /\ a \in Seq(S) /\ Len(a) = index
      /\ \A i \in 1 .. index : a[i] = xs[i]
  <2>1. 1 \in 1 .. Len(xs) + 1 /\ index \in 1 - 1 .. Len(xs)
    BY <1>1
  <2>2. /\ a \in Seq(S) /\ Len(a) = index - 1 + 1
        /\ \A i \in 1 .. index - 1 + 1 : a[i] = xs[1 + i - 1]
    BY <2>1, PartOfSequence
  <2> HIDE DEF a
  <2>3. index - 1 + 1 = index /\ \A i \in 1 .. index : 1 + i - 1 = i
    BY <1>1
  <2> QED
    BY <2>2, <2>3
<1>3. /\ b \in Seq(S) /\ Len(b) = l - index
      /\ \A i \in 1 .. l - index : b[i] = xs[index + i]
  <2>1. index + 1 \in 1 .. Len(xs) + 1 /\ Len(xs) \in (index + 1) - 1 .. Len(xs)
    BY <1>1
  <2>2. /\ b \in Seq(S) /\ Len(b) = l - (index + 1) + 1
        /\ \A i \in 1 .. l - (index + 1) + 1 : b[i] = xs[(index + 1) + i - 1]
    BY <2>1, PartOfSequence
  <2> HIDE DEF b, l
  <2>3. /\ l - (index + 1) + 1 = l - index
        /\ \A i \in 1 .. l - index : (index + 1) + i - 1 = index + i
    BY <1>1
  <2> QED
    BY <2>2, <2>3
<1> HIDE DEF a, b
<1>4. /\ c \in Seq(S) /\ Len(c) = index + n
      /\ \A i \in 1 .. index + n : c[i] = IF i <= index THEN a[i] ELSE ws[i - index]
  <2>1. /\ c \in Seq(S) /\ Len(c) = Len(a) + Len(ws)
        /\ \A i \in 1 .. Len(a) + Len(ws) : c[i] = IF i <= Len(a) THEN a[i] ELSE ws[i - Len(a)]
    BY <1>2, ConcatProperties
  <2> HIDE DEF c
  <2> QED
    BY <1>2, <2>1
<1> HIDE DEF c
<1>5. /\ ys \in Seq(S) /\ Len(ys) = index + n + (l - index)
      /\ \A i \in 1 .. index + n + (l - index) :
            ys[i] = IF i <= index + n THEN c[i] ELSE b[i - (index + n)]
  <2>1. /\ ys \in Seq(S) /\ Len(ys) = Len(c) + Len(b)
        /\ \A i \in 1 .. Len(c) + Len(b) : ys[i] = IF i <= Len(c) THEN c[i] ELSE b[i - Len(c)]
    BY <1>3, <1>4, ConcatProperties
  <2> HIDE DEF ys
  <2> QED
    BY <1>3, <1>4, <2>1
<1> HIDE DEF ys, l, n
<1>6. ys \in Seq(S) /\ Len(ys) = l + n
  BY <1>1, <1>5
<1>7. ASSUME NEW i \in 1 .. index PROVE ys[i] = xs[i]
  <2>1. i \in 1 .. index + n /\ i \in 1 .. index + n + (l - index) /\ i <= index /\ i <= index + n
    BY <1>1
  <2>2. ys[i] = c[i]
    BY <1>5, <2>1
  <2>3. c[i] = a[i]
    BY <1>4, <2>1
  <2> QED
    BY <1>2, <2>2, <2>3
<1>8. \A i \in index + 1 .. index + n : ys[i] = ws[i - index]
  BY <1>1, <1>4, <1>5
<1>9. ASSUME NEW i \in index + n + 1 .. l + n PROVE ys[i] = xs[i - n]
  <2>1. ys[i] = b[i - (index + n)] /\ i - (index + n) \in 1 .. l - index
    BY <1>1, <1>5
  <2>2. index + (i - (index + n)) = i - n
    BY <1>1
  <2> QED
    BY <1>3, <2>1, <2>2
<1> QED
  BY <1>6, <1>7, <1>8, <1>9 DEF WithInserted, ys, c, a, b, l, n

\* erase, on the sequence the caller means.
LEMMA ErasedElements ==
    ASSUME NEW S, NEW xs \in Seq(S), NEW first \in Nat, NEW count \in Nat,
              first + count <= Len(xs)
    PROVE  WithErased(S, xs, first, count, SubSeq(xs, 1, first)
              \o SubSeq(xs, first + count + 1, Len(xs)))
<1> DEFINE a == SubSeq(xs, 1, first)
           b == SubSeq(xs, first + count + 1, Len(xs))
           l == Len(xs)
           ys == a \o b
<1>1. l \in Nat /\ first + count <= l
  OBVIOUS
<1>2. /\ a \in Seq(S) /\ Len(a) = first
      /\ \A i \in 1 .. first : a[i] = xs[i]
  <2>1. 1 \in 1 .. Len(xs) + 1 /\ first \in 1 - 1 .. Len(xs)
    BY <1>1
  <2>2. /\ a \in Seq(S) /\ Len(a) = first - 1 + 1
        /\ \A i \in 1 .. first - 1 + 1 : a[i] = xs[1 + i - 1]
    BY <2>1, PartOfSequence
  <2> HIDE DEF a
  <2> QED
    BY <1>1, <2>2
<1>3. /\ b \in Seq(S) /\ Len(b) = l - first - count
      /\ \A i \in 1 .. l - first - count : b[i] = xs[first + count + i]
  <2>1. first + count + 1 \in 1 .. Len(xs) + 1 /\ Len(xs) \in (first + count + 1) - 1 .. Len(xs)
    BY <1>1
  <2>2. /\ b \in Seq(S) /\ Len(b) = l - (first + count + 1) + 1
        /\ \A i \in 1 .. l - (first + count + 1) + 1 : b[i] = xs[(first + count + 1) + i - 1]
    BY <2>1, PartOfSequence
  <2> HIDE DEF b, l
  <2> QED
    BY <1>1, <2>2
<1> HIDE DEF a, b
<1>4. /\ ys \in Seq(S) /\ Len(ys) = first + (l - first - count)
      /\ \A i \in 1 .. first + (l - first - count) : ys[i] = IF i <= first THEN a[i]
            ELSE b[i - first]
  <2>1. /\ ys \in Seq(S) /\ Len(ys) = Len(a) + Len(b)
        /\ \A i \in 1 .. Len(a) + Len(b) : ys[i] = IF i <= Len(a) THEN a[i] ELSE b[i - Len(a)]
    BY <1>2, <1>3, ConcatProperties
  <2> HIDE DEF ys
  <2> QED
    BY <1>2, <1>3, <2>1
<1> HIDE DEF ys, l
<1>5. ys \in Seq(S) /\ Len(ys) = l - count
  BY <1>1, <1>4
<1>6. \A i \in 1 .. first : ys[i] = xs[i]
  BY <1>1, <1>2, <1>4
<1>7. ASSUME NEW i \in first + 1 .. l - count PROVE ys[i] = xs[i + count]
  <2>1. ys[i] = b[i - first] /\ i - first \in 1 .. l - first - count
    BY <1>1, <1>4
  <2>2. first + count + (i - first) = i + count
    BY <1>1
  <2> QED
    BY <1>3, <2>1, <2>2
<1> QED
  BY <1>5, <1>6, <1>7 DEF WithErased, ys, a, b, l

\* A vector whose fault is set, or kept.
LEMMA FaultedObject ==
    ASSUME NEW s, IsObject(s), NEW b \in BOOLEAN
    PROVE  LET t == [s EXCEPT !.fault = @ \/ b]
           IN  /\ IsObject(t) /\ t.size = s.size /\ t.cells = s.cells
               /\ (Clean(t) <=> Clean(s)) /\ t.fault = (s.fault \/ b)
<1> DEFINE f == s.fault \/ b
           t == [s EXCEPT !.fault = @ \/ b]
<1>1. /\ s = Object(s.cells, s.size, s.cap, s.fault)
      /\ s.size \in Nat /\ s.cap \in Nat /\ f \in BOOLEAN
      /\ s.cells \in [0 .. s.cap - 1 -> Items \cup {Raw}]
      /\ s.size <= s.cap /\ N <= s.cap
  <2>1. s.fault \in BOOLEAN
    BY ObjectParts
  <2>2. f \in BOOLEAN
    BY <2>1
  <2> HIDE DEF f
  <2> QED
    BY <2>2, ObjectParts
<1>2. t = [s EXCEPT !.fault = f]
  OBVIOUS
<1> HIDE DEF f, t
<1>3. t = Object(s.cells, s.size, s.cap, f)
  BY <1>1, <1>2 DEF Object
<1>4. t.cells = s.cells /\ t.size = s.size /\ t.cap = s.cap /\ t.fault = f
  BY <1>3, ObjectFields
<1>5. IsObject(t)
  BY <1>1, <1>3, IsObjectIntro
<1> QED
  BY <1>4, <1>5 DEF Clean, t, f

\* push_back of an own element does, with a lapse where the vector grows.
LEMMA PushBackOwnSound ==
    ASSUME NEW s, NEW xs, NEW ls, Sound(s, xs, ls), ~s.fault, SmallVecAssumption,
           NEW x \in Items, NEW grows \in BOOLEAN
    PROVE  Sound([EmplaceBack(s, x) EXCEPT !.fault = @ \/ grows], Append(xs, x),
                 ls \cup (IF grows THEN {"alias"} ELSE {}))
<1> DEFINE e == EmplaceBack(s, x)
           t == [e EXCEPT !.fault = @ \/ grows]
           ys == Append(xs, x)
           ms == ls \cup (IF grows THEN {"alias"} ELSE {})
<1>1. Sound(e, ys, ls)
  BY PushBackSound
<1>2. /\ "alias" \notin ls /\ ("shift" \in ls => trivial)
  BY BeforeStep
<1> HIDE DEF e, ys
<1>3. IsObject(e) /\ ys \in Seq(Items) /\ ls \in SUBSET Lapses /\ Agrees(e, ys, ls)
  BY <1>1 DEF Sound
<1>4. /\ IsObject(t) /\ t.size = e.size /\ t.cells = e.cells
      /\ (Clean(t) <=> Clean(e)) /\ t.fault = (e.fault \/ grows)
  BY <1>3, FaultedObject
<1> HIDE DEF t
<1>5. Holds(e, ys) => Holds(t, ys)
  BY <1>4 DEF Holds
<1>6. CASE ~grows
  <2>1. ms = ls
    BY <1>6
  <2>2. Agrees(t, ys, ls)
    BY <1>3, <1>4, <1>5, <1>6 DEF Agrees
  <2> QED
    BY <1>3, <1>4, <2>1, <2>2 DEF Sound, t, e, ys
<1>7. CASE grows
  <2>1. "alias" \in ms /\ ms \in SUBSET Lapses
    BY <1>3, <1>7 DEF Lapses
  <2>2. t.fault
    BY <1>4, <1>7
  <2> HIDE DEF ms
  <2>3. Agrees(t, ys, ms)
    BY <2>1, <2>2 DEF Agrees
  <2> QED
    BY <1>3, <1>4, <2>1, <2>3 DEF Sound, t, e, ys, ms
<1> QED
  BY <1>6, <1>7

\* insert does, with a lapse where more elements follow the gap than it is wide.
LEMMA InsertSound ==
    ASSUME NEW s, NEW xs, NEW ls, Sound(s, xs, ls), ~s.fault, SmallVecAssumption,
           NEW ws \in Seq(Items), NEW index \in 0 .. s.size, index <= Len(xs)
    PROVE  Sound(BuildAll(ShiftRight(s, index, Len(ws)), index, ws),
                 SubSeq(xs, 1, index) \o ws \o SubSeq(xs, index + 1, Len(xs)),
                 ls \cup (IF Len(ws) \in 1 .. s.size - index - 1 THEN {"shift"} ELSE {}))
<1> DEFINE n == Len(ws)
           gap == n \in 1 .. s.size - index - 1
           t == BuildAll(ShiftRight(s, index, n), index, ws)
           ys == SubSeq(xs, 1, index) \o ws \o SubSeq(xs, index + 1, Len(xs))
           ms == ls \cup (IF gap THEN {"shift"} ELSE {})
<1>1. /\ IsObject(s) /\ xs \in Seq(Items) /\ ls \in SUBSET Lapses /\ n \in Nat
  BY DEF Sound
<1>2. /\ "alias" \notin ls /\ ("shift" \in ls => trivial)
      /\ "husk" \notin ls => Holds(s, xs) /\ Full(s)
      /\ ~trivial /\ ls = {} => Clean(s)
      /\ s.size \in Nat /\ Len(xs) \in Nat
  BY BeforeStep
<1>3. /\ IsObject(t) /\ t.size = s.size + n
      /\ \A i \in 0 .. index - 1 : t.cells[i] = s.cells[i]
      /\ \A i \in index .. index + n - 1 : t.cells[i] = ws[i - index + 1]
      /\ \A i \in index + n .. s.size + n - 1 : t.cells[i] = s.cells[i - n]
      /\ Clean(s) => Clean(t)
      /\ t.fault => s.fault \/ (~trivial /\ (~Full(s) \/ gap))
      /\ ~trivial /\ gap => t.fault
  BY <1>1, InsertResult
<1>4. /\ ys \in Seq(Items) /\ Len(ys) = Len(xs) + n
      /\ \A i \in 1 .. index : ys[i] = xs[i]
      /\ \A i \in index + 1 .. index + n : ys[i] = ws[i - index]
      /\ \A i \in index + n + 1 .. Len(xs) + n : ys[i] = xs[i - n]
  <2>1. index \in 0 .. Len(xs)
    BY <1>2
  <2>2. WithInserted(Items, xs, ws, index, ys)
    BY <1>1, <2>1, InsertedElements
  <2> HIDE DEF ys
  <2> QED
    BY <2>2 DEF WithInserted
<1> HIDE DEF t, ys, n
<1>5. ASSUME Holds(s, xs) PROVE Holds(t, ys)
  <2>1. s.size = Len(xs) /\ \A i \in 0 .. s.size - 1 : s.cells[i] = xs[i + 1]
    BY <1>5 DEF Holds
  <2>2. ASSUME NEW i \in 0 .. t.size - 1 PROVE t.cells[i] = ys[i + 1]
    <3>1. CASE i < index
      <4>1. i \in 0 .. index - 1 /\ i + 1 \in 1 .. index /\ i \in 0 .. s.size - 1
        BY <1>1, <1>2, <1>3, <3>1
      <4>2. t.cells[i] = s.cells[i] /\ ys[i + 1] = xs[i + 1]
        BY <1>3, <1>4, <4>1
      <4> QED
        BY <2>1, <4>1, <4>2
    <3>2. CASE i >= index /\ i < index + n
      <4>1. i \in index .. index + n - 1 /\ i + 1 \in index + 1 .. index + n
               /\ i + 1 - index = i - index + 1
        BY <1>1, <1>2, <1>3, <3>2
      <4> QED
        BY <1>3, <1>4, <4>1
    <3>3. CASE i >= index + n
      <4>1. /\ i \in index + n .. s.size + n - 1 /\ i + 1 \in index + n + 1 .. Len(xs) + n
            /\ i - n \in 0 .. s.size - 1 /\ i - n + 1 = i + 1 - n
        BY <1>1, <1>2, <1>3, <2>1, <3>3
      <4>2. t.cells[i] = s.cells[i - n]
        BY <1>3, <4>1
      <4>3. ys[i + 1] = xs[i + 1 - n]
        <5>1. \A j \in index + n + 1 .. Len(xs) + n : ys[j] = xs[j - n]
          BY <1>4, Zenon
        <5>2. i + 1 \in index + n + 1 .. Len(xs) + n
          BY <4>1
        <5>3. (i + 1) - n = i + 1 - n
          BY <1>1
        <5> QED
          BY <5>1, <5>2, <5>3
      <4>4. s.cells[i - n] = xs[i - n + 1]
        BY <2>1, <4>1
      <4> QED
        BY <4>1, <4>2, <4>3, <4>4
    <3> QED
      BY <1>1, <1>2, <1>3, <3>1, <3>2, <3>3
  <2> QED
    BY <1>3, <1>4, <2>1, <2>2 DEF Holds
<1> HIDE DEF gap
<1>6. ms \in SUBSET Lapses
  BY <1>1 DEF Lapses
<1>7. /\ "alias" \notin ms /\ ("husk" \in ms <=> "husk" \in ls)
      /\ ("shift" \in ms <=> gap \/ "shift" \in ls) /\ (ms = {} => ls = {})
  <2>1. CASE gap
    BY <1>2, <2>1
  <2>2. CASE ~gap
    BY <1>2, <2>2
  <2> QED
    BY <2>1, <2>2
<1> HIDE DEF ms
<1>8. t.fault => "alias" \in ms \/ (~trivial /\ ("shift" \in ms \/ "husk" \in ms))
  BY <1>2, <1>3, <1>7
<1>9. "alias" \in ms \/ (~trivial /\ "shift" \in ms) => t.fault
  BY <1>2, <1>3, <1>7
<1>10. "husk" \notin ms => Holds(t, ys)
  BY <1>2, <1>5, <1>7
<1>11. ~trivial /\ ms = {} => Clean(t)
  BY <1>2, <1>3, <1>7
<1> QED
  BY <1>3, <1>4, <1>6, <1>8, <1>9, <1>10, <1>11, AfterStep DEF t, ys, ms, n, gap

\* erase does, with a lapse where more or fewer elements follow than are erased.
LEMMA EraseSound ==
    ASSUME NEW s, NEW xs, NEW ls, Sound(s, xs, ls), ~s.fault, SmallVecAssumption,
           NEW first \in Nat, NEW count \in Nat \ {0},
           first + count <= s.size, first + count <= Len(xs)
    PROVE  LET after == s.size - first - count
           IN  Sound(ShiftLeft(s, first + count, count),
                     SubSeq(xs, 1, first) \o SubSeq(xs, first + count + 1, Len(xs)),
                     ls \cup (IF after > count THEN {"shift"} ELSE {})
                        \cup (IF after < count THEN {"leak"} ELSE {}))
<1> DEFINE after == s.size - first - count
           gap == after > count
           leak == after < count
           t == ShiftLeft(s, first + count, count)
           ys == SubSeq(xs, 1, first) \o SubSeq(xs, first + count + 1, Len(xs))
           ms == ls \cup (IF gap THEN {"shift"} ELSE {}) \cup (IF leak THEN {"leak"} ELSE {})
<1>1. /\ IsObject(s) /\ xs \in Seq(Items) /\ ls \in SUBSET Lapses
  BY DEF Sound
<1>2. /\ "alias" \notin ls /\ ("shift" \in ls => trivial)
      /\ "husk" \notin ls => Holds(s, xs) /\ Full(s)
      /\ ~trivial /\ ls = {} => Clean(s)
      /\ s.size \in Nat /\ Len(xs) \in Nat
  BY BeforeStep
<1>3. /\ IsObject(t) /\ t.size = s.size - count
      /\ \A i \in 0 .. first - 1 : t.cells[i] = s.cells[i]
      /\ \A i \in first .. t.size - 1 : t.cells[i] = s.cells[i + count]
      /\ Clean(s) /\ after >= count => Clean(t)
      /\ t.fault => s.fault \/ (~trivial /\ (~Full(s) \/ gap))
      /\ ~trivial /\ gap => t.fault
  BY <1>1, EraseResult
<1>4. /\ ys \in Seq(Items) /\ Len(ys) = Len(xs) - count
      /\ \A i \in 1 .. first : ys[i] = xs[i]
      /\ \A i \in first + 1 .. Len(xs) - count : ys[i] = xs[i + count]
  <2>1. count \in Nat
    OBVIOUS
  <2>2. WithErased(Items, xs, first, count, ys)
    BY <1>1, <2>1, ErasedElements
  <2> HIDE DEF ys
  <2> QED
    BY <2>2 DEF WithErased
<1> HIDE DEF t, ys
<1>5. ASSUME Holds(s, xs) PROVE Holds(t, ys)
  <2>1. s.size = Len(xs) /\ \A i \in 0 .. s.size - 1 : s.cells[i] = xs[i + 1]
    BY <1>5 DEF Holds
  <2>2. ASSUME NEW i \in 0 .. t.size - 1 PROVE t.cells[i] = ys[i + 1]
    <3>1. CASE i < first
      <4>1. i \in 0 .. first - 1 /\ i + 1 \in 1 .. first /\ i \in 0 .. s.size - 1
        BY <1>2, <1>3, <3>1
      <4>2. t.cells[i] = s.cells[i] /\ ys[i + 1] = xs[i + 1]
        BY <1>3, <1>4, <4>1
      <4> QED
        BY <2>1, <4>1, <4>2
    <3>2. CASE i >= first
      <4>1. /\ i \in first .. t.size - 1 /\ i + 1 \in first + 1 .. Len(xs) - count
            /\ i + count \in 0 .. s.size - 1 /\ i + 1 + count = i + count + 1
        BY <1>2, <1>3, <2>1, <3>2
      <4>2. t.cells[i] = s.cells[i + count]
        BY <1>3, <4>1
      <4>3. ys[i + 1] = xs[i + 1 + count]
        BY <1>4, <4>1
      <4>4. s.cells[i + count] = xs[i + count + 1]
        BY <2>1, <4>1
      <4> QED
        BY <4>1, <4>2, <4>3, <4>4
    <3> QED
      BY <1>2, <1>3, <3>1, <3>2
  <2> QED
    BY <1>3, <1>4, <2>1, <2>2 DEF Holds
<1>6. after >= count \/ leak
  BY <1>2
<1> HIDE DEF gap, leak, after
<1>7. ms \in SUBSET Lapses
  BY <1>1 DEF Lapses
<1>8. /\ "alias" \notin ms /\ ("husk" \in ms <=> "husk" \in ls)
      /\ ("shift" \in ms <=> gap \/ "shift" \in ls) /\ (ms = {} => ls = {} /\ ~leak)
  <2>1. CASE gap
    BY <1>2, <2>1
  <2>2. CASE ~gap
    BY <1>2, <2>2
  <2> QED
    BY <2>1, <2>2
<1> HIDE DEF ms
<1>9. t.fault => "alias" \in ms \/ (~trivial /\ ("shift" \in ms \/ "husk" \in ms))
  BY <1>2, <1>3, <1>8
<1>10. "alias" \in ms \/ (~trivial /\ "shift" \in ms) => t.fault
  BY <1>2, <1>3, <1>8
<1>11. "husk" \notin ms => Holds(t, ys)
  BY <1>2, <1>5, <1>8
<1>12. ~trivial /\ ms = {} => Clean(t)
  BY <1>2, <1>3, <1>6, <1>8
<1> QED
  BY <1>3, <1>4, <1>7, <1>9, <1>10, <1>11, <1>12, AfterStep DEF t, ys, ms, gap, leak, after

\* A vector that has just been made.
LEMMA NewSound ==
    ASSUME SmallVecAssumption
    PROVE  Sound(NewVector, <<>>, {}) /\ ~NewVector.fault /\ NewVector.size = 0
              /\ NewVector.cap = N
<1> DEFINE c == [i \in 0 .. N - 1 |-> Raw]
           t == NewVector
<1>1. t = Object(c, 0, N, FALSE)
  BY DEF NewVector, Object
<1>2. N \in Nat
  BY DEF SmallVecAssumption
<1>3. c \in [0 .. N - 1 -> Items \cup {Raw}] /\ \A i \in 0 .. N - 1 : c[i] = Raw
  OBVIOUS
<1>5. t.cells = c /\ t.size = 0 /\ t.cap = N /\ t.fault = FALSE
  BY DEF NewVector
<1> HIDE DEF c, t
<1>4. IsObject(t)
  <2>1. 0 \in Nat /\ 0 <= N /\ N <= N /\ FALSE \in BOOLEAN
    BY <1>2
  <2> QED
    BY <1>1, <1>2, <1>3, <2>1, IsObjectIntro
<1>6. <<>> \in Seq(Items) /\ Len(<<>>) = 0
  BY EmptySeq
<1>7. Holds(t, <<>>)
  BY <1>5, <1>6 DEF Holds
<1>8. Clean(t)
  BY <1>3, <1>5 DEF Clean
<1>9. Sound(t, <<>>, {})
  BY <1>4, <1>5, <1>6, <1>7, <1>8 DEF Sound, Agrees
<1> QED
  BY <1>5, <1>9 DEF t

\* A constructor, from a list of elements.
LEMMA ConstructSound ==
    ASSUME SmallVecAssumption, NEW xs \in Seq(Items)
    PROVE  Sound(EmplaceAll(Reserve(NewVector, Len(xs)), xs), xs, {})
<1> DEFINE r == Reserve(NewVector, Len(xs))
           t == EmplaceAll(r, xs)
<1>1. Len(xs) \in Nat /\ xs \in Seq(Items \cup {Raw})
  <2>1. Items \subseteq Items \cup {Raw}
    OBVIOUS
  <2> QED
    BY <2>1, SeqMonotonic, LenProperties
<1>2. IsObject(NewVector) /\ Clean(NewVector) /\ ~NewVector.fault /\ NewVector.size = 0
         /\ Full(NewVector)
  <2>1. IsObject(NewVector) /\ ~NewVector.fault /\ NewVector.size = 0
    BY NewSound DEF Sound
  <2>2. Clean(NewVector)
    BY NewSound DEF Clean, NewVector
  <2>3. Full(NewVector)
    BY <2>1 DEF Full
  <2> QED
    BY <2>1, <2>2, <2>3
<1>3. IsObject(r) /\ r.size = 0 /\ Len(xs) <= r.cap /\ Clean(r) /\ ~r.fault
  BY <1>1, <1>2, ReserveResult DEF Keeps
<1> HIDE DEF r
<1>4. /\ IsObject(t) /\ t.size = Len(xs) /\ t.fault = r.fault
      /\ \A i \in 0 .. t.size - 1 : t.cells[i] = xs[i + 1]
      /\ Clean(r) => Clean(t)
  BY <1>1, <1>3, FilledResult
<1> HIDE DEF t
<1>5. Holds(t, xs)
  BY <1>4 DEF Holds
<1> QED
  BY <1>3, <1>4, <1>5 DEF Sound, Agrees, r, t

\* The same in the place of a vector that is destroyed first: to destroy a husk
\* once more is a fault, and nothing else is.
LEMMA RebuiltSound ==
    ASSUME SmallVecAssumption, NEW xs \in Seq(Items),
           NEW s, NEW ys, NEW ls, Sound(s, ys, ls), ~s.fault
    PROVE  LET fault == Clear(s).fault
           IN  Sound([EmplaceAll(Reserve(NewVector, Len(xs)), xs) EXCEPT !.fault = fault], xs,
                     IF fault THEN ls ELSE {})
<1> DEFINE fault == Clear(s).fault
           e == EmplaceAll(Reserve(NewVector, Len(xs)), xs)
           t == [e EXCEPT !.fault = fault]
           ks == IF fault THEN ls ELSE {}
<1>1. Sound(Clear(s), <<>>, Cleared(ls)) /\ ls \in SUBSET Lapses
  BY ClearSound DEF Sound
<1>2. /\ "alias" \notin ls /\ ("shift" \in ls => trivial)
  BY BeforeStep
<1>3. fault \in BOOLEAN /\ (fault => ~trivial /\ "husk" \in ls)
  <2>1. IsObject(Clear(s)) /\ Agrees(Clear(s), <<>>, Cleared(ls))
    BY <1>1 DEF Sound
  <2>2. fault \in BOOLEAN
    BY <2>1, ObjectParts
  <2>3. fault => \/ "alias" \in Cleared(ls)
                 \/ ~trivial /\ ("shift" \in Cleared(ls) \/ "husk" \in Cleared(ls))
    BY <2>1, Zenon DEF Agrees
  <2> HIDE DEF fault
  <2> QED
    BY <1>2, <2>2, <2>3 DEF Cleared
<1>4. Sound(e, xs, {})
  BY ConstructSound
<1> HIDE DEF fault, e
<1>5. IsObject(e) /\ ~e.fault /\ Holds(e, xs) /\ (~trivial => Clean(e))
  BY <1>4 DEF Sound, Agrees
<1>6. t = [e EXCEPT !.fault = @ \/ fault]
  <2>1. e.fault = FALSE
    BY <1>5, ObjectParts
  <2>2. (e.fault \/ fault) = fault
    BY <1>3, <2>1
  <2> QED
    BY <2>2
<1>7. /\ IsObject(t) /\ t.size = e.size /\ t.cells = e.cells
      /\ (Clean(t) <=> Clean(e)) /\ t.fault = fault
  <2>1. LET r == [e EXCEPT !.fault = @ \/ fault]
        IN  /\ IsObject(r) /\ r.size = e.size /\ r.cells = e.cells
            /\ (Clean(r) <=> Clean(e)) /\ r.fault = (e.fault \/ fault)
    BY <1>3, <1>5, FaultedObject
  <2> HIDE DEF t
  <2> QED
    BY <1>3, <1>5, <1>6, <2>1
<1> HIDE DEF t
<1>8. Holds(t, xs)
  BY <1>5, <1>7 DEF Holds
<1>9. /\ ks \in SUBSET Lapses /\ "alias" \notin ks /\ ("shift" \in ks => trivial)
      /\ (fault => "husk" \in ks)
  BY <1>1, <1>2, <1>3
<1> HIDE DEF ks
<1>10. Sound(t, xs, ks)
  BY <1>3, <1>5, <1>7, <1>8, <1>9, AfterStep
<1> QED
  BY <1>10 DEF t, ks, e, fault

\* Assignment by copy: what was there goes, and the source's elements are copied.
LEMMA CopySound ==
    ASSUME SmallVecAssumption,
           NEW s, NEW xs, NEW ls, Sound(s, xs, ls), ~s.fault,
           NEW src, NEW ys, NEW ms, Sound(src, ys, ms), ~src.fault
    PROVE  LET e == EmplaceAll(Reserve(Clear(s), src.size),
                               [k \in 1 .. src.size |-> src.cells[k - 1]])
           IN  Sound([e EXCEPT !.fault = @ \/ HasHole(src)], ys,
                    Cleared(ls) \cup (ms \cap {"husk"}))
<1> DEFINE u == Clear(s)
           n == src.size
           r == Reserve(u, n)
           ws == [k \in 1 .. n |-> src.cells[k - 1]]
           e == EmplaceAll(r, ws)
           hole == HasHole(src)
           t == [e EXCEPT !.fault = @ \/ hole]
           ks == Cleared(ls) \cup (ms \cap {"husk"})
<1>1. /\ IsObject(s) /\ ls \in SUBSET Lapses /\ ms \in SUBSET Lapses /\ ys \in Seq(Items)
      /\ IsObject(src)
  BY DEF Sound
<1>2. /\ "alias" \notin ls /\ ("shift" \in ls => trivial)
      /\ "husk" \notin ls => Full(s)
      /\ ~trivial /\ ls = {} => Clean(s)
  BY BeforeStep
<1>3. "husk" \notin ms => Holds(src, ys) /\ Full(src)
  BY BeforeStep
<1>4. /\ IsObject(u) /\ u.size = 0 /\ (Clean(s) => Clean(u))
      /\ u.fault => s.fault \/ (~trivial /\ ~Full(s))
  BY <1>1, ClearResult
<1>5. /\ n \in Nat /\ src.cells \in [0 .. src.cap - 1 -> Items \cup {Raw}] /\ n <= src.cap
      /\ src.cap \in Nat
  BY <1>1, ObjectParts
<1> HIDE DEF u
<1>6. Full(u)
  BY <1>4 DEF Full
<1>7. /\ IsObject(r) /\ r.size = 0 /\ n <= r.cap /\ (Clean(u) => Clean(r))
      /\ r.fault => u.fault
  <2> HIDE DEF n
  <2> QED
    BY <1>4, <1>5, <1>6, ReserveResult DEF Keeps
<1> HIDE DEF r
<1>8. /\ ws \in Seq(Items \cup {Raw}) /\ Len(ws) = n
      /\ \A i \in 0 .. n - 1 : ws[i + 1] = src.cells[i]
  <2> HIDE DEF n
  <2>1. \A k \in 1 .. n : src.cells[k - 1] \in Items \cup {Raw}
    BY <1>5
  <2>2. ws \in [1 .. n -> Items \cup {Raw}]
    BY <2>1
  <2>3. \A i \in 0 .. n - 1 : i + 1 \in 1 .. n /\ i + 1 - 1 = i
    BY <1>5
  <2>4. \A i \in 0 .. n - 1 : ws[i + 1] = src.cells[i]
    BY <2>3
  <2> HIDE DEF ws
  <2> QED
    BY <1>5, <2>2, <2>4
<1> HIDE DEF ws, n
<1>9. /\ IsObject(e) /\ e.size = n /\ e.fault = r.fault
      /\ \A i \in 0 .. e.size - 1 : e.cells[i] = ws[i + 1]
      /\ Clean(r) => Clean(e)
  BY <1>7, <1>8, FilledResult
<1>10. hole \in BOOLEAN /\ (hole => ~trivial /\ ~Full(src))
  BY DEF HasHole, Full
<1> HIDE DEF e, hole
<1>11. /\ IsObject(t) /\ t.size = e.size /\ t.cells = e.cells
       /\ (Clean(t) <=> Clean(e)) /\ t.fault = (e.fault \/ hole)
  BY <1>9, <1>10, FaultedObject
<1> HIDE DEF t
<1>12. ASSUME Holds(src, ys) PROVE Holds(t, ys)
  BY <1>8, <1>9, <1>11, <1>12 DEF Holds, n
<1>13. /\ ks \in SUBSET Lapses /\ "alias" \notin ks /\ ("shift" \in ks => trivial)
       /\ "husk" \notin ks => "husk" \notin ms /\ (trivial \/ "husk" \notin ls)
       /\ ~trivial /\ ks = {} => ls = {}
  <2>1. CASE trivial
    BY <1>1, <1>2, <2>1 DEF Cleared
  <2>2. CASE ~trivial
    BY <1>1, <1>2, <2>2 DEF Cleared
  <2> QED
    BY <2>1, <2>2
<1> HIDE DEF ks
<1>14. t.fault => ~trivial /\ "husk" \in ks
  BY <1>2, <1>3, <1>4, <1>7, <1>9, <1>10, <1>11, <1>13
<1>15. "husk" \notin ks => Holds(t, ys)
  BY <1>3, <1>12, <1>13
<1>16. ~trivial /\ ks = {} => Clean(t)
  BY <1>2, <1>4, <1>7, <1>9, <1>11, <1>13
<1>17. Sound(t, ys, ks)
  BY <1>1, <1>11, <1>13, <1>14, <1>15, <1>16, AfterStep
<1> QED
  BY <1>17 DEF t, e, r, u, ws, n, hole, ks

\* operator=(SmallVec&&) from a large vector, which gives its row away.
LEMMA MoveLargeSound ==
    ASSUME SmallVecAssumption,
           NEW s, NEW xs, NEW ls, Sound(s, xs, ls), ~s.fault,
           NEW src, NEW ys, NEW ms, Sound(src, ys, ms), ~src.fault
    PROVE  Sound([src EXCEPT !.fault = Clear(s).fault], ys, Cleared(ls) \cup ms)
<1> DEFINE u == Clear(s)
           b == u.fault
           t == [src EXCEPT !.fault = b]
           ks == Cleared(ls) \cup ms
<1>1. /\ IsObject(s) /\ ls \in SUBSET Lapses /\ ms \in SUBSET Lapses /\ ys \in Seq(Items)
      /\ IsObject(src)
  BY DEF Sound
<1>2. /\ "alias" \notin ls /\ ("shift" \in ls => trivial)
      /\ "husk" \notin ls => Full(s)
  BY BeforeStep
<1>3. /\ "alias" \notin ms /\ ("shift" \in ms => trivial)
      /\ "husk" \notin ms => Holds(src, ys)
      /\ ~trivial /\ ms = {} => Clean(src)
  BY BeforeStep
<1>4. IsObject(u) /\ (u.fault => s.fault \/ (~trivial /\ ~Full(s)))
  BY <1>1, ClearResult
<1> HIDE DEF u
<1>5. b \in BOOLEAN
  BY <1>4, ObjectParts
<1> HIDE DEF b
<1>6. /\ src = Object(src.cells, src.size, src.cap, src.fault) /\ N <= src.cap
      /\ src.size \in Nat /\ src.cap \in Nat /\ src.size <= src.cap
      /\ src.cells \in [0 .. src.cap - 1 -> Items \cup {Raw}]
  BY <1>1, ObjectParts
<1> HIDE DEF t
<1>7. t = Object(src.cells, src.size, src.cap, b)
  BY <1>6 DEF Object, t
<1>8. t.cells = src.cells /\ t.size = src.size /\ t.cap = src.cap /\ t.fault = b
  BY <1>7, ObjectFields
<1>9. IsObject(t)
  BY <1>5, <1>6, <1>7, IsObjectIntro
<1>10. (Holds(src, ys) => Holds(t, ys)) /\ (Clean(src) => Clean(t))
  BY <1>8 DEF Holds, Clean
<1>11. /\ ks \in SUBSET Lapses /\ "alias" \notin ks /\ ("shift" \in ks => trivial)
       /\ "husk" \notin ks => "husk" \notin ms /\ (trivial \/ "husk" \notin ls)
       /\ ks = {} => ms = {}
  <2>1. CASE trivial
    BY <1>1, <1>2, <1>3, <2>1 DEF Cleared
  <2>2. CASE ~trivial
    BY <1>1, <1>2, <1>3, <2>2 DEF Cleared
  <2> QED
    BY <2>1, <2>2
<1> HIDE DEF ks
<1>12. t.fault => ~trivial /\ "husk" \in ks
  BY <1>2, <1>4, <1>8, <1>11 DEF b
<1>13. "husk" \notin ks => Holds(t, ys)
  BY <1>3, <1>10, <1>11
<1>14. ~trivial /\ ks = {} => Clean(t)
  BY <1>3, <1>10, <1>11
<1>15. Sound(t, ys, ks)
  BY <1>1, <1>9, <1>11, <1>12, <1>13, <1>14, AfterStep
<1> QED
  BY <1>15 DEF t, b, u, ks

\* From a small one: its elements go over one by one,
LEMMA MoveSmallSound ==
    ASSUME SmallVecAssumption,
           NEW s, NEW xs, NEW ls, Sound(s, xs, ls), ~s.fault,
           NEW src, NEW ys, NEW ms, Sound(src, ys, ms), ~src.fault, ~IsLarge(src)
    PROVE  LET inner == [NewVector EXCEPT !.size = src.size,
                                          !.cells = [i \in 0 .. N - 1 |->
                                                        IF i < src.size
                                                           THEN src.cells[i] ELSE Raw]]
           IN  Sound([inner EXCEPT !.fault = Clear(s).fault \/ HasHole(src)], ys,
                    Cleared(ls) \cup ms)
<1> DEFINE u == Clear(s)
           b == u.fault \/ HasHole(src)
           n == src.size
           c == [i \in 0 .. N - 1 |-> IF i < n THEN src.cells[i] ELSE Raw]
           inner == [NewVector EXCEPT !.size = n, !.cells = c]
           t == [inner EXCEPT !.fault = b]
           ks == Cleared(ls) \cup ms
<1>1. /\ IsObject(s) /\ ls \in SUBSET Lapses /\ ms \in SUBSET Lapses /\ ys \in Seq(Items)
      /\ IsObject(src)
  BY DEF Sound
<1>2. /\ "alias" \notin ls /\ ("shift" \in ls => trivial)
      /\ "husk" \notin ls => Full(s)
  BY BeforeStep
<1>3. /\ "alias" \notin ms /\ ("shift" \in ms => trivial)
      /\ "husk" \notin ms => Holds(src, ys) /\ Full(src)
  BY BeforeStep
<1>4. IsObject(u) /\ (u.fault => s.fault \/ (~trivial /\ ~Full(s)))
  BY <1>1, ClearResult
<1>5. HasHole(src) => ~trivial /\ ~Full(src)
  BY DEF HasHole, Full
<1> HIDE DEF u
<1>6. b \in BOOLEAN
  <2>1. u.fault \in BOOLEAN
    BY <1>4, ObjectParts
  <2> QED
    BY <2>1 DEF HasHole
<1> HIDE DEF b
<1>7. /\ n \in Nat /\ n <= N /\ N \in Nat /\ src.cap = N
      /\ src.cells \in [0 .. N - 1 -> Items \cup {Raw}]
  <2>1. /\ n \in Nat /\ n <= src.cap /\ N <= src.cap /\ src.cap \in Nat
        /\ src.cells \in [0 .. src.cap - 1 -> Items \cup {Raw}]
    BY <1>1, ObjectParts
  <2>2. N \in Nat /\ ~(src.cap > N)
    BY DEF SmallVecAssumption, IsLarge
  <2>3. src.cap = N
    <3> HIDE DEF n
    <3> QED
      BY <2>1, <2>2
  <2> HIDE DEF n
  <2> QED
    BY <2>1, <2>2, <2>3
<1> HIDE DEF n
<1>8. /\ c \in [0 .. N - 1 -> Items \cup {Raw}] /\ \A i \in 0 .. n - 1 : c[i] = src.cells[i]
      /\ \A i \in n .. N - 1 : c[i] = Raw
  BY <1>7
<1> HIDE DEF c, t
<1>9. t = Object(c, n, N, b)
  <2> DEFINE d == [i \in 0 .. N - 1 |-> Raw]
             f == FALSE
  <2>1. NewVector = Object(d, 0, N, f)
    BY DEF NewVector, Object
  <2> HIDE DEF d, f
  <2>2. [Object(d, 0, N, f) EXCEPT !.size = n] = Object(d, n, N, f)
    BY Resized
  <2>3. [Object(d, n, N, f) EXCEPT !.cells = c] = Object(c, n, N, f)
    BY DEF Object
  <2>4. inner = Object(c, n, N, f)
    <3>1. inner = [[NewVector EXCEPT !.size = n] EXCEPT !.cells = c]
      OBVIOUS
    <3> QED
      BY <2>1, <2>2, <2>3, <3>1
  <2> HIDE DEF inner
  <2> QED
    BY <2>4 DEF Object, t
<1>10. t.cells = c /\ t.size = n /\ t.cap = N /\ t.fault = b
  BY <1>9, ObjectFields
<1>11. IsObject(t)
  <2>1. N <= N
    BY <1>7
  <2> QED
    BY <1>6, <1>7, <1>8, <1>9, <2>1, IsObjectIntro
<1>12. Clean(t)
  BY <1>8, <1>10 DEF Clean
<1>13. Holds(src, ys) => Holds(t, ys)
  BY <1>8, <1>10 DEF Holds, n
<1>14. /\ ks \in SUBSET Lapses /\ "alias" \notin ks /\ ("shift" \in ks => trivial)
       /\ "husk" \notin ks => "husk" \notin ms /\ (trivial \/ "husk" \notin ls)
  <2>1. CASE trivial
    BY <1>1, <1>2, <1>3, <2>1 DEF Cleared
  <2>2. CASE ~trivial
    BY <1>1, <1>2, <1>3, <2>2 DEF Cleared
  <2> QED
    BY <2>1, <2>2
<1> HIDE DEF ks
<1>15. t.fault => ~trivial /\ "husk" \in ks
  BY <1>2, <1>3, <1>4, <1>5, <1>10, <1>14 DEF b
<1>16. "husk" \notin ks => Holds(t, ys)
  BY <1>3, <1>13, <1>14
<1>17. Sound(t, ys, ks)
  BY <1>1, <1>11, <1>12, <1>14, <1>15, <1>16, AfterStep
<1> QED
  BY <1>17 DEF t, inner, c, b, u, n, ks

\* and it is left with its size and nothing in it.
LEMMA HuskSound ==
    ASSUME SmallVecAssumption, NEW src, NEW ys, NEW ms, Sound(src, ys, ms), ~src.fault
    PROVE  Sound(DestroyAll(src), <<>>, ms \cup (IF src.size > 0 THEN {"husk"} ELSE {}))
<1> DEFINE t == DestroyAll(src)
           ks == ms \cup (IF src.size > 0 THEN {"husk"} ELSE {})
<1>1. ms \in SUBSET Lapses /\ IsObject(src)
  BY DEF Sound
<1>2. /\ "alias" \notin ms /\ ("shift" \in ms => trivial)
      /\ "husk" \notin ms => Full(src)
      /\ ~trivial /\ ms = {} => Clean(src)
      /\ src.size \in Nat
  BY BeforeStep
<1>3. /\ IsObject(t) /\ t.size = src.size /\ t.cap = src.cap
      /\ Clean(src) => \A i \in 0 .. t.cap - 1 : t.cells[i] = Raw
      /\ t.fault => src.fault \/ (~trivial /\ ~Full(src))
  BY <1>1, DestroyAllFacts, Zenon
<1>4. <<>> \in Seq(Items) /\ Len(<<>>) = 0
  BY EmptySeq
<1> HIDE DEF t
<1>5. Clean(src) => Clean(t)
  <2>1. \A i \in t.size .. t.cap - 1 : i \in 0 .. t.cap - 1
    BY <1>2, <1>3
  <2> QED
    BY <1>3, <2>1 DEF Clean
<1>6. /\ ks \in SUBSET Lapses /\ "alias" \notin ks /\ ("shift" \in ks => trivial)
      /\ ("husk" \notin ks => src.size = 0) /\ ("husk" \in ms => "husk" \in ks)
      /\ (ks = {} => ms = {})
  <2>1. CASE src.size > 0
    BY <1>1, <1>2, <2>1 DEF Lapses
  <2>2. CASE ~(src.size > 0)
    BY <1>1, <1>2, <2>2
  <2> QED
    BY <2>1, <2>2
<1> HIDE DEF ks
<1>7. t.fault => ~trivial /\ "husk" \in ks
  BY <1>2, <1>3, <1>6
<1>8. "husk" \notin ks => Holds(t, <<>>)
  BY <1>3, <1>4, <1>6 DEF Holds
<1>9. ~trivial /\ ks = {} => Clean(t)
  BY <1>2, <1>5, <1>6
<1>10. Sound(t, <<>>, ks)
  BY <1>3, <1>4, <1>6, <1>7, <1>8, <1>9, AfterStep
<1> QED
  BY <1>10 DEF t, ks

VecSpec == VecInit /\ [][VecNext]_vecVars

\* The inductive invariant: every vector is an object that agrees with the
\* sequence its caller means and with its lapses.
VecInv == VecTypeOK /\ \A v \in Vectors : Agrees(vec[v], items[v], lapses[v])

\* In a state of the invariant every vector is sound.
LEMMA InvSound ==
    ASSUME VecInv, NEW v \in Vectors
    PROVE  Sound(vec[v], items[v], lapses[v])
BY DEF VecInv, VecTypeOK, Sound

\* The invariant holds when every vector has just been made,
LEMMA VecInitInv == SmallVecAssumption /\ VecInit => VecInv
<1> SUFFICES ASSUME SmallVecAssumption, VecInit PROVE VecInv
  OBVIOUS
<1> DEFINE t == NewVector
           e == <<>>
<1>1. Sound(t, e, {})
  BY NewSound
<1>2. IsObject(t) /\ e \in Seq(Items) /\ Agrees(t, e, {})
  BY <1>1 DEF Sound
<1>3. /\ trivial \in BOOLEAN /\ vec = [v \in Vectors |-> t]
      /\ items = [v \in Vectors |-> e] /\ lapses = [v \in Vectors |-> {}]
  BY DEF VecInit
<1> HIDE DEF t, e
<1>4. \A v \in Vectors : vec[v] = t /\ items[v] = e /\ lapses[v] = {}
  BY <1>3
<1>5. \A v \in Vectors : IsObject(vec[v]) /\ Agrees(vec[v], items[v], lapses[v])
  BY <1>2, <1>4
<1>6. VecTypeOK
  <2>1. items \in [Vectors -> Seq(Items)] /\ lapses \in [Vectors -> SUBSET Lapses]
    BY <1>2, <1>3
  <2>2. vec = [v \in Vectors |-> vec[v]]
    BY <1>3, <1>4
  <2> QED
    BY <1>3, <1>5, <2>1, <2>2 DEF VecTypeOK
<1> QED
  BY <1>5, <1>6 DEF VecInv

\* Soundness does not depend on anything a step changes.
LEMMA SoundNext ==
    ASSUME NEW s, NEW xs, NEW ls, Sound(s, xs, ls), trivial' = trivial
    PROVE  IsObject(s) /\ xs \in Seq(Items) /\ ls \in SUBSET Lapses /\ Agrees(s, xs, ls)'
BY DEF Sound, Agrees

\* The invariant holds after a step that leaves every vector sound.
LEMMA SoundAfter ==
    ASSUME VecInv, trivial' = trivial,
           vec' = [u \in Vectors |-> vec'[u]], items' = [u \in Vectors |-> items'[u]],
           lapses' = [u \in Vectors |-> lapses'[u]],
           \A u \in Vectors : \E s, xs, ls :
               Sound(s, xs, ls) /\ vec'[u] = s /\ items'[u] = xs /\ lapses'[u] = ls
    PROVE  VecInv'
<1>1. ASSUME NEW u \in Vectors
      PROVE  /\ IsObject(vec'[u]) /\ items'[u] \in Seq(Items) /\ lapses'[u] \in SUBSET Lapses
             /\ Agrees(vec[u], items[u], lapses[u])'
  <2>1. PICK s, xs, ls : Sound(s, xs, ls) /\ vec'[u] = s /\ items'[u] = xs /\ lapses'[u] = ls
    OBVIOUS
  <2>2. IsObject(s) /\ xs \in Seq(Items) /\ ls \in SUBSET Lapses /\ Agrees(s, xs, ls)'
    BY <2>1, SoundNext
  <2>3. Agrees(vec[u], items[u], lapses[u])'
    BY <2>1, <2>2 DEF Agrees, Holds, Clean
  <2> QED
    BY <2>1, <2>2, <2>3
<1>2. items' \in [Vectors -> Seq(Items)] /\ lapses' \in [Vectors -> SUBSET Lapses]
  BY <1>1
<1>3. trivial' \in BOOLEAN
  BY DEF VecInv, VecTypeOK
<1> QED
  BY <1>1, <1>2, <1>3 DEF VecInv, VecTypeOK

\* A step that changes two vectors,
LEMMA TwoChange ==
    ASSUME VecInv, NEW v \in Vectors, NEW w \in Vectors, v # w,
           NEW s, NEW xs, NEW ls, Sound(s, xs, ls),
           NEW t, NEW ys, NEW ms, Sound(t, ys, ms),
           trivial' = trivial, vec' = [vec EXCEPT ![v] = s, ![w] = t],
           items' = [items EXCEPT ![v] = xs, ![w] = ys],
           lapses' = [lapses EXCEPT ![v] = ls, ![w] = ms]
    PROVE  VecInv'
<1>1. /\ vec = [u \in Vectors |-> vec[u]]
      /\ items \in [Vectors -> Seq(Items)] /\ lapses \in [Vectors -> SUBSET Lapses]
  BY DEF VecInv, VecTypeOK
<1>2. \A u \in Vectors : /\ vec'[u] = IF u = w THEN t ELSE IF u = v THEN s ELSE vec[u]
                         /\ items'[u] = IF u = w THEN ys ELSE IF u = v THEN xs ELSE items[u]
                         /\ lapses'[u] = IF u = w THEN ms ELSE IF u = v THEN ls ELSE lapses[u]
  BY <1>1
<1>3. ASSUME NEW u \in Vectors
      PROVE  \E r, zs, ks : Sound(r, zs, ks) /\ vec'[u] = r /\ items'[u] = zs /\ lapses'[u] = ks
  <2>1. Sound(vec[u], items[u], lapses[u])
    BY InvSound
  <2>2. CASE u = w
    BY <1>2, <2>2
  <2>3. CASE u # w /\ u = v
    <3>1. vec'[u] = s /\ items'[u] = xs /\ lapses'[u] = ls
      BY <1>2, <2>3
    <3> QED
      BY <3>1, Zenon
  <2>4. CASE u # w /\ u # v
    BY <1>2, <2>1, <2>4
  <2> QED
    BY <2>2, <2>3, <2>4
<1>4. vec' = [u \in Vectors |-> vec'[u]]
  BY <1>1
<1>5. items' = [u \in Vectors |-> items'[u]] /\ lapses' = [u \in Vectors |-> lapses'[u]]
  BY <1>1
<1> QED
  BY <1>3, <1>4, <1>5, SoundAfter, Zenon

\* or one,
LEMMA OneChanges ==
    ASSUME VecInv, NEW v \in Vectors, NEW s, NEW xs, NEW ls, Sound(s, xs, ls),
           trivial' = trivial, vec' = [vec EXCEPT ![v] = s],
           items' = [items EXCEPT ![v] = xs], lapses' = [lapses EXCEPT ![v] = ls]
    PROVE  VecInv'
<1>1. /\ vec = [u \in Vectors |-> vec[u]]
      /\ items \in [Vectors -> Seq(Items)] /\ lapses \in [Vectors -> SUBSET Lapses]
  BY DEF VecInv, VecTypeOK
<1>2. \A u \in Vectors : /\ vec'[u] = IF u = v THEN s ELSE vec[u]
                         /\ items'[u] = IF u = v THEN xs ELSE items[u]
                         /\ lapses'[u] = IF u = v THEN ls ELSE lapses[u]
  BY <1>1
<1>3. ASSUME NEW u \in Vectors
      PROVE  \E r, zs, ks : Sound(r, zs, ks) /\ vec'[u] = r /\ items'[u] = zs /\ lapses'[u] = ks
  <2>1. Sound(vec[u], items[u], lapses[u])
    BY InvSound
  <2>2. CASE u = v
    BY <1>2, <2>2
  <2>3. CASE u # v
    BY <1>2, <2>1, <2>3
  <2> QED
    BY <2>2, <2>3
<1>4. vec' = [u \in Vectors |-> vec'[u]]
  BY <1>1
<1>5. items' = [u \in Vectors |-> items'[u]] /\ lapses' = [u \in Vectors |-> lapses'[u]]
  BY <1>1
<1> QED
  BY <1>3, <1>4, <1>5, SoundAfter, Zenon

\* by an operation as the model states it.
LEMMA BecomesKeeps ==
    ASSUME VecInv, NEW v \in Vectors, NEW s, NEW xs, NEW ls, Becomes(v, s, xs, ls),
           Sound(s, xs, ls)
    PROVE  VecInv'
BY OneChanges DEF Becomes

\* The operations that edit a vector keep the invariant,
LEMMA EditKeeps ==
    ASSUME SmallVecAssumption, VecInv, Defined, NEW v \in Vectors, Edit(v)
    PROVE  VecInv'
<1> DEFINE s == vec[v]
           xs == items[v]
           ls == lapses[v]
<1>1. Sound(s, xs, ls) /\ ~s.fault
  BY InvSound DEF Defined
<1>2. IsObject(s)
  BY <1>1 DEF Sound
<1>3. s.size \in Nat /\ s.cap \in Nat /\ s.size <= s.cap
         /\ s.cells \in [0 .. s.cap - 1 -> Items \cup {Raw}]
  BY <1>2, ObjectParts
<1>5. ASSUME NEW x \in Items, PushBack(v, x) PROVE VecInv'
  <2>1. Sound(EmplaceBack(s, x), Append(xs, x), ls)
    BY <1>1, PushBackSound
  <2> QED
    BY <1>5, <2>1, BecomesKeeps DEF PushBack
<1>6. ASSUME NEW i \in 0 .. MaxSize, PushBackOwn(v, i) PROVE VecInv'
  <2> DEFINE x == s.cells[i]
             grows == s.size + 1 > s.cap
             t == [EmplaceBack(s, x) EXCEPT !.fault = @ \/ grows]
             more == ls \cup (IF grows THEN {"alias"} ELSE {})
  <2>1. x \in Items /\ Becomes(v, t, Append(xs, x), more)
    <3>1. i < s.size /\ x # Raw
      BY <1>6 DEF PushBackOwn
    <3>2. i \in 0 .. s.cap - 1
      BY <1>3, <3>1 DEF SmallVecAssumption
    <3>3. x \in Items
      BY <1>3, <3>1, <3>2
    <3>4. Becomes(v, t, Append(xs, x), more)
      BY <1>6, Zenon DEF PushBackOwn
    <3> QED
      BY <3>3, <3>4
  <2>2. grows \in BOOLEAN
    OBVIOUS
  <2> HIDE DEF x, grows
  <2>3. Sound(t, Append(xs, x), more)
    BY <1>1, <2>1, <2>2, PushBackOwnSound
  <2> QED
    BY <2>1, <2>3, BecomesKeeps
<1>7. ASSUME NEW index \in 0 .. MaxSize, NEW ws \in Lists, InsertElements(v, index, ws)
      PROVE VecInv'
  <2>1. ws \in Seq(Items) /\ index \in 0 .. s.size /\ index <= Len(xs)
    BY <1>3, <1>7 DEF InsertElements, SmallVecAssumption
  <2> DEFINE t == BuildAll(ShiftRight(s, index, Len(ws)), index, ws)
             ys == SubSeq(xs, 1, index) \o ws \o SubSeq(xs, index + 1, Len(xs))
             more == ls \cup (IF Len(ws) \in 1 .. s.size - index - 1 THEN {"shift"} ELSE {})
  <2>2. Sound(t, ys, more)
    BY <1>1, <2>1, InsertSound, Zenon
  <2>3. Becomes(v, t, ys, more)
    BY <1>7 DEF InsertElements
  <2> HIDE DEF t, ys, more
  <2> QED
    BY <2>2, <2>3, BecomesKeeps
<1>8. ASSUME NEW first \in 0 .. MaxSize, NEW count \in 1 .. MaxSize, Erase(v, first, count)
      PROVE VecInv'
  <2>1. first \in Nat /\ count \in Nat \ {0} /\ first + count <= s.size
           /\ first + count <= Len(xs)
    BY <1>8 DEF Erase, SmallVecAssumption
  <2> DEFINE after == s.size - first - count
             t == ShiftLeft(s, first + count, count)
             ys == SubSeq(xs, 1, first) \o SubSeq(xs, first + count + 1, Len(xs))
             more == ls \cup (IF after > count THEN {"shift"} ELSE {})
                        \cup (IF after < count THEN {"leak"} ELSE {})
  <2>2. Sound(t, ys, more)
    BY <1>1, <2>1, EraseSound, Zenon
  <2>3. Becomes(v, t, ys, more)
    BY <1>8 DEF Erase
  <2> HIDE DEF t, ys, more
  <2> QED
    BY <2>2, <2>3, BecomesKeeps
<1>9. ASSUME PopBack(v) PROVE VecInv'
  <2> DEFINE t == Destroy([s EXCEPT !.size = @ - 1], s.size - 1)
             ys == SubSeq(xs, 1, Len(xs) - 1)
  <2>1. s.size > 0 /\ Becomes(v, t, ys, ls)
    BY <1>9 DEF PopBack
  <2>2. Sound(t, ys, ls)
    BY <1>1, <2>1, PopBackSound, Zenon
  <2> HIDE DEF t, ys
  <2> QED
    BY <2>1, <2>2, BecomesKeeps
<1>10. ASSUME ClearAll(v) PROVE VecInv'
  <2>1. Sound(Clear(s), <<>>, Emptied(v))
    BY <1>1, ClearSound DEF Emptied, Cleared
  <2> QED
    BY <1>10, <2>1, BecomesKeeps DEF ClearAll
<1>11. ASSUME NEW n \in Capacities, ReserveMore(v, n) PROVE VecInv'
  <2>1. n \in Nat
    BY DEF SmallVecAssumption
  <2>2. Sound(Reserve(s, n), xs, ls)
    BY <1>1, <2>1, ReserveSound
  <2> QED
    BY <1>11, <2>2, BecomesKeeps DEF ReserveMore
<1> QED
  BY <1>5, <1>6, <1>7, <1>8, <1>9, <1>10, <1>11 DEF Edit

\* so does an assignment by move, which changes two vectors,
LEMMA MoveKeeps ==
    ASSUME SmallVecAssumption, VecInv, Defined, NEW v \in Vectors, NEW w \in Vectors,
              MoveAssign(v, w)
    PROVE  VecInv'
<1> DEFINE s == vec[v]
           src == vec[w]
           ls == Emptied(v) \cup lapses[w]
           husk == lapses[w] \cup (IF src.size > 0 THEN {"husk"} ELSE {})
           large == [src EXCEPT !.fault = Clear(s).fault]
           inner == [NewVector EXCEPT !.size = src.size,
                                      !.cells = [i \in 0 .. N - 1 |->
                                                    IF i < src.size THEN src.cells[i] ELSE Raw]]
           small == [inner EXCEPT !.fault = Clear(s).fault \/ HasHole(src)]
<1>1. Sound(s, items[v], lapses[v]) /\ ~s.fault
  BY InvSound DEF Defined
<1>2. Sound(src, items[w], lapses[w]) /\ ~src.fault
  BY InvSound DEF Defined
<1>3. v # w /\ trivial' = trivial /\ items' = [items EXCEPT ![v] = items[w], ![w] = <<>>]
  BY DEF MoveAssign
<1>4. CASE IsLarge(src)
  <2>1. Sound(large, items[w], ls) /\ Sound(NewVector, <<>>, {})
    BY <1>1, <1>2, MoveLargeSound, NewSound DEF Emptied, Cleared
  <2>2. vec' = [vec EXCEPT ![v] = large, ![w] = NewVector]
    BY <1>4, Zenon DEF MoveAssign
  <2>3. lapses' = [lapses EXCEPT ![v] = ls, ![w] = {}]
    BY <1>4, Zenon DEF MoveAssign
  <2> HIDE DEF large, ls
  <2> QED
    BY <1>3, <2>1, <2>2, <2>3, TwoChange
<1>5. CASE ~IsLarge(src)
  <2>1. Sound(small, items[w], ls)
    <3>1. Sound(small, items[w], Cleared(lapses[v]) \cup lapses[w])
      BY <1>1, <1>2, <1>5, MoveSmallSound, Zenon
    <3> QED
      BY <3>1 DEF Emptied, Cleared
  <2>2. Sound(DestroyAll(src), <<>>, husk)
    BY <1>2, HuskSound, Zenon
  <2>3. vec' = [vec EXCEPT ![v] = small, ![w] = DestroyAll(src)]
    BY <1>5, Zenon DEF MoveAssign
  <2>4. lapses' = [lapses EXCEPT ![v] = ls, ![w] = husk]
    <3>1. lapses' = [lapses EXCEPT ![v] = ls,
                                   ![w] = @ \cup (IF src.size > 0 THEN {"husk"} ELSE {})]
      BY <1>5, Zenon DEF MoveAssign
    <3> QED
      BY <1>3, <3>1
  <2> HIDE DEF small, ls, husk
  <2> QED
    BY <1>3, <2>1, <2>2, <2>3, <2>4, TwoChange
<1> QED
  BY <1>4, <1>5

\* so does every assignment and construction,
LEMMA ReplaceKeeps ==
    ASSUME SmallVecAssumption, VecInv, Defined, NEW v \in Vectors, Replace(v)
    PROVE  VecInv'
<1>1. ASSUME NEW w \in Vectors, CopyAssign(v, w) PROVE VecInv'
  <2> DEFINE s == vec[v]
             src == vec[w]
             e == EmplaceAll(Reserve(Clear(s), src.size),
                     [k \in 1 .. src.size |-> src.cells[k - 1]])
             t == [e EXCEPT !.fault = @ \/ HasHole(src)]
             more == Emptied(v) \cup (lapses[w] \cap {"husk"})
  <2>1. Sound(s, items[v], lapses[v]) /\ ~s.fault /\ Sound(src, items[w], lapses[w])
           /\ ~src.fault
    BY InvSound DEF Defined
  <2>2. Sound(t, items[w], more)
    <3>1. Sound(t, items[w], Cleared(lapses[v]) \cup (lapses[w] \cap {"husk"}))
      BY <2>1, CopySound, Zenon
    <3> QED
      BY <3>1 DEF Emptied, Cleared
  <2>3. Becomes(v, t, items[w], more)
    BY <1>1, Zenon DEF CopyAssign
  <2> HIDE DEF t, more
  <2> QED
    BY <2>2, <2>3, BecomesKeeps
<1>2. ASSUME NEW xs \in Lists, ConstructFrom(v, xs) PROVE VecInv'
  <2> DEFINE e == EmplaceAll(Reserve(NewVector, Len(xs)), xs)
             fault == Clear(vec[v]).fault
             t == [e EXCEPT !.fault = fault]
             ls == IF fault THEN lapses[v] ELSE {}
  <2>1. xs \in Seq(Items)
    BY DEF SmallVecAssumption
  <2>2. Sound(t, xs, ls)
    BY <2>1, InvSound, RebuiltSound, Zenon DEF Defined
  <2>3. /\ trivial' = trivial /\ vec' = [vec EXCEPT ![v] = t]
        /\ items' = [items EXCEPT ![v] = xs] /\ lapses' = [lapses EXCEPT ![v] = ls]
    BY <1>2, Zenon DEF ConstructFrom
  <2> HIDE DEF t, ls
  <2> QED
    BY <2>2, <2>3, OneChanges
<1> QED
  BY <1>1, <1>2, MoveKeeps DEF Replace

\* and so every step.
LEMMA VecStepInv == SmallVecAssumption /\ VecInv /\ [VecNext]_vecVars => VecInv'
<1> SUFFICES ASSUME SmallVecAssumption, VecInv, [VecNext]_vecVars PROVE VecInv'
  OBVIOUS
<1>1. CASE VecNext
  <2>1. Edited \subseteq Vectors
    BY DEF SmallVecAssumption
  <2> QED
    BY <1>1, <2>1, EditKeeps, ReplaceKeeps DEF VecNext
<1>2. CASE UNCHANGED vecVars
  BY <1>2 DEF vecVars, VecInv, VecTypeOK, Agrees, Holds, Clean
<1> QED
  BY <1>1, <1>2

\* The inductive invariant holds whatever operations follow one another, for
\* every capacity, any number of vectors and any elements.
THEOREM SmallVecInvariant == VecSpec => []VecInv
<1>1. SmallVecAssumption
  BY SmallVecAssumption
<1>2. VecInit => VecInv
  BY <1>1, VecInitInv
<1>3. VecInv /\ [VecNext]_vecVars => VecInv'
  BY <1>1, VecStepInv
<1> QED
  BY <1>2, <1>3, PTL DEF VecSpec

\* The invariant says that the contents are right,
LEMMA InvContents == SmallVecAssumption /\ VecInv => ContentsRight
<1> SUFFICES ASSUME SmallVecAssumption, VecInv, NEW v \in Vectors,
                    lapses[v] \subseteq (IF trivial THEN {"leak", "shift"} ELSE {"leak"})
             PROVE  /\ vec[v].size = Len(items[v])
                    /\ \A i \in 1 .. Len(items[v]) : vec[v].cells[i - 1] = items[v][i]
  BY DEF ContentsRight
<1>1. Agrees(vec[v], items[v], lapses[v]) /\ items[v] \in Seq(Items) /\ vec[v].size \in Nat
  BY InvSound, ObjectParts DEF Sound
<1>2. "alias" \notin lapses[v] /\ "husk" \notin lapses[v] /\ ("shift" \in lapses[v] => trivial)
  OBVIOUS
<1>3. Holds(vec[v], items[v])
  BY <1>1, <1>2, Zenon DEF Agrees
<1>4. ASSUME NEW i \in 1 .. Len(items[v]) PROVE vec[v].cells[i - 1] = items[v][i]
  <2>1. i - 1 \in 0 .. vec[v].size - 1 /\ i - 1 + 1 = i
    BY <1>1, <1>3 DEF Holds
  <2> QED
    BY <1>3, <2>1 DEF Holds
<1> QED
  BY <1>3, <1>4 DEF Holds

\* and that the lifetimes are.
LEMMA InvLifetimes == SmallVecAssumption /\ VecInv => LifetimesRight
<1> SUFFICES ASSUME SmallVecAssumption, VecInv, NEW v \in Vectors
             PROVE  /\ vec[v].fault =>
                           \/ "alias" \in lapses[v]
                           \/ ~trivial /\ lapses[v] \cap {"shift", "husk"} # {}
                    /\ ~trivial /\ lapses[v] \subseteq {"leak"} =>
                           0 .. vec[v].size - 1 \subseteq Living(vec[v])
                    /\ ~trivial /\ lapses[v] = {} =>
                           Living(vec[v]) = 0 .. vec[v].size - 1
  BY DEF LifetimesRight
<1>1. Sound(vec[v], items[v], lapses[v])
  BY InvSound
<1>2. Agrees(vec[v], items[v], lapses[v]) /\ IsObject(vec[v])
  BY <1>1 DEF Sound
<1>3. vec[v].fault => \/ "alias" \in lapses[v]
                      \/ ~trivial /\ ("shift" \in lapses[v] \/ "husk" \in lapses[v])
  BY <1>2, Zenon DEF Agrees
<1>4. /\ DOMAIN vec[v].cells = 0 .. vec[v].cap - 1 /\ vec[v].size \in Nat
      /\ vec[v].cap \in Nat /\ vec[v].size <= vec[v].cap
  BY <1>2, ObjectParts
<1>5. ASSUME ~trivial, lapses[v] \subseteq {"leak"}
      PROVE  Full(vec[v]) /\ (lapses[v] = {} => Clean(vec[v]))
  <2>1. ~vec[v].fault /\ "husk" \notin lapses[v]
    BY <1>3, <1>5
  <2> QED
    BY <1>1, <1>5, <2>1, BeforeStep
<1>6. Full(vec[v]) => 0 .. vec[v].size - 1 \subseteq Living(vec[v])
  BY <1>4 DEF Full, Living
<1>7. Full(vec[v]) /\ Clean(vec[v]) => Living(vec[v]) = 0 .. vec[v].size - 1
  BY <1>4 DEF Full, Clean, Living
<1>8. ~trivial /\ lapses[v] = {} => Living(vec[v]) = 0 .. vec[v].size - 1
  BY <1>5, <1>7
<1> QED
  BY <1>3, <1>5, <1>6, <1>8

\* Outside the lapses it names, a vector holds what its caller means it to hold,
\* in order, after any operations and changes of storage (SmallVec.hpp:165-347).
THEOREM SmallVecContents == VecSpec => []ContentsRight
<1>1. VecInv => ContentsRight
  BY SmallVecAssumption, InvContents
<1> QED
  BY <1>1, SmallVecInvariant, PTL

\* No element is destroyed twice or read after its destruction, by an operation
\* or by the destructor (SmallVec.hpp:74-79), unless an element of the vector was
\* pushed while it grew or, where destruction does something, too many elements
\* were shifted or the vector is a small one that was moved away; and without
\* these the elements m_size counts are alive, and without a leak no others.
THEOREM SmallVecLifetimes == VecSpec => []LifetimesRight
<1>1. VecInv => LifetimesRight
  BY SmallVecAssumption, InvLifetimes
<1> QED
  BY <1>1, SmallVecInvariant, PTL
=============================================================================
