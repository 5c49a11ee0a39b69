------------------------- MODULE JobQueries_proofs -------------------------
(***************************************************************************)
(* A reader who follows the pages of query_jobs: proofs that nothing is    *)
(* shown twice, that nothing that stays is passed over, and that what was  *)
(* shown is found for good, for every value of the constants.              *)
(*                                                                         *)
(* A page is the top of the keys below the cursor, so the jobs shown are   *)
(* at or above the cursor, and those that stay and are not shown yet are   *)
(* below it.  The handlers never take a job below it: the storage that is  *)
(* published only advances (WarpController_proofs), and with it the keys.  *)
(***************************************************************************)
EXTENDS JobQueries, WarpController_proofs, SetTheorems

-----------------------------------------------------------------------------
(* The order of keys *)

Keys == Nat \X Nat

LEMMA KeyOrder ==
  /\ \A k \in Keys : ~Below(k, k)
  /\ \A k, l, m \in Keys : Below(k, l) /\ Below(l, m) => Below(k, m)
  /\ \A k, l \in Keys : k # l => Below(k, l) \/ Below(l, k)
  <1>1. \A k \in Keys : k[1] \in Nat /\ k[2] \in Nat /\ k = <<k[1], k[2]>>
    BY DEF Keys
  <1>. QED
    BY <1>1 DEF Below

\* ids is a finite set of jobs of store with rewards.
Keyed(store, ids) ==
  /\ IsFiniteSet(ids) /\ ids \subseteq Nat
  /\ \A id \in ids : store[id].reward \in Nat

LEMMA KeysOf ==
  ASSUME NEW store, NEW ids, Keyed(store, ids)
  PROVE  /\ \A id \in ids : Key(store, id) \in Keys
         /\ \A i, j \in ids : Key(store, i) = Key(store, j) => i = j
  BY DEF Key, Keys, Keyed

\* One of them has the lowest key.
LEMMA LowestKey ==
  ASSUME NEW store, NEW ids, Keyed(store, ids), ids # {}
  PROVE  \E low \in ids : \A id \in ids : id # low => Below(Key(store, low), Key(store, id))
  <1>. DEFINE Under(k) == {j \in ids : Below(Key(store, j), Key(store, k))}
  <1>1. PICK C : C = {Under(k) : k \in ids}
    OBVIOUS
  <1>2. (\A U \in C : U \subseteq ids) /\ C # {}
    BY <1>1
  <1>3. PICK T \in C : \A U \in C : U \subseteq T => U = T
    BY <1>2, MinimalOf DEF Keyed
  <1>4. PICK low \in ids : T = Under(low)
    BY <1>1, <1>3
  <1>5. \A id \in ids : Key(store, id) \in Keys
    BY KeysOf
  <1>6. ASSUME NEW j \in ids, Below(Key(store, j), Key(store, low))
        PROVE  FALSE
    <2>1. Under(j) \in C /\ j \in T
      BY <1>1, <1>4, <1>6
    <2>2. Under(j) \subseteq T
      BY <1>4, <1>5, <1>6, KeyOrder
    <2>3. j \notin Under(j)
      BY <1>5, KeyOrder
    <2>. HIDE DEF Under
    <2>. QED
      BY <1>3, <2>1, <2>2, <2>3
  <1>7. \A id \in ids : id # low => Below(Key(store, low), Key(store, id))
    BY <1>5, <1>6, KeysOf, KeyOrder
  <1>. QED
    BY <1>7

-----------------------------------------------------------------------------
(* Pages *)

Sorts(entries, store, ids) ==
  /\ entries \in Bijection(1..Cardinality(ids), ids)
  /\ \A i, j \in 1..Cardinality(ids) :
       i < j => Below(Key(store, entries[j]), Key(store, entries[i]))

\* With the lowest last.
LEMMA SortsMore ==
  ASSUME NEW store, NEW ids, Keyed(store, ids), NEW low \in ids,
         \A id \in ids : id # low => Below(Key(store, low), Key(store, id)),
         NEW f, Sorts(f, store, ids \ {low})
  PROVE  \E g : Sorts(g, store, ids)
  <1>1. PICK c \in Nat : c = Cardinality(ids \ {low}) /\ Cardinality(ids) = c + 1
    <2>1. IsFiniteSet(ids) /\ IsFiniteSet(ids \ {low})
      BY FS_RemoveElement DEF Keyed
    <2>2. Cardinality(ids \ {low}) = Cardinality(ids) - 1
      BY <2>1, FS_RemoveElement
    <2>. QED
      BY <2>1, <2>2, FS_CardinalityType
  <1>2. /\ f \in [1..c -> ids \ {low}]
        /\ \A a, b \in 1..c : f[a] = f[b] => a = b
        /\ \A t \in ids \ {low} : \E s \in 1..c : f[s] = t
        /\ \A i, j \in 1..c : i < j => Below(Key(store, f[j]), Key(store, f[i]))
    BY <1>1 DEF Sorts, Bijection, Injection, Surjection, IsInjective
  <1>3. PICK g : g = [i \in 1..(c + 1) |-> IF i = c + 1 THEN low ELSE f[i]]
    OBVIOUS
  <1>4. /\ g[c + 1] = low /\ \A i \in 1..c : i # c + 1 /\ i \in 1..(c + 1) /\ g[i] = f[i]
        /\ \A i \in 1..(c + 1) : i = c + 1 \/ i \in 1..c
        /\ c + 1 \in 1..(c + 1)
    BY <1>3
  <1>5. g \in [1..(c + 1) -> ids]
    BY <1>2, <1>3, <1>4
  <1>6. \A a, b \in 1..(c + 1) : g[a] = g[b] => a = b
    BY <1>2, <1>4
  <1>7. \A t \in ids : \E s \in 1..(c + 1) : g[s] = t
    BY <1>2, <1>4
  <1>8. \A i, j \in 1..(c + 1) : i < j => Below(Key(store, g[j]), Key(store, g[i]))
    <2>1. ASSUME NEW i \in 1..(c + 1), NEW j \in 1..(c + 1), i < j
          PROVE  Below(Key(store, g[j]), Key(store, g[i]))
      <3>1. i \in 1..c
        BY <2>1
      <3>2. CASE j = c + 1
        BY <1>2, <1>4, <3>1, <3>2
      <3>3. CASE j \in 1..c
        BY <1>2, <1>4, <2>1, <3>1, <3>3
      <3>. QED
        BY <1>4, <3>2, <3>3
    <2>. QED
      BY <2>1
  <1>9. Sorts(g, store, ids)
    BY <1>1, <1>5, <1>6, <1>7, <1>8 DEF Sorts, Bijection, Injection, Surjection, IsInjective
  <1>. QED
    BY <1>9

\* So there is an order of them all.
LEMMA SortExists ==
  ASSUME NEW store, NEW ids, Keyed(store, ids)
  PROVE  Sorts(Descending(store, ids), store, ids)
  <1>. DEFINE bad == {U \in SUBSET ids : ~ \E f : Sorts(f, store, U)}
  <1>1. ASSUME bad # {}
        PROVE  FALSE
    <2>1. PICK T \in bad : \A U \in bad : U \subseteq T => U = T
      <3>1. \A U \in bad : U \subseteq ids
        OBVIOUS
      <3>. HIDE DEF bad
      <3>. QED
        BY <1>1, <3>1, MinimalOf DEF Keyed
    <2>2. T \subseteq ids /\ ~ \E f : Sorts(f, store, T)
      BY <2>1
    <2>3. Keyed(store, T)
      BY <2>2, FS_Subset DEF Keyed
    <2>4. CASE T = {}
      <3>1. PICK f : f = [i \in 1..0 |-> i]
        OBVIOUS
      <3>2. Cardinality(T) = 0
        BY <2>4, FS_EmptySet
      <3>3. Sorts(f, store, T)
        BY <2>4, <3>1, <3>2 DEF Sorts, Bijection, Injection, Surjection, IsInjective
      <3>. QED
        BY <2>2, <3>3
    <2>5. CASE T # {}
      <3>1. PICK low \in T : \A id \in T : id # low => Below(Key(store, low), Key(store, id))
        BY <2>3, <2>5, LowestKey
      <3>2. T \ {low} \in SUBSET ids /\ T \ {low} \subseteq T /\ T \ {low} # T
        BY <2>2
      <3>3. PICK f : Sorts(f, store, T \ {low})
        BY <2>1, <3>2
      <3>. QED
        BY <2>2, <2>3, <3>1, <3>3, SortsMore
    <2>. QED
      BY <2>4, <2>5
  <1>2. \E f : Sorts(f, store, ids)
    BY <1>1
  <1>. QED
    BY <1>2, Zenon DEF Sorts, Descending

\* A page is the top of what it is taken of: one that is not full has all of
\* it, and what is left is below the last entry of one that is.
LEMMA PageOfIds ==
  ASSUME NEW store, NEW ids, Keyed(store, ids), NEW n \in Nat,
         NEW page, page = Take(Descending(store, ids), n)
  PROVE  /\ page \in Seq(ids)
         /\ \A i, j \in 1..Len(page) :
              i < j => Below(Key(store, page[j]), Key(store, page[i]))
         /\ Len(page) < n => \A id \in ids : \E i \in 1..Len(page) : page[i] = id
         /\ \A id \in ids : \/ \E i \in 1..Len(page) : page[i] = id
                            \/ \A i \in 1..Len(page) : Below(Key(store, id), Key(store, page[i]))
  <1>1. PICK c \in Nat : c = Cardinality(ids)
    BY FS_CardinalityType DEF Keyed
  <1>2. PICK list : list = Descending(store, ids)
    OBVIOUS
  <1>3. /\ list \in [1..c -> ids]
        /\ \A t \in ids : \E s \in 1..c : list[s] = t
        /\ \A i, j \in 1..c : i < j => Below(Key(store, list[j]), Key(store, list[i]))
    BY <1>1, <1>2, SortExists DEF Sorts, Bijection, Injection, Surjection
  <1>4. list \in Seq(ids) /\ Len(list) = c
    BY <1>3, SeqDef
  <1>5. PICK p \in 0..c : p = IF n < c THEN n ELSE c
    OBVIOUS
  <1>6. page = SubSeq(list, 1, p)
    BY <1>2, <1>4, <1>5 DEF Take
  <1>7. page \in Seq(ids) /\ Len(page) = p /\ \A i \in 1..p : page[i] = list[i]
    BY <1>4, <1>6, SubSeqProperties
  <1>8. ASSUME NEW id \in ids, NEW s \in 1..c, list[s] = id, ~ (s \in 1..p), NEW i \in 1..p
        PROVE  Below(Key(store, id), Key(store, page[i]))
    <2>1. i < s /\ i \in 1..c
      BY <1>8
    <2>. QED
      BY <1>3, <1>7, <1>8, <2>1
  <1>9. \A i \in 1..p : i \in 1..c
    OBVIOUS
  <1>10. Len(page) < n => p = c
    BY <1>5, <1>7
  <1>. QED
    BY <1>3, <1>7, <1>8, <1>9, <1>10

-----------------------------------------------------------------------------
(* The reader *)

Entry == [id : JobIds, reward : Nat]

KeyOf(e) == <<e.reward, e.id>>

\* The job that was shown as e is in s, with no lower reward.
Covered(e, s) ==
  \/ e.id \in DOMAIN s.pending /\ s.pending[e.id].reward >= e.reward
  \/ e.id \in DOMAIN s.finished /\ s.finished[e.id].reward >= e.reward

ReaderOK(r) ==
  /\ r = [query |-> r.query, limit |-> r.limit, start_after |-> r.start_after,
          shown |-> r.shown, steady |-> r.steady, done |-> r.done]
  /\ r.query \in Queries /\ r.limit \in Limits
  /\ r.start_after = {} \/ \E k \in Keys : r.start_after = {k}
  /\ r.shown \in Seq(Entry)
  /\ r.done \in BOOLEAN

\* What was shown is at or above the cursor.
ShownOK(r, s) ==
  /\ \A i \in 1..Len(r.shown) : Covered(r.shown[i], s)
  /\ \A i, j \in 1..Len(r.shown) : r.shown[i].id = r.shown[j].id => i = j
  /\ r.start_after = {} => Len(r.shown) = 0
  /\ \A i \in 1..Len(r.shown), k \in r.start_after : ~Below(KeyOf(r.shown[i]), k)

\* What stays is shown, or below the cursor of a reader who goes on.
SteadyOK(r, s) ==
  \A m \in r.steady :
    /\ m \in Matching(r.query, s)
    /\ \/ \E i \in 1..Len(r.shown) : r.shown[i] = m
       \/ ~r.done /\ \A k \in r.start_after : Below(KeyOf(m), k)

ReaderInv ==
  \/ reading = Idle
  \/ /\ ReaderOK(reading)
     /\ ShownOK(reading, Committed)
     /\ SteadyOK(reading, Committed)

LEMMA NotIdle ==
  \A query, limit, start_after, shown, steady, done :
    [query |-> query, limit |-> limit, start_after |-> start_after,
     shown |-> shown, steady |-> steady, done |-> done] # Idle
  BY DEF Idle

LEMMA KeysOfEntries == \A e \in Entry : KeyOf(e) \in Keys /\ KeyOf(e) = <<e.reward, e.id>>
  BY DEF Entry, KeyOf, Keys, JobIds

\* The jobs of a storage, under either status.
LEMMA JobsOf ==
  ASSUME NEW s, StorageInv(s), NEW query
  PROVE  /\ IsFiniteSet(DOMAIN StoreIn(query, s)) /\ DOMAIN StoreIn(query, s) \subseteq JobIds
         /\ \A id \in DOMAIN StoreIn(query, s) : StoreIn(query, s)[id].reward \in Nat
  <1>1. StoreIn(query, s) = s.pending \/ StoreIn(query, s) = s.finished
    BY DEF StoreIn
  <1>2. /\ \A id \in DOMAIN s.pending : id \in JobIds /\ s.pending[id].reward \in Nat
        /\ \A id \in DOMAIN s.finished : id \in JobIds /\ s.finished[id].reward \in Nat
    BY StoredTypes
  <1>3. IsFiniteSet(JobIds)
    BY BoundAssumption, FS_Interval DEF JobIds
  <1>4. DOMAIN StoreIn(query, s) \subseteq JobIds
    BY <1>1, <1>2
  <1>. QED
    BY <1>1, <1>2, <1>3, <1>4, FS_Subset

\* What matches is an entry with the reward the store has.
LEMMA MatchingEntries ==
  ASSUME NEW s, StorageInv(s), NEW query
  PROVE  \A m \in Matching(query, s) :
           /\ m \in Entry /\ m.id \in DOMAIN StoreIn(query, s)
           /\ m.reward = StoreIn(query, s)[m.id].reward
           /\ m = [id |-> m.id, reward |-> m.reward]
           /\ ResolveFilters(StoreIn(query, s)[m.id], query)
  <1>1. PICK store : store = StoreIn(query, s)
    OBVIOUS
  <1>2. ASSUME NEW m \in Matching(query, s)
        PROVE  \E id \in DOMAIN store : /\ m = [id |-> id, reward |-> store[id].reward]
                                        /\ ResolveFilters(store[id], query)
    BY <1>1, <1>2 DEF Matching
  <1>3. \A id \in DOMAIN store : id \in JobIds /\ store[id].reward \in Nat
    BY <1>1, JobsOf
  <1>. QED
    BY <1>1, <1>2, <1>3 DEF Entry

\* A job that was shown is not lost and its reward not lowered.
LEMMA CoveredAdvances ==
  ASSUME NEW s, NEW t, StorageInv(s), StorageInv(t), Advances(s, t),
         NEW e \in Entry, Covered(e, s)
  PROVE  Covered(e, t)
  <1>1. /\ \A id \in DOMAIN s.pending : s.pending[id].reward \in Nat
        /\ \A id \in DOMAIN s.finished : s.finished[id].reward \in Nat
        /\ \A id \in DOMAIN t.pending : t.pending[id].reward \in Nat
        /\ \A id \in DOMAIN t.finished : t.finished[id].reward \in Nat
        /\ e.reward \in Nat
    BY StoredTypes DEF Entry
  <1>2. CASE e.id \in DOMAIN s.pending /\ s.pending[e.id].reward >= e.reward
    BY <1>1, <1>2 DEF Covered, Advances
  <1>3. CASE e.id \in DOMAIN s.finished /\ s.finished[e.id].reward >= e.reward
    BY <1>1, <1>3 DEF Covered, Advances
  <1>. QED
    BY <1>2, <1>3 DEF Covered

\* A step of the handlers.
LEMMA WatchKeeps ==
  ASSUME IInv, IInv', LifeInv, LifeInv', ReaderInv, [Next]_vars, Watch
  PROVE  ReaderInv'
  <1>1. /\ StorageInv(Committed) /\ StorageInv(Committed') /\ Advances(Committed, Committed')
    <2>1. StorageInv(Committed)
      BY CommittedGood
    <2>2. StorageInv(Committed)'
      BY CommittedGood, PTL
    <2>. QED
      BY <2>1, <2>2, NextLife
  <1>2. CASE reading = Idle
    BY <1>2 DEF Watch, ReaderInv
  <1>3. CASE reading # Idle
    <2>1. /\ ReaderOK(reading) /\ ShownOK(reading, Committed) /\ SteadyOK(reading, Committed)
      BY <1>3 DEF ReaderInv
    <2>2. PICK r : r = reading'
      OBVIOUS
    <2>3. PICK matching : matching = Matching(reading.query, Committed')
      OBVIOUS
    <2>4. r = [reading EXCEPT !.steady = reading.steady \cap matching]
      BY <1>3, <2>2, <2>3 DEF Watch
    <2>5. /\ r.query = reading.query /\ r.limit = reading.limit /\ r.shown = reading.shown
          /\ r.start_after = reading.start_after /\ r.done = reading.done
          /\ r.steady = reading.steady \cap matching
          /\ r = [query |-> r.query, limit |-> r.limit, start_after |-> r.start_after,
                  shown |-> r.shown, steady |-> r.steady, done |-> r.done]
      BY <2>1, <2>4 DEF ReaderOK
    <2>6. ReaderOK(r)
      BY <2>1, <2>5 DEF ReaderOK
    <2>7. ShownOK(r, Committed')
      <3>1. \A i \in 1..Len(r.shown) : r.shown[i] \in Entry /\ Covered(r.shown[i], Committed)
        BY <2>1, <2>5 DEF ReaderOK, ShownOK
      <3>2. \A i \in 1..Len(r.shown) : Covered(r.shown[i], Committed')
        BY <1>1, <3>1, CoveredAdvances
      <3>. QED
        BY <2>1, <2>5, <3>2 DEF ShownOK
    <2>8. SteadyOK(r, Committed')
      BY <2>1, <2>3, <2>5 DEF SteadyOK
    <2>. QED
      BY <2>2, <2>6, <2>7, <2>8 DEF ReaderInv
  <1>. QED
    BY <1>2, <1>3

\* A reader begins with nothing shown.
LEMMA StartKeeps ==
  ASSUME IInv, LifeInv, UNCHANGED vars, NEW query \in Queries, NEW limit \in Limits,
         StartReading(query, limit)
  PROVE  ReaderInv'
  <1>1. Committed' = Committed
    BY DEF vars, Committed, Storage
  <1>2. PICK r : r = reading'
    OBVIOUS
  <1>3. r = [query |-> query, limit |-> limit, start_after |-> {}, shown |-> <<>>,
             steady |-> Matching(query, Committed), done |-> FALSE]
    BY <1>2 DEF StartReading
  <1>4. /\ r.query = query /\ r.limit = limit /\ r.start_after = {} /\ r.shown = <<>>
        /\ r.steady = Matching(query, Committed) /\ r.done = FALSE
    BY <1>3
  <1>5. Len(r.shown) = 0 /\ r.shown \in Seq(Entry)
    BY <1>4
  <1>6. ReaderOK(r)
    BY <1>3, <1>4, <1>5 DEF ReaderOK
  <1>7. ShownOK(r, Committed)
    BY <1>4, <1>5 DEF ShownOK
  <1>8. SteadyOK(r, Committed)
    BY <1>4 DEF SteadyOK
  <1>. QED
    BY <1>1, <1>2, <1>6, <1>7, <1>8 DEF ReaderInv

-----------------------------------------------------------------------------
(* One more page *)

\* What a page of reader r adds when the chain holds storage s.
NewEntries(r, s, ext) ==
  /\ ext \in Seq(Entry)
  /\ \A i, j \in 1..Len(ext) : i < j => Below(KeyOf(ext[j]), KeyOf(ext[i]))
  /\ \A i \in 1..Len(ext) :
       /\ ext[i].id \in DOMAIN StoreIn(r.query, s)
       /\ ext[i].reward = StoreIn(r.query, s)[ext[i].id].reward
       /\ \A k \in r.start_after : Below(KeyOf(ext[i]), k)
  /\ \A m \in Matching(r.query, s) :
       (\A k \in r.start_after : Below(KeyOf(m), k)) =>
         \/ \E i \in 1..Len(ext) : ext[i] = m
         \/ /\ ~(Len(ext) < PageSize(r.limit))
            /\ \A i \in 1..Len(ext) : Below(KeyOf(m), KeyOf(ext[i]))

\* The reader after it.
Onward(r, ext) ==
  [query |-> r.query, limit |-> r.limit,
   start_after |-> IF Len(ext) = 0 THEN r.start_after ELSE {KeyOf(ext[Len(ext)])},
   shown |-> r.shown \o ext, steady |-> r.steady, done |-> Len(ext) < PageSize(r.limit)]

LEMMA PageSizeType ==
  ASSUME NEW limit \in Limits
  PROVE  PageSize(limit) \in Nat \ {0}
  <1>1. CASE limit = {}
    BY <1>1, QueryAssumption DEF PageSize
  <1>2. CASE limit # {}
    <2>1. limit \subseteq Nat \ {0}
      BY QueryAssumption
    <2>2. (CHOOSE n \in limit : TRUE) \in limit
      BY <1>2
    <2>. QED
      BY <1>2, <2>1, <2>2 DEF PageSize
  <1>. QED
    BY <1>1, <1>2

LEMMA PageRead ==
  ASSUME IInv, reading # Idle, ReaderOK(reading), ReadPage
  PROVE  \E ext : NewEntries(reading, Storage, ext) /\ reading' = Onward(reading, ext)
  <1>. DEFINE r == reading
              store == Store(r.query)
              n == PageSize(r.limit)
              found == {id \in InRange(store, r.start_after) :
                          ResolveFilters(store[id], r.query)}
  <1>1. /\ r.query.ids = {} /\ n \in Nat \ {0}
        /\ r = [query |-> r.query, limit |-> r.limit, start_after |-> r.start_after,
                shown |-> r.shown, steady |-> r.steady, done |-> r.done]
    BY PageSizeType, QueryAssumption DEF ReaderOK
  <1>2. PICK page \in QueryJobs(r.query, r.start_after, r.limit) :
          r' = [r EXCEPT
            !.shown = @ \o [i \in DOMAIN page |-> [id |-> page[i],
                                                    reward |-> store[page[i]].reward]],
            !.start_after = IF page = <<>> THEN @ ELSE {Key(store, page[Len(page)])},
            !.done = Len(page) < n]
    BY Zenon DEF ReadPage
  <1>3. PICK list : list = Descending(store, found)
    OBVIOUS
  <1>4. page = Take(list, n)
    BY <1>1, <1>2, <1>3 DEF QueryJobs, QueryJobsByReward
  <1>5. /\ store = StoreIn(r.query, Storage)
        /\ IsFiniteSet(DOMAIN store) /\ DOMAIN store \subseteq JobIds
        /\ \A id \in DOMAIN store : store[id].reward \in Nat
    BY JobsOf DEF IInv, Store
  <1>6. \A id \in found : /\ id \in DOMAIN store /\ ResolveFilters(store[id], r.query)
                          /\ \A k \in r.start_after : Below(Key(store, id), k)
    BY DEF InRange
  <1>7. \A id \in DOMAIN store :
          /\ ResolveFilters(store[id], r.query)
          /\ \A k \in r.start_after : Below(Key(store, id), k)
          => id \in found
    BY DEF InRange
  <1>8. r' = reading'
    OBVIOUS
  <1>. HIDE DEF r, store, n, found
  <1>9. Keyed(store, found)
    <2>1. found \subseteq DOMAIN store
      BY <1>6
    <2>2. JobIds \subseteq Nat
      BY DEF JobIds
    <2>. QED
      BY <1>5, <2>1, <2>2, FS_Subset DEF Keyed
  <1>10. PICK c \in Nat :
         /\ Len(page) = c /\ DOMAIN page = 1..c /\ page \in Seq(found)
         /\ \A i \in 1..c : page[i] \in found
         /\ \A i, j \in 1..c : i < j => Below(Key(store, page[j]), Key(store, page[i]))
         /\ c < n => \A id \in found : \E i \in 1..c : page[i] = id
         /\ \A id \in found :
              \/ \E i \in 1..c : page[i] = id
              \/ \A i \in 1..c : Below(Key(store, id), Key(store, page[i]))
    <2>1. /\ page \in Seq(found)
          /\ \A i, j \in 1..Len(page) :
               i < j => Below(Key(store, page[j]), Key(store, page[i]))
          /\ Len(page) < n => \A id \in found : \E i \in 1..Len(page) : page[i] = id
          /\ \A id \in found :
               \/ \E i \in 1..Len(page) : page[i] = id
               \/ \A i \in 1..Len(page) : Below(Key(store, id), Key(store, page[i]))
      BY <1>1, <1>3, <1>4, <1>9, PageOfIds
    <2>2. /\ Len(page) \in Nat /\ DOMAIN page = 1..Len(page)
          /\ \A i \in 1..Len(page) : page[i] \in found
      BY <2>1
    <2>. QED
      BY <2>1, <2>2
  <1>11. PICK ext : ext = [i \in DOMAIN page |-> [id |-> page[i],
                                                  reward |-> store[page[i]].reward]]
    OBVIOUS
  <1>12. /\ ext \in Seq(Entry) /\ Len(ext) = c
         /\ \A i \in 1..c : /\ ext[i] = [id |-> page[i], reward |-> store[page[i]].reward]
                            /\ ext[i].id = page[i] /\ ext[i].reward = store[page[i]].reward
                            /\ KeyOf(ext[i]) = Key(store, page[i])
    <2>1. \A i \in 1..c : /\ ext[i] = [id |-> page[i], reward |-> store[page[i]].reward]
                          /\ ext[i] \in Entry
      BY <1>5, <1>6, <1>10, <1>11 DEF Entry
    <2>2. ext \in [1..c -> Entry]
      BY <1>10, <1>11, <2>1
    <2>3. ext \in Seq(Entry) /\ Len(ext) = c
      BY <1>10, <2>2, SeqDef
    <2>. QED
      BY <2>1, <2>3 DEF KeyOf, Key
  <1>13. \A m \in Matching(r.query, Storage) :
           /\ m.id \in DOMAIN store /\ ResolveFilters(store[m.id], r.query)
           /\ KeyOf(m) = Key(store, m.id) /\ m = [id |-> m.id, reward |-> store[m.id].reward]
    BY <1>5, MatchingEntries DEF IInv, KeyOf, Key
  <1>14. ASSUME NEW m \in Matching(r.query, Storage), \A k \in r.start_after : Below(KeyOf(m), k)
         PROVE  \/ \E i \in 1..c : ext[i] = m
                \/ ~(c < n) /\ \A i \in 1..c : Below(KeyOf(m), KeyOf(ext[i]))
    <2>1. m.id \in found
      BY <1>7, <1>13, <1>14
    <2>2. CASE \E i \in 1..c : page[i] = m.id
      BY <1>12, <1>13, <2>2
    <2>3. CASE ~ \E i \in 1..c : page[i] = m.id
      <3>1. ~(c < n) /\ \A i \in 1..c : Below(Key(store, m.id), Key(store, page[i]))
        BY <1>10, <2>1, <2>3
      <3>. QED
        BY <1>12, <1>13, <3>1
    <2>. QED
      BY <2>2, <2>3
  <1>15. NewEntries(r, Storage, ext)
    <2>1. \A i, j \in 1..c : i < j => Below(KeyOf(ext[j]), KeyOf(ext[i]))
      BY <1>10, <1>12
    <2>2. \A i \in 1..c :
            /\ ext[i].id \in DOMAIN store
            /\ ext[i].reward = store[ext[i].id].reward
            /\ \A k \in r.start_after : Below(KeyOf(ext[i]), k)
      BY <1>6, <1>10, <1>12
    <2>3. n = PageSize(r.limit)
      BY DEF n
    <2>. QED
      BY <1>5, <1>12, <1>14, <2>1, <2>2, <2>3 DEF NewEntries
  <1>16. reading' = Onward(r, ext)
    <2>1. (page = <<>>) <=> (c = 0)
      BY <1>10, EmptySeq
    <2>2. PICK after : after = IF page = <<>> THEN r.start_after
                               ELSE {Key(store, page[Len(page)])}
      OBVIOUS
    <2>3. after = IF c = 0 THEN r.start_after ELSE {KeyOf(ext[c])}
      <3>1. CASE c = 0
        BY <2>1, <2>2, <3>1
      <3>2. CASE c # 0
        <4>1. c \in 1..c /\ Len(page) = c
          BY <1>10, <3>2
        <4>2. KeyOf(ext[c]) = Key(store, page[Len(page)])
          BY <1>12, <4>1
        <4>3. after = {Key(store, page[Len(page)])}
          BY <2>1, <2>2, <3>2
        <4>. QED
          BY <3>2, <4>2, <4>3
      <3>. QED
        BY <3>1, <3>2
    <2>4. reading' = [r EXCEPT !.shown = r.shown \o ext, !.start_after = after, !.done = c < n]
      BY <1>2, <1>8, <1>10, <1>11, <2>2
    <2>5. n = PageSize(r.limit)
      BY DEF n
    <2>. QED
      BY <1>1, <1>12, <2>3, <2>4, <2>5 DEF Onward
  <1>17. r = reading
    BY DEF r
  <1>. QED
    BY <1>15, <1>16, <1>17

\* No job at or above the cursor is on the page, so none is shown twice; and
\* what stays and is not on it comes below it.
LEMMA ReadKeeps ==
  ASSUME IInv, LifeInv, ReaderInv, UNCHANGED vars, ReadPage
  PROVE  ReaderInv'
  <1>1. stack = <<>> /\ Committed = Storage /\ Committed' = Storage
    BY DEF ReadPage, vars, Committed, Storage
  <1>2. StorageInv(Storage)
    BY DEF IInv
  <1>3. reading # Idle
    <2>1. ~reading.done
      BY Zenon DEF ReadPage
    <2>2. Idle.done
      BY DEF Idle
    <2>. QED
      BY <2>1, <2>2
  <1>4. PICK r : r = reading
    OBVIOUS
  <1>5. ReaderOK(r) /\ ShownOK(r, Storage) /\ SteadyOK(r, Storage)
    BY <1>1, <1>3, <1>4 DEF ReaderInv
  <1>6. PICK ext : NewEntries(r, Storage, ext) /\ reading' = Onward(r, ext)
    BY <1>3, <1>4, <1>5, PageRead
  <1>7. PICK n \in Nat : n = PageSize(r.limit)
    BY <1>5, PageSizeType DEF ReaderOK
  <1>8. PICK a \in Nat : a = Len(r.shown)
    BY <1>5 DEF ReaderOK
  <1>9. PICK c \in Nat : c = Len(ext)
    BY <1>6 DEF NewEntries
  <1>10. PICK t : t = Onward(r, ext)
    OBVIOUS
  <1>11. PICK cursor : cursor = IF c = 0 THEN r.start_after ELSE {KeyOf(ext[c])}
    OBVIOUS
  <1>12. /\ t.query = r.query /\ t.limit = r.limit /\ t.start_after = cursor
         /\ t.shown = r.shown \o ext /\ t.steady = r.steady /\ t.done = (c < n)
         /\ t = [query |-> t.query, limit |-> t.limit, start_after |-> t.start_after,
                 shown |-> t.shown, steady |-> t.steady, done |-> t.done]
    BY <1>7, <1>9, <1>10, <1>11 DEF Onward
  <1>13. /\ r.shown \in Seq(Entry) /\ ext \in Seq(Entry)
         /\ \A i \in 1..a : r.shown[i] \in Entry /\ KeyOf(r.shown[i]) \in Keys
         /\ \A i \in 1..c : ext[i] \in Entry /\ KeyOf(ext[i]) \in Keys
         /\ \A k \in r.start_after : k \in Keys
    BY <1>5, <1>6, <1>8, <1>9, KeysOfEntries DEF ReaderOK, NewEntries
  <1>14. /\ t.shown \in Seq(Entry) /\ Len(t.shown) = a + c
         /\ \A i \in 1..a : i \in 1..(a + c) /\ t.shown[i] = r.shown[i]
         /\ \A i \in 1..c : a + i \in 1..(a + c) /\ t.shown[a + i] = ext[i]
         /\ \A i \in 1..(a + c) : i \in 1..a \/ \E j \in 1..c : i = a + j
    <2>1. \A i \in 1..(a + c) : i \in 1..a \/ (i - a \in 1..c /\ i = a + (i - a))
      OBVIOUS
    <2>2. \A i \in 1..c : a + i \in 1..(a + c) /\ a + i > a /\ (a + i) - a = i
      OBVIOUS
    <2>3. \A i \in 1..a : i \in 1..(a + c) /\ i <= a
      OBVIOUS
    <2>4. /\ t.shown \in Seq(Entry) /\ Len(t.shown) = a + c
          /\ \A i \in 1..(a + c) :
               t.shown[i] = IF i <= a THEN r.shown[i] ELSE ext[i - a]
      BY <1>8, <1>9, <1>12, <1>13, ConcatProperties
    <2>. QED
      BY <2>1, <2>2, <2>3, <2>4
  <1>15. \A k \in cursor : k \in Keys /\ \A l \in r.start_after : ~Below(l, k)
    <2>1. CASE c = 0
      BY <1>5, <1>11, <1>13, <2>1, KeyOrder DEF ReaderOK
    <2>2. CASE c # 0
      <3>1. c \in 1..c /\ cursor = {KeyOf(ext[c])}
        BY <1>11, <2>2
      <3>2. \A l \in r.start_after : Below(KeyOf(ext[c]), l)
        BY <1>6, <1>9, <3>1 DEF NewEntries
      <3>. QED
        BY <1>13, <3>1, <3>2, KeyOrder
    <2>. QED
      BY <2>1, <2>2
  <1>16. ReaderOK(t)
    <2>1. t.start_after = {} \/ \E k \in Keys : t.start_after = {k}
      <3>1. CASE c = 0
        BY <1>5, <1>11, <1>12, <3>1 DEF ReaderOK
      <3>2. CASE c # 0
        <4>1. c \in 1..c
          BY <3>2
        <4>. QED
          BY <1>11, <1>12, <1>13, <3>2, <4>1
      <3>. QED
        BY <3>1, <3>2
    <2>. QED
      BY <1>5, <1>12, <1>14, <2>1 DEF ReaderOK
  <1>17. \A i \in 1..c : Covered(ext[i], Storage)
    <2>1. ASSUME NEW i \in 1..c
          PROVE  Covered(ext[i], Storage)
      <3>1. /\ ext[i].id \in DOMAIN StoreIn(r.query, Storage)
            /\ ext[i].reward = StoreIn(r.query, Storage)[ext[i].id].reward
            /\ ext[i].reward \in Nat
        BY <1>6, <1>9, <1>13, <2>1 DEF NewEntries, Entry
      <3>2. \/ StoreIn(r.query, Storage) = Storage.pending
            \/ StoreIn(r.query, Storage) = Storage.finished
        BY DEF StoreIn
      <3>. QED
        BY <3>1, <3>2 DEF Covered
    <2>. QED
      BY <2>1
  <1>18. a = 0 \/ \E k \in Keys : r.start_after = {k}
    BY <1>5, <1>8 DEF ReaderOK, ShownOK
  <1>19. ASSUME NEW i \in 1..a, NEW j \in 1..c
         PROVE  r.shown[i].id # ext[j].id
    <2>1. PICK k \in Keys : r.start_after = {k}
      BY <1>18
    <2>2. ~Below(KeyOf(r.shown[i]), k) /\ Below(KeyOf(ext[j]), k)
      BY <1>5, <1>6, <1>8, <1>9, <2>1 DEF ShownOK, NewEntries
    <2>3. Below(KeyOf(ext[j]), KeyOf(r.shown[i]))
      BY <1>13, <2>2, KeyOrder
    <2>4. /\ r.shown[i].reward \in Nat /\ r.shown[i].id \in Nat
          /\ ext[j].reward \in Nat /\ ext[j].id \in Nat
      BY <1>13 DEF Entry, JobIds
    <2>5. ext[j].id = r.shown[i].id => ext[j].reward < r.shown[i].reward
      BY <2>3, <2>4 DEF Below, KeyOf
    <2>6. Covered(r.shown[i], Storage)
      BY <1>5, <1>8 DEF ShownOK
    <2>7. /\ ext[j].id \in DOMAIN StoreIn(r.query, Storage)
          /\ ext[j].reward = StoreIn(r.query, Storage)[ext[j].id].reward
      BY <1>6, <1>9 DEF NewEntries
    <2>8. \/ StoreIn(r.query, Storage) = Storage.pending
          \/ StoreIn(r.query, Storage) = Storage.finished
      BY DEF StoreIn
    <2>9. DOMAIN Storage.pending \cap DOMAIN Storage.finished = {}
      BY <1>2, StoredTypes
    <2>10. ext[j].id = r.shown[i].id => ext[j].reward >= r.shown[i].reward
      BY <2>6, <2>7, <2>8, <2>9 DEF Covered
    <2>. QED
      BY <2>4, <2>5, <2>10
  <1>20. ASSUME NEW i \in 1..c, NEW j \in 1..c, ext[i].id = ext[j].id
         PROVE  i = j
    <2>1. KeyOf(ext[i]) = KeyOf(ext[j])
      BY <1>6, <1>9, <1>20 DEF NewEntries, KeyOf
    <2>2. /\ i < j => Below(KeyOf(ext[j]), KeyOf(ext[i]))
          /\ j < i => Below(KeyOf(ext[i]), KeyOf(ext[j]))
      BY <1>6, <1>9 DEF NewEntries
    <2>3. ~Below(KeyOf(ext[i]), KeyOf(ext[i]))
      BY <1>13, KeyOrder
    <2>. QED
      BY <2>1, <2>2, <2>3
  <1>21. ASSUME NEW i \in 1..(a + c), NEW k \in cursor
         PROVE  ~Below(KeyOf(t.shown[i]), k)
    <2>1. CASE i \in 1..a
      <3>1. PICK l \in Keys : r.start_after = {l}
        BY <1>18, <2>1
      <3>2. ~Below(KeyOf(r.shown[i]), l) /\ ~Below(l, k) /\ k \in Keys
        BY <1>5, <1>8, <1>15, <2>1, <3>1 DEF ShownOK
      <3>3. ~Below(KeyOf(r.shown[i]), k)
        BY <1>13, <2>1, <3>2, KeyOrder
      <3>. QED
        BY <1>14, <2>1, <3>3
    <2>2. ASSUME NEW j \in 1..c, i = a + j
          PROVE  ~Below(KeyOf(t.shown[i]), k)
      <3>1. c \in 1..c /\ k = KeyOf(ext[c]) /\ (j = c \/ j < c)
        BY <1>11, <2>2
      <3>2. j < c => Below(KeyOf(ext[c]), KeyOf(ext[j]))
        BY <1>6, <1>9, <3>1 DEF NewEntries
      <3>3. ~Below(KeyOf(ext[j]), KeyOf(ext[c]))
        BY <1>13, <3>1, <3>2, KeyOrder
      <3>. QED
        BY <1>14, <2>2, <3>1, <3>3
    <2>. QED
      BY <1>14, <2>1, <2>2
  <1>22. ShownOK(t, Storage)
    <2>1. \A i \in 1..(a + c) : Covered(t.shown[i], Storage)
      BY <1>5, <1>8, <1>14, <1>17 DEF ShownOK
    <2>2. ASSUME NEW i \in 1..(a + c), NEW j \in 1..(a + c), t.shown[i].id = t.shown[j].id
          PROVE  i = j
      <3>1. CASE i \in 1..a /\ j \in 1..a
        BY <1>5, <1>8, <1>14, <2>2, <3>1 DEF ShownOK
      <3>2. CASE i \in 1..a /\ j \notin 1..a
        <4>1. PICK l \in 1..c : j = a + l
          BY <1>14, <3>2
        <4>. QED
          BY <1>14, <1>19, <2>2, <3>2, <4>1
      <3>3. CASE i \notin 1..a /\ j \in 1..a
        <4>1. PICK k \in 1..c : i = a + k
          BY <1>14, <3>3
        <4>2. t.shown[i] = ext[k] /\ t.shown[j] = r.shown[j]
          BY <1>14, <3>3, <4>1
        <4>. QED
          BY <1>19, <2>2, <3>3, <4>2
      <3>4. CASE i \notin 1..a /\ j \notin 1..a
        <4>1. PICK k \in 1..c : i = a + k
          BY <1>14, <3>4
        <4>2. PICK l \in 1..c : j = a + l
          BY <1>14, <3>4
        <4>3. ext[k].id = ext[l].id
          BY <1>14, <2>2, <4>1, <4>2
        <4>. QED
          BY <1>20, <4>1, <4>2, <4>3
      <3>. QED
        BY <3>1, <3>2, <3>3, <3>4
    <2>3. cursor = {} => a + c = 0
      BY <1>11, <1>18
    <2>. QED
      BY <1>12, <1>14, <1>21, <2>1, <2>2, <2>3 DEF ShownOK
  <1>23. ASSUME NEW m \in t.steady
         PROVE  /\ m \in Matching(t.query, Storage)
                /\ \/ \E i \in 1..(a + c) : t.shown[i] = m
                   \/ ~t.done /\ \A k \in cursor : Below(KeyOf(m), k)
    <2>1. /\ m \in Matching(r.query, Storage)
          /\ \/ \E i \in 1..a : r.shown[i] = m
             \/ \A k \in r.start_after : Below(KeyOf(m), k)
      BY <1>5, <1>8, <1>12 DEF SteadyOK
    <2>2. CASE \E i \in 1..a : r.shown[i] = m
      BY <1>12, <1>14, <2>1, <2>2
    <2>3. CASE \E i \in 1..c : ext[i] = m
      BY <1>12, <1>14, <2>1, <2>3
    <2>4. CASE /\ \A k \in r.start_after : Below(KeyOf(m), k)
               /\ ~(c < n) /\ \A i \in 1..c : Below(KeyOf(m), KeyOf(ext[i]))
      <3>1. c # 0 => c \in 1..c
        OBVIOUS
      <3>. QED
        BY <1>11, <1>12, <2>1, <2>4, <3>1
    <2>5. CASE \A k \in r.start_after : Below(KeyOf(m), k)
      <3>1. \/ \E i \in 1..c : ext[i] = m
            \/ ~(c < n) /\ \A i \in 1..c : Below(KeyOf(m), KeyOf(ext[i]))
        BY <1>6, <1>7, <1>9, <2>1, <2>5 DEF NewEntries
      <3>. QED
        BY <2>3, <2>4, <2>5, <3>1
    <2>. QED
      BY <2>1, <2>2, <2>5
  <1>24. SteadyOK(t, Storage)
    BY <1>12, <1>14, <1>23 DEF SteadyOK
  <1>. QED
    BY <1>1, <1>6, <1>10, <1>16, <1>22, <1>24 DEF ReaderInv

-----------------------------------------------------------------------------
(* What follows *)

\* Who reads takes no step of the handlers.
LEMMA QueriesChangeNothing == QuerySpec => Spec
  <1>1. QueryInit => Init
    BY DEF QueryInit
  <1>2. [QueryNext]_<<vars, reading>> => [Next]_vars
    BY DEF QueryNext
  <1>. QED
    BY <1>1, <1>2, PTL DEF QuerySpec, Spec

LEMMA ReaderInvariance == QuerySpec => []ReaderInv
  <1>1. QueryInit => ReaderInv
    BY DEF QueryInit, ReaderInv
  <1>2. ASSUME IInv, IInv', LifeInv, LifeInv', ReaderInv, [QueryNext]_<<vars, reading>>
        PROVE  ReaderInv'
    <2>1. CASE Next /\ Watch
      BY <1>2, <2>1, WatchKeeps
    <2>2. CASE UNCHANGED vars /\ \E query \in Queries, limit \in Limits : StartReading(query, limit)
      BY <1>2, <2>2, StartKeeps
    <2>3. CASE UNCHANGED vars /\ ReadPage
      BY <1>2, <2>3, ReadKeeps
    <2>4. CASE UNCHANGED <<vars, reading>>
      <3>1. Committed' = Committed /\ reading' = reading
        BY <2>4 DEF vars, Committed, Storage
      <3>. QED
        BY <1>2, <3>1 DEF ReaderInv
    <2>. QED
      BY <1>2, <2>1, <2>2, <2>3, <2>4 DEF QueryNext
  <1>. QED
    BY <1>1, <1>2, QueriesChangeNothing, Invariance, LifeInvariance, PTL DEF QuerySpec

\* Whoever reads page after page is shown no job twice, for any queries and
\* limits and whatever the handlers do between the pages.
THEOREM PagesDisjoint == QuerySpec => []NothingShownTwice
  <1>1. ASSUME ReaderInv
        PROVE  NothingShownTwice
    <2>1. CASE reading = Idle
      <3>1. Shown = <<>>
        BY <2>1 DEF Shown
      <3>. QED
        BY <3>1 DEF NothingShownTwice
    <2>2. CASE reading # Idle
      <3>1. Shown = reading.shown /\ reading.shown \in Seq(Entry)
        BY <1>1, <2>2 DEF Shown, ReaderInv, ReaderOK
      <3>2. DOMAIN reading.shown = 1..Len(reading.shown)
        BY <3>1
      <3>. QED
        BY <1>1, <2>2, <3>1, <3>2 DEF NothingShownTwice, ReaderInv, ShownOK
    <2>. QED
      BY <2>1, <2>2
  <1>. QED
    BY <1>1, ReaderInvariance, PTL

\* Whoever has come to a page that is not full has been shown every job of the
\* filter that was there all along with its reward.
THEOREM PagesLeaveNoGap == QuerySpec => []NothingPassedOver
  <1>1. ASSUME ReaderInv, reading # Idle, reading.done
        PROVE  reading.steady \subseteq Range(reading.shown)
    <2>1. DOMAIN reading.shown = 1..Len(reading.shown)
      BY <1>1 DEF ReaderInv, ReaderOK
    <2>. QED
      BY <1>1, <2>1 DEF ReaderInv, SteadyOK, Range
  <1>. QED
    BY <1>1, ReaderInvariance, PTL DEF NothingPassedOver

-----------------------------------------------------------------------------
(* Jobs are found with their owners *)

\* The owners of finished jobs have accounts, as those of pending ones do.
Served(s) == \A id \in DOMAIN s.finished : s.finished[id].owner \in DOMAIN s.accounts

ServedInv == Served(Storage) /\ \A i \in DOMAIN stack : Served(stack[i].before)

\* A job of storage s is settled, or none.
ServedStep(s) ==
  /\ accounts' = s.accounts
  /\ \/ finished' = s.finished
     \/ \E id \in DOMAIN s.pending, status \in Terminal :
          finished' = Save(s.finished, id, Finish(s.pending[id], status))

LEMMA StepServed ==
  ASSUME NEW s, StorageInv(s), Served(s), ServedStep(s)
  PROVE  Served(Storage)'
  <1>1. Storage.finished' = finished' /\ Storage.accounts' = accounts'
    BY DEF Storage
  <1>2. CASE finished' = s.finished
    BY <1>1, <1>2 DEF Served, ServedStep
  <1>3. ASSUME NEW id \in DOMAIN s.pending, NEW status \in Terminal,
               finished' = Save(s.finished, id, Finish(s.pending[id], status))
        PROVE  Served(Storage)'
    <2>1. s.pending[id] \in JobType /\ s.pending[id].owner \in DOMAIN s.accounts
      BY <1>3, StoredTypes DEF StorageInv, StoresPartition
    <2>2. Finish(s.pending[id], status).owner = s.pending[id].owner
      BY <2>1 DEF JobType, Finish
    <2>. QED
      BY <1>1, <1>3, <2>1, <2>2 DEF Served, ServedStep, Save
  <1>. QED
    BY <1>2, <1>3 DEF ServedStep

\* A handler that leaves the stack alone.
LEMMA SameStackServed ==
  ASSUME IInv, ServedInv, ServedStep(Storage), stack' = stack
  PROVE  ServedInv'
  <1>1. StorageInv(Storage) /\ Served(Storage)
    BY DEF IInv, ServedInv
  <1>2. Served(Storage)'
    BY <1>1, StepServed
  <1>. QED
    BY <1>2 DEF ServedInv

LEMMA NextServed ==
  ASSUME IInv, ServedInv, [Next]_vars
  PROVE  ServedInv'
  <1>1. /\ DOMAIN stack = 1..Len(stack) /\ Len(stack) \in Nat /\ StackOK
        /\ StorageInv(Storage) /\ Served(Storage)
        /\ \A i \in DOMAIN stack : StorageInv(stack[i].before) /\ Served(stack[i].before)
    BY SeqOverRange DEF IInv, StackOK, FrameInv, ServedInv
  <1>2. Storage.finished = finished /\ Storage.accounts = accounts /\ Storage.pending = pending
    BY DEF Storage
  <1>3. ASSUME UNCHANGED <<finished, accounts, stack>>
        PROVE  ServedInv'
    BY <1>2, <1>3, SameStackServed DEF ServedStep
  <1>4. ASSUME NEW id \in DOMAIN pending, NEW status \in Terminal, Settle(id, status),
               UNCHANGED <<accounts, stack>>
        PROVE  ServedInv'
    BY <1>2, <1>4, SameStackServed DEF ServedStep, Settle
  <1>5. ASSUME NEW n \in 0..Len(stack), stack' = SubSeq(stack, 1, n), Served(Storage)'
        PROVE  ServedInv'
    <2>1. DOMAIN stack' = 1..n /\ \A k \in 1..n : stack'[k] = stack[k]
      BY <1>1, <1>5, CutStack
    <2>. QED
      BY <1>1, <1>5, <2>1 DEF ServedInv
  <1>6. ASSUME NEW i \in DOMAIN stack, NEW s, StorageInv(s), Served(s),
               NEW status \in {"Executed", "Failed"}, NEW terminates,
               JobReply(i, s, status, terminates)
        PROVE  ServedInv'
    <2>1. PICK b :
            stack' = Append(SubSeq(stack, 1, i - 1),
                            [stack[i] EXCEPT !.phase = "replied", !.callback = b])
      BY <1>6 DEF JobReply
    <2>. DEFINE f == [stack[i] EXCEPT !.phase = "replied", !.callback = b]
    <2>2. f.before = stack[i].before
      BY <1>1, <1>6 DEF IInv, FrameInv, FrameOK
    <2>3. i - 1 \in 0..Len(stack) /\ (i - 1) + 1 <= MaxDepth
      BY <1>1, <1>6, BoundAssumption DEF StackOK, IInv
    <2>. HIDE DEF f
    <2>4. /\ DOMAIN stack' = 1..((i - 1) + 1) /\ stack'[(i - 1) + 1] = f
          /\ \A k \in 1..(i - 1) : stack'[k] = stack[k]
      BY <1>1, <2>1, <2>3, PushFrame DEF f
    <2>5. \A k \in DOMAIN stack' : Served(stack'[k].before)
      BY <1>1, <2>2, <2>4
    <2>6. status \in Terminal
      BY <1>6 DEF Terminal
    <2>7. ServedStep(s)
      BY <1>6, <2>6 DEF JobReply, ServedStep
    <2>8. Served(Storage)'
      BY <1>6, <2>7, StepServed
    <2>. QED
      BY <2>5, <2>8 DEF ServedInv
  <1>7. ASSUME NEW keeper \in Senders, NEW id \in JobIds, ExecuteJob(keeper, id)
        PROVE  ServedInv'
    <2>. DEFINE f == [id |-> id, account |-> accounts[pending[id].owner],
                      keeper |-> accounts[keeper], reward |-> pending[id].reward,
                      phase |-> "messages", callback |-> FALSE, before |-> Storage]
    <2>1. stack' = Append(stack, f) /\ f.before = Storage
          /\ UNCHANGED <<finished, accounts>>
      BY <1>7 DEF ExecuteJob
    <2>. HIDE DEF f
    <2>2. \A i \in DOMAIN stack' : stack'[i] = f \/ (i \in DOMAIN stack /\ stack'[i] = stack[i])
      BY <1>1, <2>1 DEF StackOK
    <2>3. ServedStep(Storage)
      BY <1>2, <2>1 DEF ServedStep
    <2>4. Served(Storage)'
      BY <1>1, <2>3, StepServed
    <2>. QED
      BY <1>1, <2>1, <2>2, <2>4 DEF ServedInv
  <1>8. ASSUME NEW sender \in Senders, NEW amount \in Deposits, NEW addr \in AccountAddrs,
               OpenAccount(sender, amount, addr)
        PROVE  ServedInv'
    <2>1. stack' = stack /\ finished' = finished /\ accounts' = Save(accounts, sender, addr)
      BY <1>8 DEF OpenAccount
    <2>2. DOMAIN accounts \subseteq DOMAIN accounts'
      BY <2>1 DEF Save
    <2>3. Served(Storage)'
      BY <1>1, <2>1, <2>2 DEF Served, Storage
    <2>. QED
      BY <1>1, <2>1, <2>3 DEF ServedInv
  <1>9. CASE SpendStep \/ ConfigStep \/ Tick \/ UNCHANGED vars
    <2>1. UNCHANGED <<finished, accounts, stack>>
      BY <1>9 DEF SpendStep, SpendFromAccount, ConfigStep, UpdateConfig, Tick, vars
    <2>. QED
      BY <1>3, <2>1
  <1>10. CASE AccountStep
    <2>1. ASSUME NEW sender \in Senders, NEW amount \in Deposits, FundAccount(sender, amount)
          PROVE  ServedInv'
      BY <1>3, <2>1 DEF FundAccount
    <2>. QED
      BY <1>8, <1>10, <2>1 DEF AccountStep
  <1>11. CASE JobStep
    <2>1. ASSUME NEW sender, NEW id, DeleteJob(sender, id)
          PROVE  ServedInv'
      <3>1. id \in DOMAIN pending /\ Settle(id, "Cancelled") /\ UNCHANGED <<accounts, stack>>
        BY <2>1 DEF DeleteJob, MayDelete
      <3>. QED
        BY <1>4, <3>1 DEF Terminal
    <2>2. ASSUME NEW sender, NEW reward, NEW kind, CreateJob(sender, reward, kind)
          PROVE  ServedInv'
      BY <1>3, <2>2 DEF CreateJob
    <2>3. ASSUME NEW sender, NEW id, NEW added, UpdateJob(sender, id, added)
          PROVE  ServedInv'
      BY <1>3, <2>3 DEF UpdateJob
    <2>. QED
      BY <1>11, <2>1, <2>2, <2>3 DEF JobStep
  <1>12. CASE EvictStep
    <2>1. ASSUME NEW sender, NEW id, EvictJob(sender, id)
          PROVE  ServedInv'
      <3>1. id \in DOMAIN pending /\ Settle(id, "Evicted") /\ UNCHANGED <<accounts, stack>>
        BY <2>1 DEF EvictJob, MayEvict, Evictable
      <3>. QED
        BY <1>4, <3>1 DEF Terminal
    <2>2. ASSUME NEW sender, NEW id, EvictAndRequeue(sender, id)
          PROVE  ServedInv'
      BY <1>3, <2>2 DEF EvictAndRequeue
    <2>. QED
      BY <1>12, <2>1, <2>2 DEF EvictStep
  <1>13. CASE ExecuteStep
    <2>1. CASE \E terminates \in BOOLEAN : JobSucceeds(terminates)
      <3>1. Len(stack) \in DOMAIN stack
        BY <1>1, <2>1, EmptySeq DEF JobSucceeds, StackOK
      <3>. QED
        BY <1>1, <1>6, <2>1, <3>1 DEF JobSucceeds
    <2>2. CASE \E terminates \in BOOLEAN, i \in DOMAIN stack : JobFails(i, terminates)
      BY <1>1, <1>6, <2>2 DEF JobFails
    <2>3. CASE PayKeeper
      <3>1. Len(stack) - 1 \in 0..Len(stack)
        BY <1>1, <2>3, EmptySeq DEF PayKeeper, StackOK
      <3>2. UNCHANGED <<finished, accounts>> /\ stack' = SubSeq(stack, 1, Len(stack) - 1)
        BY <2>3 DEF PayKeeper
      <3>3. Served(Storage)'
        BY <1>1, <1>2, <3>2, StepServed DEF ServedStep
      <3>. QED
        BY <1>5, <3>1, <3>2, <3>3
    <2>4. ASSUME NEW i \in DOMAIN stack, CallFails(i)
          PROVE  ServedInv'
      <3>1. i - 1 \in 0..Len(stack)
        BY <1>1
      <3>2. ServedStep(stack[i].before)
        BY <2>4 DEF CallFails, Restore, ServedStep
      <3>3. Served(Storage)'
        BY <1>1, <3>2, StepServed
      <3>. QED
        BY <1>5, <2>4, <3>1, <3>3 DEF CallFails
    <2>5. ASSUME NEW keeper, NEW id, ExecuteInvalidJob(keeper, id)
          PROVE  ServedInv'
      <3>1. id \in DOMAIN pending /\ Settle(id, "Failed") /\ UNCHANGED <<accounts, stack>>
        BY <2>5 DEF ExecuteInvalidJob, CanExecute
      <3>. QED
        BY <1>4, <3>1 DEF Terminal
    <2>. QED
      BY <1>7, <1>13, <2>1, <2>2, <2>3, <2>4, <2>5 DEF ExecuteStep
  <1>. QED
    BY <1>9, <1>10, <1>11, <1>12, <1>13 DEF Next

LEMMA ServedInvariance == Spec => []ServedInv
  <1>1. Init => ServedInv
    <2>1. ASSUME Init PROVE DOMAIN finished = {} /\ DOMAIN stack = {}
      BY <2>1 DEF Init, EmptyMap
    <2>. QED
      BY <2>1 DEF ServedInv, Served, Storage
  <1>. QED
    BY <1>1, NextServed, Invariance, PTL DEF Spec

\* A job that was shown is found, also in the middle of a transaction.
LEMMA JobFound ==
  ASSUME IInv, LifeInv, ServedInv, NEW e \in Entry, Covered(e, Committed)
  PROVE  \E job \in QueryJob(e.id) : job.reward >= e.reward /\ QueryAccount(job.owner) # {}
  <1>1. StorageInv(Storage) /\ StorageInv(Committed) /\ Served(Storage)
    BY CommittedGood DEF IInv, ServedInv
  <1>2. Advances(Committed, Storage)
    <2>1. CASE stack = <<>>
      BY <1>1, <2>1, AdvancesReflexive DEF Committed
    <2>2. CASE stack # <<>>
      <3>1. 1 \in DOMAIN stack
        BY <2>2, SeqOverRange, EmptySeq DEF IInv, StackOK
      <3>. QED
        BY <2>2, <3>1 DEF Committed, LifeInv
    <2>. QED
      BY <2>1, <2>2
  <1>3. Covered(e, Storage)
    BY <1>1, <1>2, CoveredAdvances
  <1>4. /\ Storage.pending = pending /\ Storage.finished = finished
        /\ Storage.accounts = accounts /\ DOMAIN pending \cap DOMAIN finished = {}
    BY <1>1, StoredTypes DEF Storage
  <1>5. \A owner \in DOMAIN accounts : QueryAccount(owner) # {}
    BY DEF QueryAccount
  <1>6. CASE e.id \in DOMAIN finished
    <2>1. QueryJob(e.id) = {finished[e.id]}
      BY <1>6 DEF QueryJob
    <2>2. finished[e.id].reward >= e.reward
      BY <1>3, <1>4, <1>6 DEF Covered
    <2>3. finished[e.id].owner \in DOMAIN accounts
      BY <1>1, <1>4, <1>6 DEF Served
    <2>. QED
      BY <1>5, <2>1, <2>2, <2>3
  <1>7. CASE e.id \notin DOMAIN finished
    <2>1. e.id \in DOMAIN pending /\ pending[e.id].reward >= e.reward
      BY <1>3, <1>4, <1>7 DEF Covered
    <2>2. pending[e.id] \in QueryJob(e.id)
      BY <1>7, <2>1 DEF QueryJob
    <2>3. pending[e.id].owner \in DOMAIN accounts
      BY <1>1, <1>4, <2>1 DEF StorageInv, StoresPartition
    <2>. QED
      BY <1>5, <2>1, <2>2, <2>3
  <1>. QED
    BY <1>6, <1>7

\* What keeps everything loses nothing and changes no order.
LEMMA FilteredAll ==
  ASSUME NEW n \in Nat, NEW entries, entries = [i \in 1..n |-> entries[i]]
  PROVE  Filtered(entries, 1..n) = entries
  <1>. DEFINE before(i) == {j \in 1..n : j < i}
  <1>1. Cardinality(1..n) = n
    BY FS_Interval
  <1>2. \A i \in 1..n : Cardinality(before(i)) = i - 1
    <2>1. ASSUME NEW i \in 1..n
          PROVE  Cardinality(before(i)) = i - 1
      <3>1. before(i) = 1..(i - 1)
        OBVIOUS
      <3>2. i - 1 \in Nat /\ 1 \in Int
        OBVIOUS
      <3>3. PICK m \in Nat : m = i - 1
        BY <3>2
      <3>4. Cardinality(1..m) = m
        BY FS_Interval
      <3>. QED
        BY <3>1, <3>3, <3>4
    <2>. QED
      BY <2>1
  <1>3. \A k \in 1..n : (CHOOSE i \in 1..n : Cardinality(before(i)) = k - 1) = k
    <2>1. ASSUME NEW k \in 1..n
          PROVE  (CHOOSE i \in 1..n : Cardinality(before(i)) = k - 1) = k
      <3>. HIDE DEF before
      <3>1. \E i \in 1..n : Cardinality(before(i)) = k - 1
        BY <1>2
      <3>2. \A i \in 1..n : Cardinality(before(i)) = k - 1 => i = k
        BY <1>2
      <3>. QED
        BY <3>1, <3>2
    <2>. QED
      BY <2>1
  <1>4. Filtered(entries, 1..n) =
          [k \in 1..n |-> entries[CHOOSE i \in 1..n : Cardinality(before(i)) = k - 1]]
    BY <1>1 DEF Filtered
  <1>5. [k \in 1..n |-> entries[CHOOSE i \in 1..n : Cardinality(before(i)) = k - 1]]
          = [k \in 1..n |-> entries[k]]
    <2>. HIDE DEF before
    <2>. QED
      BY <1>3
  <1>. QED
    BY <1>4, <1>5

\* A list of ids that are all found is answered in full and in its order.
LEMMA IdsAnswered ==
  ASSUME NEW n \in Nat, NEW ids, ids = [i \in 1..n |-> ids[i]], Len(ids) = n,
         n <= QueryPageSize, \A i \in 1..n : QueryJob(ids[i]) # {}
  PROVE  QueryJobs(ByIds(ids), {}, {}) = {ids}
  <1>1. PICK query : query = ByIds(ids)
    OBVIOUS
  <1>2. /\ query.ids = {ids} /\ query.job_status = {} /\ query.name = {} /\ query.owner = {}
        /\ query.condition_status = {}
    BY <1>1 DEF ByIds
  <1>3. ValidQuery(query) /\ \A job : ResolveFilters(job, query)
    BY <1>2 DEF ValidQuery, ResolveFilters
  <1>4. DOMAIN ids = 1..n
    OBVIOUS
  <1>5. QueryPageSize \in Nat /\ PageSize({}) = QueryPageSize
    BY QueryAssumption DEF PageSize
  <1>6. QueryJobsByIds(ids, query) = {ids}
    <2>1. {i \in DOMAIN ids : \A job \in QueryJob(ids[i]) : ResolveFilters(job, query)} = 1..n
      BY <1>3, <1>4
    <2>2. ~(Len(ids) > QueryPageSize \/ \E i \in DOMAIN ids : QueryJob(ids[i]) = {})
      BY <1>4, <1>5
    <2>3. Filtered(ids, 1..n) = ids
      BY FilteredAll
    <2>. QED
      BY <2>1, <2>2, <2>3 DEF QueryJobsByIds
  <1>7. QueryJobs(query, {}, {}) = UNION {QueryJobsByIds(list, query) : list \in query.ids}
    BY <1>2, <1>3, <1>5 DEF QueryJobs
  <1>8. PICK answers : answers = {QueryJobsByIds(list, query) : list \in query.ids}
    OBVIOUS
  <1>9. PICK answer : answer = QueryJobsByIds(ids, query)
    OBVIOUS
  <1>10. \A a : a \in answers <=> a = answer
    BY <1>2, <1>8, <1>9
  <1>11. UNION answers = answer
    BY <1>10
  <1>. QED
    BY <1>1, <1>6, <1>7, <1>8, <1>9, <1>11

\* The ids of a part of what was shown.
IdsOf(shown, from, to) ==
  [i \in DOMAIN SubSeq(shown, from, to) |-> SubSeq(shown, from, to)[i].id]

\* Asked for together, they are answered as they were shown.
LEMMA PartAnswered ==
  ASSUME NEW shown \in Seq(Entry), \A i \in 1..Len(shown) : QueryJob(shown[i].id) # {},
         NEW from \in 1..Len(shown), NEW to \in 1..Len(shown),
         Len(IdsOf(shown, from, to)) <= QueryPageSize
  PROVE  QueryJobs(ByIds(IdsOf(shown, from, to)), {}, {}) = {IdsOf(shown, from, to)}
  <1>1. PICK part : part = SubSeq(shown, from, to)
    OBVIOUS
  <1>2. /\ \A i \in from..to : shown[i] \in Entry /\ i \in 1..Len(shown)
        /\ from \in Int /\ to \in Int
    OBVIOUS
  <1>3. PICK n \in Nat : n = IF from <= to THEN to - from + 1 ELSE 0
    <2>1. from <= to => to - from + 1 \in Nat
      BY <1>2
    <2>. QED
      BY <2>1
  <1>4. part \in Seq(Entry) /\ Len(part) = n /\ DOMAIN part = 1..n
    BY <1>1, <1>2, <1>3, SubSeqProperties
  <1>5. \A i \in 1..(to - from + 1) : part[i] = shown[from + i - 1]
    BY <1>1, <1>2, SubSeqProperties
  <1>6. \A i \in 1..n : from + i - 1 \in 1..Len(shown) /\ i \in 1..(to - from + 1)
    BY <1>3
  <1>7. ASSUME NEW i \in 1..n
        PROVE  part[i] \in Entry /\ QueryJob(part[i].id) # {}
    <2>1. PICK x \in 1..Len(shown) : part[i] = shown[x]
      BY <1>5, <1>6
    <2>. QED
      BY <2>1
  <1>8. PICK ids : ids = IdsOf(shown, from, to) /\ ids = [i \in 1..n |-> part[i].id]
    BY <1>1, <1>4 DEF IdsOf
  <1>9. ids \in [1..n -> JobIds] /\ \A i \in 1..n : ids[i] = part[i].id
    BY <1>7, <1>8 DEF Entry
  <1>10. ids = [i \in 1..n |-> ids[i]]
    BY <1>9
  <1>11. ids \in Seq(JobIds) /\ Len(ids) = n
    BY <1>9, SeqDef
  <1>12. \A i \in 1..n : QueryJob(ids[i]) # {}
    BY <1>7, <1>9
  <1>. QED
    BY <1>8, <1>10, <1>11, <1>12, IdsAnswered

\* What was ever shown is found by its ids for good, with its owner, at any
\* moment of a transaction.
THEOREM ShownJobsStayFound == QuerySpec => []ShownJobsFound
  <1>1. ASSUME IInv, LifeInv, ServedInv, ReaderInv
        PROVE  ShownJobsFound
    <2>1. /\ Shown \in Seq(Entry)
          /\ \A i \in 1..Len(Shown) : Covered(Shown[i], Committed)
      <3>1. CASE reading = Idle
        <4>1. Shown = <<>>
          BY <3>1 DEF Shown
        <4>. QED
          BY <4>1
      <3>2. CASE reading # Idle
        BY <1>1, <3>2 DEF Shown, ReaderInv, ReaderOK, ShownOK
      <3>. QED
        BY <3>1, <3>2
    <2>2. /\ Len(Shown) \in Nat /\ DOMAIN Shown = 1..Len(Shown)
          /\ \A i \in DOMAIN Shown : Shown[i] \in Entry
      BY <2>1
    <2>3. \A i \in DOMAIN Shown : \E job \in QueryJob(Shown[i].id) :
            job.reward >= Shown[i].reward /\ QueryAccount(job.owner) # {}
      BY <1>1, <2>1, <2>2, JobFound
    <2>4. ASSUME NEW from \in DOMAIN Shown, NEW to \in DOMAIN Shown
          PROVE  LET ids == [i \in DOMAIN SubSeq(Shown, from, to) |->
                               SubSeq(Shown, from, to)[i].id] IN
                 Len(ids) <= QueryPageSize => QueryJobs(ByIds(ids), {}, {}) = {ids}
      <3>1. \A i \in 1..Len(Shown) : QueryJob(Shown[i].id) # {}
        BY <2>2, <2>3
      <3>2. Len(IdsOf(Shown, from, to)) <= QueryPageSize =>
              QueryJobs(ByIds(IdsOf(Shown, from, to)), {}, {}) = {IdsOf(Shown, from, to)}
        BY <2>1, <2>2, <3>1, PartAnswered
      <3>. QED
        BY <3>2, Zenon DEF IdsOf
    <2>. QED
      BY <2>3, <2>4, Zenon DEF ShownJobsFound
  <1>. QED
    BY <1>1, QueriesChangeNothing, Invariance, LifeInvariance, ServedInvariance,
       ReaderInvariance, PTL
=============================================================================
