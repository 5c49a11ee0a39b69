----------------------------- MODULE JobQueries -----------------------------
(***************************************************************************)
(* The queries of the controller, and a reader off the chain that follows  *)
(* the pages of query_jobs, from the highest reward down, while the        *)
(* handlers of WarpController run.  After a page the reader asks for what  *)
(* comes after its last job, and after a page that is not full it stops.   *)
(* query_accounts is read in pages just as migrate_accounts reads them     *)
(* (JobMigration).                                                         *)
(*                                                                         *)
(* An Option is a set of at most one, and so is a result: empty where the  *)
(* query answers an error.                                                 *)
(***************************************************************************)
EXTENDS WarpController

CONSTANTS
  QueryPageSize,  \* QUERY_PAGE_SIZE
  Queries,        \* what readers ask of query_jobs, without start_after
  Limits          \* the limits readers ask for

\* Who asks by ids is answered at once, without pages.
ASSUME QueryAssumption ==
  /\ QueryPageSize \in Nat \ {0}
  /\ \A limit \in Limits : limit \subseteq Nat \ {0} /\ Cardinality(limit) <= 1
  /\ \A query \in Queries : query.ids = {}

VARIABLE reading  \* the reader: what it asked, where it is, what it was shown

-----------------------------------------------------------------------------
(* query_job, query_jobs *)

\* Variant: finished jobs are not looked up.
QueryPendingJob(id) == {pending[i] : i \in {id} \cap DOMAIN pending}

\* Finished jobs first.
QueryJob(id) ==
  IF id \in DOMAIN finished THEN {finished[id]}
  ELSE {pending[i] : i \in {id} \cap DOMAIN pending}

QueryAccount(owner) == {accounts[o] : o \in {owner} \cap DOMAIN accounts}

\* Ids, or filters.
ValidQuery(query) ==
  \/ query.ids = {}
  \/ query.job_status = {} /\ query.name = {} /\ query.owner = {} /\ query.condition_status = {}

ResolveFilters(job, query) ==
  /\ \A status \in query.job_status : status = job.status
  /\ \A name \in query.name : name = job.name
  /\ \A owner \in query.owner : owner = job.owner

\* What entries has at the positions in kept, in its order.
Filtered(entries, kept) ==
  [k \in 1..Cardinality(kept) |->
     entries[CHOOSE i \in kept : Cardinality({j \in kept : j < i}) = k - 1]]

\* One unknown id fails the query; repeated ids are answered again.
QueryJobsByIds(ids, query) ==
  IF Len(ids) > QueryPageSize \/ \E i \in DOMAIN ids : QueryJob(ids[i]) = {} THEN {}
  ELSE {Filtered(ids, {i \in DOMAIN ids :
                         \A job \in QueryJob(ids[i]) : ResolveFilters(job, query)})}

\* Any status but Pending is looked for among the finished jobs.
StoreIn(query, s) ==
  IF \E status \in query.job_status : status # "Pending" THEN s.finished ELSE s.pending

Store(query) == StoreIn(query, Storage)

\* The index of rewards.
Key(store, id) == <<store[id].reward, id>>

Below(k, l) == k[1] < l[1] \/ (k[1] = l[1] /\ k[2] < l[2])

Take(entries, n) == SubSeq(entries, 1, IF n < Len(entries) THEN n ELSE Len(entries))

\* ids from the highest key down.
Descending(store, ids) ==
  CHOOSE entries \in Bijection(1..Cardinality(ids), ids) :
    \A i, j \in 1..Cardinality(ids) :
      i < j => Below(Key(store, entries[j]), Key(store, entries[i]))

\* The range of the index, from start_after down.
InRange(store, start_after) ==
  {id \in DOMAIN store : \A k \in start_after : Below(Key(store, id), k)}

\* Variant: the filters are applied to a page that was cut before.
FilterPage(query, start_after, n) ==
  LET store == Store(query)
      page == Take(Descending(store, InRange(store, start_after)), n)
  IN  Filtered(page, {i \in DOMAIN page : ResolveFilters(store[page[i]], query)})

QueryJobsByReward(query, start_after, n) ==
  LET store == Store(query)
      found == {id \in InRange(store, start_after) : ResolveFilters(store[id], query)}
  IN  Take(Descending(store, found), n)

\* data.limit.unwrap_or(QUERY_PAGE_SIZE)
PageSize(limit) == IF limit = {} THEN QueryPageSize ELSE CHOOSE n \in limit : TRUE

\* Jobs by their ids.
QueryJobs(query, start_after, limit) ==
  IF ~ValidQuery(query) \/ PageSize(limit) > QueryPageSize THEN {}
  ELSE IF query.ids # {} THEN UNION {QueryJobsByIds(ids, query) : ids \in query.ids}
  ELSE {QueryJobsByReward(query, start_after, PageSize(limit))}

-----------------------------------------------------------------------------
(* The reader.  steady: the jobs, with their rewards, that were there when   *)
(* the reading began and have been there ever since.                        *)

Idle == [done |-> TRUE]

Matching(query, s) ==
  LET store == StoreIn(query, s) IN
  {[id |-> id, reward |-> store[id].reward] :
     id \in {id \in DOMAIN store : ResolveFilters(store[id], query)}}

StartReading(query, limit) ==
  /\ reading = Idle
  /\ reading' = [query |-> query, limit |-> limit, start_after |-> {}, shown |-> <<>>,
                 steady |-> Matching(query, Committed), done |-> FALSE]

\* The next page, between transactions.
ReadPage ==
  LET store == Store(reading.query) IN
  /\ stack = <<>>
  /\ ~reading.done
  /\ \E page \in QueryJobs(reading.query, reading.start_after, reading.limit) :
       reading' = [reading EXCEPT
         !.shown = @ \o [i \in DOMAIN page |-> [id |-> page[i], reward |-> store[page[i]].reward]],
         !.start_after = IF page = <<>> THEN @ ELSE {Key(store, page[Len(page)])},
         !.done = Len(page) < PageSize(reading.limit)]

\* What the handlers leave of the jobs that were there.
Watch ==
  reading' = IF reading = Idle THEN Idle
             ELSE [reading EXCEPT !.steady = @ \cap Matching(reading.query, Committed')]

-----------------------------------------------------------------------------
(* Specification *)

QueryInit == Init /\ reading = Idle

QueryNext ==
  \/ Next /\ Watch
  \/ /\ \/ \E query \in Queries, limit \in Limits : StartReading(query, limit)
        \/ ReadPage
     /\ UNCHANGED vars

QuerySpec == QueryInit /\ [][QueryNext]_<<vars, reading>>

-----------------------------------------------------------------------------
(* Properties *)

\* Nothing is shown to a reader who has not begun.
Shown == IF reading = Idle THEN <<>> ELSE reading.shown

\* A reader who goes on from page to page is shown no job twice: the reward of a
\* job is never lowered while it waits, also not when it is requeued or its
\* execution fails, so a job that was shown never comes to lie below the cursor.
NothingShownTwice ==
  \A i, j \in DOMAIN Shown : Shown[i].id = Shown[j].id => i = j

\* A reader who has come to a page that is not full has been shown every job of
\* the filter that was there all along and whose reward nobody raised meanwhile,
\* whatever was created, executed and evicted between the pages; of finished
\* jobs, which stay as they are, all.
NothingPassedOver ==
  reading # Idle /\ reading.done => reading.steady \subseteq Range(reading.shown)

ByIds(ids) == [ids |-> {ids}, job_status |-> {}, name |-> {}, owner |-> {}, condition_status |-> {}]

\* What has been shown can be asked for by its ids, each and together, for good:
\* the jobs are found, pending or finished, with at least the reward shown and
\* an owner whose account query_account finds.  Nothing that was published is
\* taken back, by a failed transaction least of all.
ShownJobsFound ==
  /\ \A from, to \in DOMAIN Shown :
       LET ids == [i \in DOMAIN SubSeq(Shown, from, to) |-> SubSeq(Shown, from, to)[i].id] IN
       Len(ids) <= QueryPageSize => QueryJobs(ByIds(ids), {}, {}) = {ids}
  /\ \A i \in DOMAIN Shown : \E job \in QueryJob(Shown[i].id) :
       job.reward >= Shown[i].reward /\ QueryAccount(job.owner) # {}
=============================================================================
