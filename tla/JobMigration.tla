---------------------------- MODULE JobMigration ----------------------------
(***************************************************************************)
(* The upgrade of a controller from the version before: migrate() keeps    *)
(* the counters and the configuration, but the new code reads other maps   *)
(* of jobs, which the owner fills from the old ones page by page while the *)
(* handlers of WarpController already run.  The old maps stay as they are. *)
(*                                                                         *)
(* The operator of a migration asks for each page after the last key of    *)
(* the one before, and for a shorter one if a page fails; the limits are   *)
(* the operator's choice.                                                  *)
(***************************************************************************)
EXTENDS WarpController

CONSTANTS
  OldPending,      \* the map pending_jobs_v2
  OldFinished,     \* the map finished_jobs_v2
  OldMsgs,         \* how many messages each old job has
  OldQ,            \* V1State.q
  OldAccounts,     \* ACCOUNTS, the same map before and after
  OldBalance,      \* coins at the time of the upgrade
  Rank,            \* the order of owners' addresses as keys
  Limits           \* limits of a page

OldIds == DOMAIN OldPending \cup DOMAIN OldFinished

\* What the version before leaves behind: jobs under consecutive ids in one
\* map each, owners with accounts, rewards with the controller, all of
\* them waiting for longer than any eviction period.
ASSUME OldStoresAssumption ==
  /\ IsMap(OldPending, JobIds, JobType) /\ IsMap(OldFinished, JobIds, JobType)
  /\ IsMap(OldAccounts, Users, AccountAddrs) /\ IsFiniteSet(DOMAIN OldAccounts)
  /\ OldBalance \in [Addresses -> Nat] /\ OldQ \in Nat
  /\ Contracts = {} => OldBalance[Controller] = Escrowed(OldPending)
  /\ DOMAIN OldPending \cap DOMAIN OldFinished = {}
  /\ OldIds = 1..Cardinality(OldIds) /\ OldIds \subseteq JobIds
  /\ OldQ >= Cardinality(DOMAIN OldPending)
  /\ \A id \in DOMAIN OldPending :
       /\ OldPending[id].status = "Pending" /\ OldPending[id].age = MaxAge
       /\ OldPending[id].owner \in DOMAIN OldAccounts
       /\ OldPending[id].name = id /\ OldPending[id].reward > 0
  /\ \A id \in DOMAIN OldFinished :
       OldFinished[id].status \in Terminal /\ OldFinished[id].reward > 0
  /\ OldMsgs \in [OldIds -> Nat]
  /\ Rank \in [Users -> Nat \ {0}] /\ IsInjective(Rank)
  /\ Limits \subseteq Nat \ {0}

Stores == {"accounts", "pending", "finished"}

VARIABLES
  cursor,  \* start_after of the next page of each store
  done,    \* stores whose last page came back short
  code     \* the version of the code each account contract runs

migration_vars == <<cursor, done, code>>
all_vars == <<vars, migration_vars>>

-----------------------------------------------------------------------------
(* Pages *)

\* Variant: Bound::inclusive, so the page begins with the last key again.
OverlappingPage(keys, start_after, limit) ==
  LET rest == {k \in keys : k >= start_after} IN
  {k \in rest : Cardinality({j \in rest : j < k}) < limit}

\* Variant: the page begins one key too late.
SkippingPage(keys, start_after, limit) ==
  LET rest == {k \in keys : k > start_after + 1} IN
  {k \in rest : Cardinality({j \in rest : j < k}) < limit}

\* keys(start_after exclusive, ascending).take(limit)
Page(keys, start_after, limit) ==
  LET rest == {k \in keys : k > start_after} IN
  {k \in rest : Cardinality({j \in rest : j < k}) < limit}

\* The operator goes on after the last key, until a page is not full.
Turn(store, page, limit) ==
  /\ cursor' = [cursor EXCEPT ![store] = 
       IF page = {} THEN @ ELSE CHOOSE k \in page : \A j \in page : j <= k]
  /\ done' = IF Cardinality(page) < limit THEN done \cup {store} ELSE done

\* Between transactions, by the owner of the configuration.
MayMigrate(sender, store) ==
  /\ stack = <<>>
  /\ MayAct(sender)
  /\ sender = config.owner
  /\ store \notin done

-----------------------------------------------------------------------------
(* Handlers *)

\* The new fields of a job: no terminate condition.
Converted(job) == [job EXCEPT !.kind.terminate_condition = FALSE]

\* save() of every job of the page, over what is there.
Copied(jobs, old, page) ==
  [id \in DOMAIN jobs \cup page |-> IF id \in page THEN Converted(old[id]) ELSE jobs[id]]

MigratePendingJobs(sender, limit) ==
  LET page == Page(DOMAIN OldPending, cursor["pending"], limit) IN
  /\ MayMigrate(sender, "pending")
  /\ pending' = Copied(pending, OldPending, page)
  /\ Turn("pending", page, limit)
  /\ UNCHANGED <<config, current_job_id, q, finished, accounts, balance, stack, code>>

MigrateFinishedJobs(sender, limit) ==
  LET page == Page(DOMAIN OldFinished, cursor["finished"], limit) IN
  /\ MayMigrate(sender, "finished")
  /\ finished' = Copied(finished, OldFinished, page)
  /\ Turn("finished", page, limit)
  /\ UNCHANGED <<config, current_job_id, q, pending, accounts, balance, stack, code>>

\* A WasmMsg::Migrate for each account of the page.
MigrateAccounts(sender, limit) ==
  LET page == Page({Rank[o] : o \in DOMAIN accounts}, cursor["accounts"], limit)
      migrated == {accounts[o] : o \in {o \in DOMAIN accounts : Rank[o] \in page}}
  IN
  /\ MayMigrate(sender, "accounts")
  /\ code' = [addr \in AccountAddrs |-> IF addr \in migrated THEN "new" ELSE code[addr]]
  /\ Turn("accounts", page, limit)
  /\ UNCHANGED vars

\* The old messages, strings each, are put side by side between brackets
\* without a comma: the text of two or more is no JSON array.
MsgsParse(job) == job.name \in OldIds => OldMsgs[job.name] <= 1

\* The handlers as they are; execute_job fails before its submessage when
\* hydrate_msgs cannot parse the messages.
Handler ==
  /\ Next
  /\ Len(stack') > Len(stack) => MsgsParse(pending[stack'[Len(stack')].id])
  /\ UNCHANGED migration_vars

-----------------------------------------------------------------------------
(* Specification *)

\* The state migrate() leaves: counters and configuration kept, nothing in the
\* new maps.  Accounts are instantiated with the new code from now on.
MigratedInit ==
  /\ config \in {c \in Configs : ValidConfig(c)}
  /\ current_job_id = Cardinality(OldIds) + 1
  /\ q = OldQ
  /\ pending = EmptyMap
  /\ finished = EmptyMap
  /\ accounts = OldAccounts
  /\ balance = OldBalance
  /\ stack = <<>>
  /\ cursor = [s \in Stores |-> 0]
  /\ done = {}
  /\ code = [addr \in AccountAddrs |-> IF addr \in Range(OldAccounts) THEN "old" ELSE "new"]

MigrationStep(store) ==
  \E sender \in Users, limit \in Limits :
    \/ store = "pending" /\ MigratePendingJobs(sender, limit)
    \/ store = "finished" /\ MigrateFinishedJobs(sender, limit)
    \/ store = "accounts" /\ MigrateAccounts(sender, limit)

MigrationNext == Handler \/ \E store \in Stores : MigrationStep(store)

MigrationSpec == MigratedInit /\ [][MigrationNext]_all_vars

\* The operator goes on to the end, whenever transactions leave room for it.
FairMigrationSpec ==
  /\ MigrationSpec
  /\ WF_all_vars(1 \in DOMAIN stack /\ CallFails(1) /\ UNCHANGED migration_vars)
  /\ \A store \in Stores : SF_all_vars(MigrationStep(store))

-----------------------------------------------------------------------------
(* Properties *)

\* Old jobs the new code cannot see yet.
Waiting(old, store) == {id \in DOMAIN old : id > cursor[store]}

\* Variables in their types while the new maps fill up.
MigrationTypeOK ==
  /\ TypeOK
  /\ cursor \in [Stores -> Nat]
  /\ done \subseteq Stores
  /\ code \in [AccountAddrs -> {"old", "new"}]

\* At every moment of the migration each id given out, by the old code or the
\* new, is in exactly one place: waiting in an old map, pending or finished.
EachJobOnce ==
  LET places == <<Waiting(OldPending, "pending"), Waiting(OldFinished, "finished"),
                  DOMAIN pending, DOMAIN finished>>
  IN
  /\ UNION Range(places) = 1..(current_job_id - 1)
  /\ \A i, j \in DOMAIN places : i # j => places[i] \cap places[j] = {}

\* STATE.q, which migrate() keeps, also covers the jobs that are still to be
\* copied: none of them is ever stuck for want of a place in the queue.
QueueCoversWaiting ==
  q >= Cardinality(DOMAIN pending) + Cardinality(Waiting(OldPending, "pending"))

\* The rewards of old jobs stay in the escrow until they are copied, whatever
\* is settled in between.
EscrowCoversWaiting ==
  Contracts = {} =>
    balance[Controller] = Escrowed(pending) + Owed
      + Escrowed([id \in Waiting(OldPending, "pending") |-> OldPending[id]])

\* When the pages over ACCOUNTS have come to their end every account runs the
\* new code, those included that were opened between two pages.
AccountsUpgraded ==
  "accounts" \in done => \A o \in DOMAIN accounts : code[accounts[o]] = "new"

\* A store together with the old jobs that wait for their page.
WithWaiting(jobs, old, store) ==
  [id \in DOMAIN jobs \cup Waiting(old, store) |->
     IF id \in DOMAIN jobs THEN jobs[id] ELSE Converted(old[id])]

WholePending(jobs) == WithWaiting(jobs, OldPending, "pending")
WholeFinished(jobs) == WithWaiting(jobs, OldFinished, "finished")

WholeStorage(s) == [s EXCEPT !.pending = WholePending(@), !.finished = WholeFinished(@)]

WholeFrame(f) == [f EXCEPT !.before = WholeStorage(@)]

WholeStack(frames) == [i \in DOMAIN frames |-> WholeFrame(frames[i])]

AllPending == WholePending(pending)
AllFinished == WholeFinished(finished)
AllStack == WholeStack(stack)

Whole == INSTANCE WarpController WITH
  pending <- AllPending, finished <- AllFinished, stack <- AllStack

\* The migration does not show: with the old jobs that still wait taken in, every
\* step is a step the controller of WarpController takes that had all its jobs
\* from the start, or none.  No job is brought back, reset, paid out of other
\* coins or given a place in the queue twice.
MigrationInvisible ==
  [][Whole!Next]_(Whole!vars)

\* Every old job is in the new maps in the end.
EventuallyMigrated ==
  \A id \in OldIds : <>(id \in DOMAIN pending \cup DOMAIN finished)

\* create_job asks the resolver whether the messages of a job are valid, and
\* refuses "msgs are invalid".  That every pending job has passed:
PendingMsgsValid == \A id \in DOMAIN pending : MsgsParse(pending[id])
=============================================================================
