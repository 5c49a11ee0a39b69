# Warp contracts in TLA+

A verification development of the Warp contracts: CosmWasm contracts in which a
user submits a *job* (messages to run once a condition holds, and a reward),
*keepers* execute it for the reward, and *evictors* remove it when it has waited
too long. The modules here model the code under `src/contracts` and
`src/packages`; TLC checks them on small instances, and TLAPS proves what is
proved for every value of the constants.

## Inventory

| Component | State | Operations | Right when |
|---|---|---|---|
| Controller, jobs (`warp-controller/src/execute/job.rs`, `reply` in `contract.rs`) | `STATE` (next id, queue counter `q`), `PENDING_JOBS`, `FINISHED_JOBS`, the controller's coins | `create_job`, `delete_job`, `update_job`, `execute_job` with `reply`, `evict_job` | no job is lost, duplicated or settled twice; the controller holds every reward it owes; a job can be cancelled, and evicted after its time |
| Controller, accounts (`execute/account.rs`, `reply` id 0) | `ACCOUNTS`, unique index on the account address | `create_account` | one account per owner, one owner per account, no account of an account |
| Controller, configuration (`execute/controller.rs`, `instantiate`) | `CONFIG` | `instantiate`, `update_config` | every accepted configuration keeps the arithmetic of the handlers defined |
| Controller, migration (`execute/controller.rs`, `migrate`) | v2 and v3 job maps, versions of `STATE`, `CONFIG` | `migrate`, `migrate_accounts`, `migrate_pending_jobs`, `migrate_finished_jobs` | every job migrated once, none resurrected |
| Controller, queries (`query/`, `util/filter.rs`) | none | `query_job`, `query_jobs` by ids or filtered and paged by reward, `query_account(s)` | pages show every job once, though jobs move and rewards rise between them; what was shown is found |
| Account (`warp-account`) | owner and controller address; coins and tokens | `Generic`, `WithdrawAssets`, `IbcTransfer` | only owner and controller act; withdrawal reaches the owner |
| Resolver (`warp-resolver`) | none (queries only) | validate a job, resolve a condition, hydrate variables and messages, apply update functions | evaluation agrees with the meaning of the tree; hydration order; references |
| Resolver, paths (`util/path.rs`) | none | `resolve_path` into the answer of a query | a selector leads to what it says |
| Templates (`warp-templates`) | templates, next id, fee configuration | submit, edit, delete, `update_config`, migration | ids unique, fee paid, only the owner edits |
| Types and schemas (`packages/`), deployment scripts (`tasks/`) | none | none | |

How they interact. A handler of the controller writes its storage, and returns
messages that the chain then runs in order within the same transaction: bank
payments; `Generic` messages that make an account pay; for `execute_job` one
*submessage*, the job's own messages run by the owner's account, after which the
chain calls the controller's `reply`. Any error undoes the transaction, except
that an error inside the submessage undoes only what the submessage wrote and
is handed to `reply`. The controller asks the resolver (queries, no state)
whether conditions hold and what variables and messages are.

What is hard: the job's messages may call any contract, which may call the
controller again, so a job can be updated, cancelled, evicted or executed by its
own execution; the reward message was made before all of that; a submessage that
fails undoes nested executions that had already finished; a recurring job starts
over in `reply` out of an account its messages may just have emptied; the
configuration and the queue counter change while jobs wait.
`PROJECT.json` lists each hazard at its line with the properties that would
catch it.

## Modules

| Module | Models |
|---|---|
| `WarpBank` | What the contracts use of the chain: coins and payments (a payment of zero, or beyond the payer's funds, fails) and maps. External code. |
| `WarpController` | The controller: jobs, accounts, configuration, and the coins of users, accounts and controller. |
| `JobLifecycle` | The promise to the owner of a job: ids in order, pending until settled once and for all, reward never lowered. |
| `JobQueries` | The queries of the controller, and a reader who follows their pages, composed with `WarpController`. |
| `JobMigration` | The upgrade from the version before: `migrate` and the paged migrations, composed with `WarpController`, whose handlers already run. |
| `WarpAccount` | One account contract: what its owner and the controller can have it do with coins, cw20 and cw721 tokens, and IBC transfers. |
| `WarpTemplates` | The templates contract, and a reader of its pages. |
| `JsonPath` | The selectors of queries: `resolve_path` on JSON documents, beside what a path means. The walk is bounded by the bytes of the path and reads its characters, so names are ASCII or not (`Wide`). |
| `Resolver` | The resolver, which has no state: operators for validation, hydration, conditions and update functions, over `JsonPath`. |
| `JobSeries` | The variables of a recurring job through its executions, over `Resolver`. |
| `MCWarpController`, `MCJobQueries`, `MCJobMigration`, `MCWarpAccount`, `MCWarpTemplates`, `MCJobSeries` | Constants for TLC. |
| `WarpController_proofs`, `WarpEscrow_proofs` | Proofs about `WarpController`: the stores, types and lifecycle; upon them, the coins. |
| `JobQueries_proofs`, `JobMigration_proofs`, `WarpAccount_proofs`, `WarpTemplates_proofs`, `JobSeries_proofs` | Proofs about these modules. |
| `SetTheorems` | Lemmas: sums over finite sets, and pages taken in the order of keys. |

Operators called variants are mistakes the properties are meant to catch; no
specification uses them.

### The controller

State. `config`, `current_job_id`, `q`, `pending`, `finished`, `accounts` are the
items and maps of `state.rs`; `balance` is the bank's view in the fee
denomination. `stack` is the chain's call stack: one frame per `execute_job` that
has not returned, with the values its closure keeps (job id, keeper's account and
the reward read at the start), its phase, and the storage to put back if it
fails.

Actions. A handler with the payments of its response is one action: payments call
nobody back. Its guards are the handler's early returns, and its payments' being
affordable. `execute_job` is split where foreign code runs: `ExecuteJob` (up to
the submessage), then whatever the job's messages do, then `JobSucceeds` or
`JobFails` (`reply`, from the current storage or from the one before the
submessage), then, if a withdrawn cw20 token calls back, whatever it does, then
`PayKeeper` (the reward message). `CallFails(i)` undoes frame `i` and all above
it; of the outermost frame it undoes the transaction. While the stack is not
empty only those can act whom the running messages reach (`MayAct`): contracts,
the accounts they own, and the owner's account. What is true of the chain for good
is the storage outside transactions, `Committed`.

Data. Conditions, variables and messages are replaced by their outcomes: whether
the condition is true, cannot be evaluated, or is false (no step); whether the
messages fail; whether the terminate condition ends a recurring job; an error of
the resolver in `reply` is a `CallFails`. Texts and labels are left out. Time is
the age of a pending job, counted up to `MaxAge >= t_max`, beyond which no guard
tells ages apart. The times of finished jobs are not kept. Overflow of `Uint64`
and `Uint128` upwards is out of reach of coins that exist; subtractions that
could underflow are guards or invariants (`TypeOK`, `EvictionPeriodOK`).

### The queries

None changes state, so one action suffices for the reader off the chain:
`ReadPage` takes the next page of `query_jobs` below the last key shown, and stops
after one that is not full; it runs between transactions, as queries do. The order
of the index is `Below` on (reward, id), and a page the first `n` of the ids listed
from the highest key down (`Descending`, `Take`). Who pages gives no ids
(`QueryAssumption`): a query by ids is answered at once, and `ShownJobsFound` asks
those of its own. `steady`
is a history of the jobs that were there when the reading began and still are,
with the same reward. Kept as they are: which store a status selects, the order
of filter and limit, one unknown id failing a list of ids. `active` and
`condition_status` filter nothing in the code and nothing here. `query_accounts`
pages like `migrate_accounts`; `query_config` and `query_state` return an item.

### The migration

`migrate` keeps `CONFIG` and the counters, but the new code reads new job maps;
`migrate_pending_jobs` and `migrate_finished_jobs` copy the old ones, a page at a
time, and `migrate_accounts` upgrades the account contracts. `OldPending`,
`OldFinished` and `OldAccounts` are what the version before leaves behind, as far
as the module's assumption says (ids shared out, owners with accounts, positive
rewards, `q` and coins that cover them, and pending jobs old enough to be evicted
once copied, since a constant does not age); the old maps never change, so they are
constants. `cursor` and `done` are the operator's: each page is asked for after
the last key of the one before. That is how `start_after` is meant to be used
and is not checked by the code: a page given twice does bring settled jobs back.
`Handler` is any step of `WarpController`, with the one thing that old jobs add
to it: `execute_job` cannot parse the text of two or more migrated messages.
`Whole` is the controller with the waiting jobs taken in (`WithWaiting`), in its
storage and in every storage that a failing call would put back.

### The account

`holding` and `nft_owner` are the ledgers of other contracts, `transfers` the IBC
packets that are neither acknowledged nor timed out. `withdraw_asset_*` return a
message or none (`NoMessage`), all of them from the ledgers before the first runs.
A response's messages run one after the other and stand or fall together
(`AfterMessage`, `Run`, `Perform`). `blocks` is the last block of this chain and of
the one that receives the transfers; each makes blocks on its own, with heights and a
clock that have nothing to do with the other's. Only the second decides whether a
transfer has timed out (`Elapsed`); its revision number is fixed, while a message may
name any. Options are `None` or `Some(x)`: a delta of zero counts as given, and only on
the wire (`Timeouts`) are None and zero the same, no timeout. The IBC module refuses a
timeout that its light client knows to be over; how old the block is that the light
client saw last is left open (`Sendable`). Also modelled as it is: a delta of seconds is
added to *twice* the time of the block; a delta of blocks is added to the height of
*this* chain, so that the transfer may have timed out when it is sent, and comes
back, or never time out; it is ignored unless a timeout block is given; a cw721 token is
transferred if it belongs to the *owner*. Approvals of cw721 are not told apart from
ownership. Times are whole seconds, where the code has nanoseconds, and deltas at the
limit of 64 bits, with which the call fails, are left out.

### Templates

`SubmitTemplate` has the handler's order: the fee must be among the coins sent,
the template is saved, the fee goes to the collector. Nothing is modelled of a
template but id, owner and name. As in the code, `instantiate` sets a fee of zero, for which no
submission succeeds before the owner sets one (a coin of zero is never among the
funds); coins other than the fee stay in the contract. `reader` follows the pages
of one name from id to id.

### The resolver and a series of jobs

`Resolver` has the functions of `warp-resolver/src/util`. A result is a set, empty
where the code returns an error or panics. A text is a sequence of tokens
(numbers, truth values, words, references); `Rest` says which names begin with
which others and what is left of them. Numbers are bounded by constants, so that
every overflow is met; decimals are integers in units of one. An answer of a
query is a JSON document, and a selector a path of marks, names and numbers: a
field is collected token by token and looked up at the next point, and the first
index ends the walk (`Walk`, `ResolvePath`). Base64 is a wrapper around the text
that only decoding removes, so that what is encoded twice, or matched as if it
were plain, is told apart. Amounts have a bound of their own. Values and conditions are
finite trees: `Values` and `Conditions` are those that jobs are written with, closed
under what is nested in them (`ValuesAssumption`, `ConditionsAssumption`), and what is
nested has a lesser `Depth`. Over them the recursion of `resolve_num_value_*` and
`resolve_cond` is a recursive function (`NumValues`, `ResolveCond`). Left out: the quotes
that surround a replacement, with them the failure of `hydrate_msgs` where what is put
in makes the text no message, and the `execute` entry points of the resolver, which
run the same queries and change nothing.

`JobSeries` is `execute_job` and `reply` from the side of the variables, which the
controller model leaves out: those that are stored are hydrated for an execution
and *the stored ones* updated for the next. The condition decides on the hydrated,
the terminate condition on the updated ones. Whether messages succeed, and
whether the account can pay for the next job, are choices.

## Properties

* `StoresPartitionIds`: the ids given out are exactly the pending and the
  finished jobs, never both, and the owner of a pending job has an account.
* `QueueCounterCovers`: `q` is at least the number of pending jobs, so no
  `checked_sub` keeps a job in. (It is not equal to it: see findings.)
* `EscrowExact`, `EscrowCovers`: the controller's coins against the rewards of
  pending jobs and of keepers not paid yet; exact where no job calls a contract,
  never short where jobs do. With such calls an owner's contract can leave a
  surplus behind by adding to the reward of the job being executed.
* `OnePendingPerSeries`: a recurring job never forks.
* `StaleRewardBounded`: the reward `execute_job` read is never more than the one
  the job has when its messages are done.
* `AccountsSound`, `EvictionPeriodOK`, `AlwaysCancellable`, `AlwaysEvictable`:
  an owner can have the job back, and after `t_max` any user can evict it, but
  for amounts of zero coins (the bank refuses them) and fees above the reward.
  They are stated by the guards of the handlers (`MayDelete`, `MayRequeue`,
  `MayEvict`: every condition and payment that can refuse the call); what
  else `DeleteJob`, `EvictAndRequeue` and `EvictJob` say only assigns, so a guard that
  holds is a call that succeeds.
* `ImplementsLifecycle`: the committed storage implements `JobLifecycle`.
* `OnlyRaisesStayBehind`: the surplus of the escrow grows only in a step that
  raises the reward of a job that is being executed; no other order of calls,
  failures and payments leaves a coin behind.
* `EventuallySettled`: a job not requeued on eviction is settled in the end.
* `NothingShownTwice`, `NothingPassedOver`: a reader who follows the pages of
  `query_jobs` while the handlers run is shown no job twice (because a reward is
  never lowered while a job waits) and every job that stayed as it was.
  `ShownJobsFound`: what was shown is found by its ids for good, with an owner
  who has an account, also at any moment of a transaction.

* `EachJobOnce`, `MigrationInvisible`: at every moment of a migration each id is
  in exactly one place (waiting, pending, finished), and of all of them together
  every step is one that `WarpController` takes, or none. The migrating controller
  refines the one that had its jobs from the start: nothing is brought back, reset,
  paid out of other coins or counted twice.
  `QueueCoversWaiting`, `EscrowCoversWaiting`: counter and coins also cover the
  jobs still to be copied. `AccountsUpgraded`: no account is left with the old
  code, though accounts are opened between pages. `EventuallyMigrated`.
* `AccountTypeOK` (with conservation of every asset), `WithdrawalComplete` (nothing of
  a listed coin or cw20 token stays), `AlwaysWithdrawable` (a withdrawal is never
  refused, whatever the account holds: the controller is authorized and the messages
  of its `Withdrawal` run to the end; excepted are lists that name an asset twice
  and cw721 tokens the owner has already, both of which make it fail),
  `NotBackEarly` (a transfer that was given a delta of seconds and no timeout block
  does not come back before the receiving chain's clock is that much later than
  the block it was sent in: no height ends it, and the delta is not taken for a
  date). A transfer with a block delta has no such promise.
* `IdsNeverReused`, `PagesComplete` (a reader is shown every template that was
  there all along, none twice, whatever happens between pages),
  `FeeNotSubsidized`.
* `StoredVarsValid`: `reply` puts updated variables into the next job without
  asking for their validation; they are valid nevertheless.
  `UpdatesIndependent`: update functions do not see each other's results.
  `ConditionsSound`: where evaluation from left to right comes to a value, it is
  the one the condition has whatever the expressions that were skipped or could
  not be resolved; stated of every pending job's variables and of conditions up
  to two deep. `NoReferenceLeft`: hydration in order leaves nothing that
  `hydrate_msgs` refuses. `SeriesStopsInTime`: counters count, and a series ends
  when its terminate condition says, not one execution later. `PathsFollowed`: a
  selector of fields that ends in at most one index finds what it says, or nothing;
  one with a name that is not ASCII, and no index, may fail where there is something,
  but finds nothing else.

Findings, each a run whose counterexample TLC finds:

* `QIsQueueLength`: the comment on `State.q` says "queue length"; `reply` never
  takes the executed job off, so the counter drifts up for good.
* `PendingMsgsValid`: the migrations put the old messages side by side without a
  comma, so the text of two or more is not JSON and the job cannot be executed.
* `ListedTokenWithdrawn`: a cw721 token in the account is not withdrawn, because
  its owner is compared with the account's owner.
* `NestedPathsFollowed`: a comment promises paths such as
  `$.field1.field2[0].field3`; the walk ends with the first index, and what stands
  behind it is not read.
* `ReferenceIsVariable`: a static text that refers to `total_fee` gets the value of
  an earlier `total` and "_fee" after it.

Known and not stated as properties, because the repository does not say what it
wants there: the minimum reward is compared with `a_min`, not `a_max`, so an accepted
configuration can admit jobs that cannot be evicted from a full queue
(`AlwaysEvictable` excludes them in its premise); the negation of a decimal subtracts
from an unsigned zero and always fails; a number is refused as the answer of a `Uint`
query before it is tried as a number; update functions of timestamps want a variable
of kind `Int`, so one of kind `Timestamp` has none. The models have all of these as
they are. Likewise: `valid_query` accepts an owner together with a name, where its
error says "at most one of ids, name, or owner"; `query_accounts` has no upper limit
where `query_jobs` has one; the templates' fee is zero at first, which no submission
meets. More are listed with the hazards that have a note.

## Runs

| Run | Instance | Checks |
|---|---|---|
| `jobs` | admin and owner, two account addresses, two configurations that change owner, smallest reward, fee and times, one-shot and recurring jobs of reward 2, an addition of 3, spending of 4, two jobs, under `FairSpec` | escrow to the coin, accounts, periods, cancelling and evicting, lifecycle, liveness, where jobs call no contract |
| `contracts` | both users are contracts, executions nested twice, withdrawing recurring jobs | reentrancy: types, stores, queue, escrow, series, lifecycle |
| `queue_length` | one-shot jobs | finding |
| `queries` | three jobs of reward 3 that can be raised by 2 and evicted at once, pages of one, the pending jobs or the owner's executed ones | readers |
| `migration` | two old pending jobs and a finished one, room for a new one, pages of one and two, under `FairMigrationSpec` | migration |
| `migrated_msgs` | as `migration`; the first old job has two messages | finding |
| `account` | 2 coins, one cw20, one cw721 token, lists with and without repetition, eight forms of timeouts, two chains with heights and clocks up to 3 | account |
| `listed_token` | as `account` | finding |
| `templates` | two users, two names, two denominations, fees of 0, 1 and 2, one template given, up to three ids | templates |
| `series` | ten jobs (a counter, due times, prices, inputs, orders in base64 made of assets and amounts, values that change places, division by zero, an update of another kind, references forward and to nothing), integers in -4..3, amounts up to 5, naturals up to 7, decimals of two units up to 15 units, selectors of up to three steps, with names in ASCII and not, into three sets of answers | resolver |
| `prefix_name` | a job with variables `total` and `total_fee` | finding |
| `nested_path` | as `series` | finding |

Bounds. Two jobs are enough for a job to be executed while another waits or is
executed inside it, and for `q` to reach `q_max = 2`; three for two recurrences.
Two levels of execution are enough for an execution inside another's messages, and
for failures of either. Seven or eight coins pay for two jobs with fees, or one and an
addition, and then run out, so every payment also fails somewhere. For a reader
three jobs, eleven coins and pages of one let a job be raised above the cursor,
leave the index, or enter it on either side of the cursor between two pages; with
`t_max` of zero no time needs to pass. With `MaxAge = t_max` every
comparison of ages has both outcomes. Ages, ids and depth are the only counters,
and `MaxAge`, `MaxJobs`, `MaxDepth` bound them. Three old jobs make pages of one and
two that end inside and at the end of a map, with a finished job between two pending
ones. One transfer is enough, as transfers do not meet; heights and seconds up to 3
(`MaxHeight`, `MaxTime`), of each chain, put timeouts before, at and after their time, and
either chain ahead of the other. Three template ids allow a deletion before,
at and behind the reader's cursor. Four executions (`MaxRuns`) take a counter past the
largest integer, where its update fails, and past the terminate condition; two
seconds (`MaxTime`) make due what is due after one. The two account addresses are
symmetric in `contracts` and `queries`; the runs with liveness use no symmetry.

Deadlock is checked in every run: blocks can always follow, or somebody can
always act.

Fairness (`FairSpec`, of the run `jobs`). A transaction ends, if only by running out of gas: weak
fairness of the outermost `CallFails`. Blocks keep coming: strong fairness of
`Tick`, which is disabled inside transactions. Somebody who is paid for it evicts
what can be evicted again and again: strong fairness of `Evict(id)` for each job;
strong, because transactions and top-ups interrupt it. Nothing is assumed of
owners and keepers. Top-ups cannot defer the end for ever as each costs the
owner coins, which are finite. In a migration (`FairMigrationSpec`) the operator
goes on with each store until its last page: strong fairness, as pages are given
between transactions; and a transaction ends, as above.

## Proofs

All theorems hold for any values of the constants that satisfy the named
assumptions of the modules: any users, contracts, configurations, amounts, depth of
nesting, old stores, assets and limits of pages.

`WarpController_proofs`:

* `Invariance`: `Spec => []IInv`. `IInv` says of the storage *and of the storage
  in every frame* that it is typed, that the stores partition the ids, and that
  `q` covers the pending jobs. The conjuncts need each other: taking a job off
  the queue keeps `q` a natural number only because `q` covers the pending ones;
  recurring a job under `current_job_id` is sound only because the stores hold
  the smaller ids. The frames are there because a failing call puts their storage
  back. `IInv` also says that the account of a running job exists now and in each
  storage that may be put back while it runs, which is why whoever acts is a user
  or an existing account (`ActorKnown`), and so why `create_account` gives
  accounts to users only.
* From it `TypeCorrect`, `JobsPartitioned`, `QueueCounterSufficient`.
* `PeriodBounded`: for every valid configuration and queue length the eviction
  period is within `[t_min, t_max]` and does not grow with the queue. With
  `SoundInvariance` (configurations stay valid and accounts one to one, in every
  storage that may be put back) it gives `PeriodAlwaysBounded` and
  `AccountsOneToOne`.

The proof has a lemma per handler, stated of the storage, over lemmas for the
moves of the job stores (`SettleStep`, `EnqueueStep`, `TouchStep`, `PayStep`), and
one per change of the stack (`SameStackInv`, `CutInv`, `PushInv`).

In the same module, upon these: `SeriesNeverForks`, `StaleRewardCovered`,
`ImplementsJobLifecycle`. A transaction is many steps of the controller and one of
`JobLifecycle`. `LifeInv` therefore says that every storage that may be put back
leads to the next one, and the last to the current storage, by what the lifecycle
allows (`Advances`: pending jobs stay or are settled with no lower reward, settled
ones stay). When the outermost call returns, the composition of all of it is one
step of the lifecycle; when a call fails, the chain is only cut. That the reward
read before a submessage is covered after it is the same relation, applied to the
job of the frame.

`WarpEscrow_proofs`: `EscrowCovered`, `SurplusOnlyFromRaises`, `EscrowToTheCoin`,
`OwnerCanAlwaysCancel`, `AnyoneCanAlwaysEvict`.
What the escrow owes is a sum over the pending jobs and over the frames whose
keeper is still to be paid. `EscrowInv` says of the storage of the frame `i` that
it covers what the frames below `i` owe (`OwedUpTo`), so that undoing a call
leaves the rest covered. Each handler is shown to keep the controller's free coins
(`Kept`); `reply` needs `StaleRewardCovered`, as it turns a job's reward into the
one read before. The last two theorems have one hypothesis: no configuration names
the controller itself as fee collector. It is needed: fees would then stay among
the controller's own coins, and no check of `update_config` prevents that.
`EscrowCovered` holds without it. So do the theorems that no job is locked in, where
the three invariants meet: the stores say that the job is pending, with an owner
who has an account and not among the finished ones; `q` covers it, so it can be
taken off the queue; and the escrow covers its reward, so both payments can be
made, the second after the first (`PaysTwice`).

`JobQueries_proofs`: `PagesDisjoint`, `PagesLeaveNoGap`, `ShownJobsStayFound`. A
page is the top of the keys below the cursor (`PageOfIds`, over `SortExists`: any
finite set of keys can be listed from the highest down). `ReaderInv` says that what
was shown is still in the committed storage with no lower reward (`Covered`), is at
or above the cursor and shown once; and that a steady job is shown, or is below the
cursor of a reader who goes on. A page keeps it because nothing at or above the
cursor can be on it (`ReadKeeps`); the handlers keep it because what is committed
only advances (`WatchKeeps`), which is the relation that `ImplementsJobLifecycle`
rests on. `ShownJobsStayFound` takes it on into a transaction, where the
current storage advances from the committed one, and needs `ServedInv`: the owner
of a finished job keeps the account, now and in every storage that may be put back.

`JobMigration_proofs`: `MigrationRefines`, `JobsInOnePlace`, `QueueCoversAll`,
`AllAccountsUpgraded`, `MigrationTyped`, `WaitingRewardsKept`. Nothing of the
handlers is proved twice: the module instantiates the proofs about the controller
under the refinement mapping `AllPending`, `AllFinished`, `AllStack`. `MInv` is the
invariant of that whole, and that the waiting jobs are apart from the stores, now
and in every frame. A page leaves the whole as it is; a handler of the migrating
controller is the same handler of the whole, because it never reaches for the id
of a job that waits. The assumption that old jobs have waited `MaxAge` already makes
them indifferent to the blocks that pass before their page. `WaitingRewardsKept`, with the hypothesis above,
follows from the exactness of the whole and the sum over two disjoint sets.

`WarpTemplates_proofs`: `TemplatesTyped`, `ReadersMissNothing`, `IdsGivenOnce`,
`FeeFromSubmitter`. The invariant says of a reader half way that what was shown is
at or before the cursor, and that every steady template at or before the cursor was
shown; a page has no gap after its cursor, and a short one is the last
(`SetTheorems`).

`WarpAccount_proofs`: `AccountTyped` (with conservation), `WithdrawalsComplete`,
`WithdrawalsAccepted`, `SecondsKept`. `AInv` says that ledgers are typed, that what holders
have of an asset and what is under way add up to its supply, and that a transfer with
a delta of seconds and no timeout block has no height and a time that is the delta after
it was sent, or later (`SecondsCount`); with that, one that is over by the receiving
chain's block is over by its clock. The messages of a response are
followed one by one (`RunSteps`, by induction over the positions), and each moves
without making or losing (`MessageKeeps`). A withdrawal is followed the same way:
until its message has run, account and owner have of an asset what they had
(`Stage`); a second message for the same coin cannot run, and so undoes the whole
call rather than leaving some of it behind. For a list that names each asset once,
and no cw721 token the owner has already, none is refused: until its message runs
the account still has what the message was made for (`WithdrawAccepted`).

`JobSeries_proofs`: `UpdatesKeepVarsValid`, `ConditionsNeverMisled`,
`UpdatesInAnyOrder`, `SeriesStops`, `ReferencesResolved`,
`SelectorsResolved`. What TLA+ says of a recursive function is that it
satisfies its equation if anything does. `RecursionExists` shows that something
does, from the assumption that what is nested has a lesser depth, and that gives the equations
of `NumValues` and `ResolveCond`, of the truth values a condition can have
(`PossibleTruths`) and of its expressions. With distinct names every value and every
expression comes to at most one result; of the conditions for which evaluation from
left to right does not come to the only possible truth value there would then be one
of least depth, and there is none (`AllDecided`). `JobInv` says that the job of the
series has the form and the distinct names that `create_job` checked, also after an
execution that failed with the hydrated variables, and is valid while it is pending.
It is kept because hydration changes values and queries only (`HydrateVarsSame`), and
an update writes what the kind of its variable reads (`UpdateVarSame`,
`ParseFormat`); whether names are known and fields quoted depends on nothing else.
`SeriesStops` follows a counter: the variable that refers to itself
is the only one of its name, so it is read as the number it holds, and one is added.
Its hypothesis `CountersFromZero` says that counters are submitted at 0, which is what
the count is measured from; the jobs of the run satisfy it. `ReferencesResolved`
looks at the references in a text: replacing a variable takes those to it out, and
puts in those of its value (`ReplaceInRefs`), which has none, since the variables
before it were hydrated first; so after the fold over all of them none to an earlier
variable is left. Its hypothesis `PlainFromOutside` says that references are written
in static variables only: not in inputs, in answers, or in what is left of a longer
name (the `Rest` of `prefix_name`). An input that looks like one is refused by
`hydrate_msgs`, and the keeper that gave it has only wasted its call; the jobs, inputs
and answers of the run satisfy the hypothesis. `SelectorsResolved` compares two
folds, the walk of `resolve_path` along the tokens of a path and its meaning along its
steps. What a fold has after each element is its `Course`; two courses agree as far as
the elements do (`CoursesAgree`), so that one step more adds its own: a field is
collected after the dot and taken by the next dot or at the end (`WalkField`), an
index ends the walk (`IndexResolved`). Its hypothesis `SelectorsWritable` says that the
names of fields are not empty and hold none of the marks `$ . [ ]`, which no path can
quote; the selectors of the run satisfy it. Names need not be ASCII: for a selector
that is, or has an index, the two are equal (`Readable`), and otherwise the walk, bounded
by the bytes of the path, runs out of characters, so that what is found is at most what
is meant.

`SetTheorems` and `RecursionExists` replace the induction that the prover cannot
instantiate by an argument about a smallest counterexample.

Only model-checked: the liveness properties `EventuallySettled` and
`EventuallyMigrated`, which are out of the prover's reach, and the properties of the
runs that find a violation.

## Not modelled

* Message and schema types (`packages/`, `schema/`) have no behaviour; deployment
  scripts (`tasks/`) run once, and what they deploy is among the configurations.
* The types of errors: the models tell an error from a result, not one error from
  another.
* Names, labels, descriptions and the renaming by `update_job`: the name of a job
  stands for the series it belongs to, on which `OnePendingPerSeries` rests.
* Lengths of texts, and what CosmWasm does with malformed JSON.
* In the controller model cw20 and cw721 funds of `create_account` are not told
  apart; the account model has all three kinds.

What could be added: the series of `JobSeries` inside `WarpController`, so that the
contents of variables decide over the outcomes that are choices there; for TLC that
is a product of two models of several hundred thousand states.
