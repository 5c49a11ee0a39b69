--------------------------- MODULE WarpController ---------------------------
(***************************************************************************)
(* The controller contract of Warp: jobs that wait for a condition, the    *)
(* escrow of their rewards, keepers that execute them and evictors that    *)
(* remove the ones left waiting too long.                                  *)
(*                                                                         *)
(* One action is one handler with every payment its response carries.  A   *)
(* bank payment calls nobody back, so such a handler is one step of the    *)
(* chain.  execute_job is the exception: it hands the job's messages to    *)
(* the owner's account as a submessage, and they may call the controller   *)
(* again before reply() runs.  A frame of `stack` stands for one           *)
(* execute_job that has not returned; while the stack is not empty the     *)
(* chain is inside a transaction, and CallFails undoes what a failed call  *)
(* had written.  A handler that returns Err, or a payment that fails, has  *)
(* no effect: its action is disabled.                                      *)
(***************************************************************************)
EXTENDS WarpBank, FiniteSets, Sequences, Functions

CONSTANTS
  Users,          \* addresses that are not warp accounts
  Contracts,      \* the users that are contracts: job messages can call them
  AccountAddrs,   \* addresses that instantiated warp accounts get
  Controller,     \* the controller's own address
  Configs,        \* configurations an owner may submit
  Rewards,        \* rewards of new jobs
  Additions,      \* added_reward of update_job
  Deposits,       \* funds sent along with create_account
  Spends,         \* amounts an owner spends from the account
  JobKinds,       \* what a submitted job asks for
  InitialFunds,   \* coins each user starts with
  MaxJobs,        \* bound: jobs ever created
  MaxDepth,       \* bound: nested executions
  MaxAge          \* bound: seconds a waiting job is told apart

Addresses == Users \cup AccountAddrs \cup {Controller}

Terminal == {"Executed", "Failed", "Cancelled", "Evicted"}

Kinds == [recurring : BOOLEAN, requeue_on_evict : BOOLEAN,
          terminate_condition : BOOLEAN,
          assets_to_withdraw : SUBSET {"native", "cw20"}]

ConfigType == [owner : Users, fee_collector : Addresses,
               minimum_reward : Nat,
               creation_fee_percentage : Nat,
               cancellation_fee_percentage : Nat,
               t_max : Nat, t_min : Nat, a_max : Nat, a_min : Nat, q_max : Nat]

ASSUME AddressAssumption ==
  /\ Contracts \subseteq Users
  /\ Users \cap AccountAddrs = {}
  /\ Controller \notin Users \cup AccountAddrs

ASSUME InputAssumption ==
  /\ Configs \subseteq ConfigType
  /\ Rewards \subseteq Nat /\ Additions \subseteq Nat \ {0}
  /\ Deposits \subseteq Nat /\ Spends \subseteq Nat \ {0}
  /\ JobKinds \subseteq Kinds
  /\ InitialFunds \in [Users -> Nat]

ASSUME BoundAssumption ==
  /\ MaxJobs \in Nat /\ MaxDepth \in Nat /\ MaxAge \in Nat
  /\ \A c \in Configs : c.t_max <= MaxAge

VARIABLES
  config,          \* CONFIG
  current_job_id,  \* STATE.current_job_id
  q,               \* STATE.q
  pending,         \* PENDING_JOBS
  finished,        \* FINISHED_JOBS
  accounts,        \* ACCOUNTS: owner -> address of the account contract
  balance,         \* bank balances in the fee denomination
  stack            \* executions of jobs in progress, outermost first

vars == <<config, current_job_id, q, pending, finished, accounts, balance, stack>>

\* Everything a failed call puts back.
Storage == [config |-> config, current_job_id |-> current_job_id, q |-> q,
            pending |-> pending, finished |-> finished,
            accounts |-> accounts, balance |-> balance]

Restore(s) ==
  /\ config' = s.config
  /\ current_job_id' = s.current_job_id
  /\ q' = s.q
  /\ pending' = s.pending
  /\ finished' = s.finished
  /\ accounts' = s.accounts
  /\ balance' = s.balance

\* What the chain holds for good: inside a transaction, the state before it.
Committed == IF stack = <<>> THEN Storage ELSE stack[1].before

-----------------------------------------------------------------------------
(* Jobs *)

JobIds == 1..MaxJobs

\* age: seconds since last_update_time, told apart up to MaxAge.
NewJob(owner, name, reward, kind) ==
  [owner |-> owner, name |-> name, status |-> "Pending",
   reward |-> reward, age |-> 0, kind |-> kind]

\* The times of finished jobs are not told apart.
Finish(job, status) == [job EXCEPT !.status = status, !.age = 0]

\* amount * percentage / 100 in Uint128.
Fee(amount, percentage) == (amount * percentage) \div 100

\* Variant: the fee is not taken out of what goes back.
WholeReward(job, fee) == job.reward

\* What goes back to the account of a cancelled or evicted job.
Remainder(job, fee) == job.reward - fee

\* Variant: the reward is set, not added to.
SetReward(job, added_reward, minimum_reward) ==
  [job EXCEPT !.reward = added_reward,
              !.age = IF added_reward > minimum_reward THEN 0 ELSE @]

\* Only an addition above the minimum restarts the wait for eviction.
AddReward(job, added_reward, minimum_reward) ==
  [job EXCEPT !.reward = @ + added_reward,
              !.age = IF added_reward > minimum_reward THEN 0 ELSE @]

\* The checks instantiate and update_config make of a configuration.
ValidConfig(c) ==
  /\ c.a_max >= c.a_min
  /\ c.t_max >= c.t_min
  /\ c.minimum_reward >= c.a_min
  /\ c.creation_fee_percentage <= 100
  /\ c.cancellation_fee_percentage <= 100

\* Variants: the longer the queue, the longer the wait; no cut-off at q_max.
GrowingPeriod(c, n) ==
  IF n < c.q_max
  THEN c.t_max + (n * (c.t_max - c.t_min)) \div c.q_max
  ELSE c.t_max

UncutPeriod(c, n) == c.t_max - (n * (c.t_max - c.t_min)) \div c.q_max

\* t: how long a job must have waited before it can be evicted.
EvictionPeriod(c, n) ==
  IF n < c.q_max
  THEN c.t_max - (n * (c.t_max - c.t_min)) \div c.q_max
  ELSE c.t_min

\* a: what the evictor is paid.
EvictionFee(c, n) == IF n < c.q_max THEN c.a_min ELSE c.a_max

-----------------------------------------------------------------------------
(* Who can call the controller now *)

Top == stack[Len(stack)]

\* The withdrawal of a cw20 token runs that token's code.
CallsOut(f) == f.phase = "messages" \/ f.callback

\* Between transactions anybody signs, and an owner can make the account the
\* sender.  Inside one, contracts are reached through the messages of the job,
\* with the accounts they own; the owner's account sends those messages.
MayAct(x) ==
  \/ stack = <<>> /\ x \in Users \cup Range(accounts)
  \/ /\ stack # <<>>
     /\ CallsOut(Top)
     /\ \/ x \in Contracts
        \/ \E c \in Contracts \cap DOMAIN accounts : x = accounts[c]
        \/ Top.phase = "messages" /\ x = Top.account

-----------------------------------------------------------------------------
(* Accounts *)

\* Variant: the index of account addresses is not looked at.
NeverAccount(x) == FALSE

IsAccount(x) == x \in Range(accounts)

HasAccount(x) == IsAccount(x) \/ x \in DOMAIN accounts

\* create_job looks the sender up as an account first, then as an owner.
OwnerOf(x) ==
  IF IsAccount(x) THEN CHOOSE o \in DOMAIN accounts : accounts[o] = x ELSE x

\* create_account of a sender that has none: instantiate the account contract
\* with the funds; reply() saves it.
OpenAccount(sender, amount, addr) ==
  /\ MayAct(sender)
  /\ ~IsAccount(sender)
  /\ sender \notin DOMAIN accounts
  /\ ~IsAccount(addr)
  /\ IF amount = 0
     THEN UNCHANGED balance
     ELSE /\ Affords(balance, Payment(sender, addr, amount))
          /\ balance' = After(balance, Payment(sender, addr, amount))
  /\ accounts' = Save(accounts, sender, addr)
  /\ UNCHANGED <<config, current_job_id, q, pending, finished, stack>>

\* create_account of an owner: forward the funds to the account.
FundAccount(sender, amount) ==
  LET deposit == Payment(sender, accounts[sender], amount) IN
  /\ MayAct(sender)
  /\ ~IsAccount(sender)
  /\ sender \in DOMAIN accounts
  /\ Affords(balance, deposit)
  /\ balance' = After(balance, deposit)
  /\ UNCHANGED <<config, current_job_id, q, pending, finished, accounts, stack>>

\* A Generic message by which the owner, or a job of the owner, spends from
\* the account.
SpendFromAccount(owner, to, amount) ==
  LET payment == Payment(accounts[owner], to, amount) IN
  /\ MayAct(accounts[owner])
  /\ Affords(balance, payment)
  /\ balance' = After(balance, payment)
  /\ UNCHANGED <<config, current_job_id, q, pending, finished, accounts, stack>>

-----------------------------------------------------------------------------
(* The job stores *)

\* Variant: the job stays in PENDING_JOBS.
LeftPending(s, id) == s.pending

WithoutJob(s, id) == Remove(s.pending, id)

\* Variant: the new job is not counted.
EnqueueUncounted(s, jobs, job) ==
  /\ s.current_job_id <= MaxJobs
  /\ s.current_job_id \notin DOMAIN jobs
  /\ pending' = Save(jobs, s.current_job_id, job)
  /\ current_job_id' = s.current_job_id + 1
  /\ q' = s.q

\* A new pending job under the next id; JobAlreadyExists if that id is taken.
Enqueue(s, jobs, job) ==
  /\ s.current_job_id <= MaxJobs
  /\ s.current_job_id \notin DOMAIN jobs
  /\ pending' = Save(jobs, s.current_job_id, job)
  /\ current_job_id' = s.current_job_id + 1
  /\ q' = s.q + 1

\* checked_sub fails at zero.
CanLeaveQueue == q >= 1

\* Variant: the job is not saved among the finished ones.
SettleUnsaved(id, status) ==
  /\ CanLeaveQueue
  /\ pending' = WithoutJob(Storage, id)
  /\ finished' = finished
  /\ q' = q - 1

\* Pending to finished, off the queue.
Settle(id, status) ==
  /\ CanLeaveQueue
  /\ pending' = WithoutJob(Storage, id)
  /\ finished' = Save(finished, id, Finish(pending[id], status))
  /\ q' = q - 1

\* What the controller pays out of a reward: a fee, and what is left of it.
Refund(owner, job, fee) == Payment(Controller, accounts[owner], Remainder(job, fee))
Charge(collector, fee) == Payment(Controller, collector, fee)

-----------------------------------------------------------------------------
(* Jobs: create, delete, update *)

CreateJob(sender, reward, kind) ==
  LET owner == OwnerOf(sender)
      account == accounts[owner]
      escrow == Payment(account, Controller, reward)
      fee == Payment(account, config.fee_collector,
                     Fee(reward, config.creation_fee_percentage))
  IN
  /\ MayAct(sender)
  /\ reward >= config.minimum_reward /\ reward # 0
  /\ HasAccount(sender)
  /\ AffordsBoth(balance, escrow, fee)
  /\ Enqueue(Storage, pending, NewJob(owner, current_job_id, reward, kind))
  /\ balance' = AfterBoth(balance, escrow, fee)
  /\ UNCHANGED <<config, finished, accounts, stack>>

CancellationFee(id) == Fee(pending[id].reward, config.cancellation_fee_percentage)

MayDelete(sender, id) ==
  LET job == pending[id]
      fee == CancellationFee(id)
  IN
  /\ MayAct(sender)
  /\ id \in DOMAIN pending
  /\ job.status = "Pending"
  /\ job.owner = sender
  /\ sender \in DOMAIN accounts
  /\ id \notin DOMAIN finished /\ CanLeaveQueue
  /\ AffordsBoth(balance, Refund(sender, job, fee), Charge(config.fee_collector, fee))

DeleteJob(sender, id) ==
  LET fee == CancellationFee(id) IN
  /\ MayDelete(sender, id)
  /\ Settle(id, "Cancelled")
  /\ balance' = AfterBoth(balance, Refund(sender, pending[id], fee),
                          Charge(config.fee_collector, fee))
  /\ UNCHANGED <<config, current_job_id, accounts, stack>>

\* Without added_reward the handler changes texts only.
UpdateJob(sender, id, added_reward) ==
  LET job == pending[id]
      account == accounts[sender]
      fee == Fee(added_reward, config.creation_fee_percentage)
      escrow == Payment(account, Controller, added_reward)
      charge == Payment(account, config.fee_collector, fee)
  IN
  /\ MayAct(sender)
  /\ id \in DOMAIN pending
  /\ job.owner = sender
  /\ sender \in DOMAIN accounts
  /\ fee # 0
  /\ AffordsBoth(balance, escrow, charge)
  /\ pending' = Save(pending, id, AddReward(job, added_reward, config.minimum_reward))
  /\ balance' = AfterBoth(balance, escrow, charge)
  /\ UNCHANGED <<config, current_job_id, q, finished, accounts, stack>>

-----------------------------------------------------------------------------
(* Execution *)

CanExecute(keeper, id) ==
  /\ MayAct(keeper)
  /\ id \in DOMAIN pending
  /\ pending[id].owner \in DOMAIN accounts
  /\ keeper \in DOMAIN accounts
  /\ pending[id].status = "Pending"

\* execute_job of a job whose condition cannot be evaluated.
ExecuteInvalidJob(keeper, id) ==
  LET reward == Payment(Controller, accounts[keeper], pending[id].reward) IN
  /\ CanExecute(keeper, id)
  /\ Affords(balance, reward)
  /\ Settle(id, "Failed")
  /\ balance' = After(balance, reward)
  /\ UNCHANGED <<config, current_job_id, accounts, stack>>

\* execute_job of a job whose condition holds, up to the submessage.  The
\* reward message is already made, with the reward read here.
ExecuteJob(keeper, id) ==
  /\ CanExecute(keeper, id)
  /\ Len(stack) < MaxDepth
  /\ stack' = Append(stack,
       [id |-> id, account |-> accounts[pending[id].owner],
        keeper |-> accounts[keeper], reward |-> pending[id].reward,
        phase |-> "messages", callback |-> FALSE, before |-> Storage])
  /\ UNCHANGED <<config, current_job_id, q, pending, finished, accounts, balance>>

\* Whether reply() creates the next job of a recurring one.
Recurs(s, job, terminates) ==
  /\ job.kind.recurring
  /\ s.balance[s.accounts[job.owner]] >=
       Fee(job.reward, s.config.creation_fee_percentage) + job.reward
  /\ ~terminates

\* WithdrawAssets of the account, for the fee denomination.
WithdrawNative(b, job, account) ==
  IF "native" \in job.kind.assets_to_withdraw /\ b[account] > 0
  THEN After(b, Payment(account, job.owner, b[account]))
  ELSE b

\* reply() for frame i, from storage s: the job moves to the finished ones and
\* a recurring one starts over under the next id.
JobReply(i, s, status, terminates) ==
  LET id == stack[i].id
      job == s.pending[id]
      account == s.accounts[job.owner]
      fee == Payment(account, s.config.fee_collector,
                     Fee(job.reward, s.config.creation_fee_percentage))
      escrow == Payment(account, Controller, job.reward)
      recurs == Recurs(s, job, terminates)
  IN
  /\ id \in DOMAIN s.pending
  /\ id \notin DOMAIN s.finished
  /\ terminates => job.kind.terminate_condition
  /\ finished' = Save(s.finished, id, Finish(job, status))
  /\ IF recurs
     THEN /\ AffordsBoth(s.balance, fee, escrow)
          /\ Enqueue(s, WithoutJob(s, id),
                     NewJob(job.owner, job.name, job.reward, job.kind))
          /\ balance' = WithdrawNative(AfterBoth(s.balance, fee, escrow), job, account)
     ELSE /\ pending' = WithoutJob(s, id)
          /\ current_job_id' = s.current_job_id
          /\ q' = s.q
          /\ balance' = s.balance
  /\ stack' = Append(SubSeq(stack, 1, i - 1),
       [stack[i] EXCEPT !.phase = "replied",
                        !.callback = recurs /\ "cw20" \in job.kind.assets_to_withdraw])
  /\ config' = s.config
  /\ accounts' = s.accounts

JobSucceeds(terminates) ==
  /\ stack # <<>>
  /\ Top.phase = "messages"
  /\ JobReply(Len(stack), Storage, "Executed", terminates)

\* A message of frame i fails: what the submessage wrote is undone, the frames
\* above go with it, and reply() gets the error.
JobFails(i, terminates) ==
  /\ i \in DOMAIN stack
  /\ stack[i].phase = "messages"
  /\ JobReply(i, stack[i].before, "Failed", terminates)

\* The message after the submessage: the reward to the keeper's account.
PayKeeper ==
  LET reward == Payment(Controller, Top.keeper, Top.reward) IN
  /\ stack # <<>>
  /\ Top.phase = "replied"
  /\ Affords(balance, reward)
  /\ balance' = After(balance, reward)
  /\ stack' = SubSeq(stack, 1, Len(stack) - 1)
  /\ UNCHANGED <<config, current_job_id, q, pending, finished, accounts>>

\* An execute_job fails after it has begun: an error of reply() or of a later
\* message, or no gas left.  Of the outermost one, the transaction fails; of a
\* nested one, the contract that called it handles the error.
CallFails(i) ==
  /\ i \in DOMAIN stack
  /\ Restore(stack[i].before)
  /\ stack' = SubSeq(stack, 1, i - 1)

-----------------------------------------------------------------------------
(* Eviction *)

Evictable(id) ==
  /\ id \in DOMAIN pending
  /\ pending[id].owner \in DOMAIN accounts
  /\ pending[id].status = "Pending"
  /\ pending[id].age >= EvictionPeriod(config, q)

\* Its owner asked for it, and the account has the fee.
Requeued(id) ==
  /\ pending[id].kind.requeue_on_evict
  /\ balance[accounts[pending[id].owner]] >= EvictionFee(config, q)

\* The owner's account pays for another period of waiting.
RequeueCharge(sender, id) ==
  Payment(accounts[pending[id].owner], sender, EvictionFee(config, q))

MayRequeue(sender, id) ==
  /\ MayAct(sender)
  /\ Evictable(id)
  /\ Requeued(id)
  /\ Affords(balance, RequeueCharge(sender, id))

EvictAndRequeue(sender, id) ==
  /\ MayRequeue(sender, id)
  /\ pending' = Save(pending, id, [pending[id] EXCEPT !.age = 0])
  /\ balance' = After(balance, RequeueCharge(sender, id))
  /\ UNCHANGED <<config, current_job_id, q, finished, accounts, stack>>

MayEvict(sender, id) ==
  LET job == pending[id]
      fee == EvictionFee(config, q)
  IN
  /\ MayAct(sender)
  /\ Evictable(id)
  /\ ~Requeued(id)
  /\ id \notin DOMAIN finished /\ CanLeaveQueue
  /\ AffordsBoth(balance, Charge(sender, fee), Refund(job.owner, job, fee))

EvictJob(sender, id) ==
  LET job == pending[id]
      fee == EvictionFee(config, q)
  IN
  /\ MayEvict(sender, id)
  /\ Settle(id, "Evicted")
  /\ balance' = AfterBoth(balance, Charge(sender, fee), Refund(job.owner, job, fee))
  /\ UNCHANGED <<config, current_job_id, accounts, stack>>

-----------------------------------------------------------------------------
(* Configuration and time *)

UpdateConfig(sender, new) ==
  /\ MayAct(sender)
  /\ sender = config.owner
  /\ ValidConfig(new)
  /\ config' = new
  /\ UNCHANGED <<current_job_id, q, pending, finished, accounts, balance, stack>>

\* A block later; time stands still inside a transaction.
Older(job) == [job EXCEPT !.age = IF @ < MaxAge THEN @ + 1 ELSE @]

Tick ==
  /\ stack = <<>>
  /\ pending' = [id \in DOMAIN pending |-> Older(pending[id])]
  /\ UNCHANGED <<config, current_job_id, q, finished, accounts, balance, stack>>

-----------------------------------------------------------------------------
(* Specification *)

Init ==
  /\ config \in {c \in Configs : ValidConfig(c)}
  /\ current_job_id = 1
  /\ q = 0
  /\ pending = EmptyMap
  /\ finished = EmptyMap
  /\ accounts = EmptyMap
  /\ balance = [x \in Addresses |-> IF x \in Users THEN InitialFunds[x] ELSE 0]
  /\ stack = <<>>

Senders == Users \cup AccountAddrs

AccountStep ==
  \E sender \in Senders :
    \/ \E amount \in Deposits, addr \in AccountAddrs : OpenAccount(sender, amount, addr)
    \/ \E amount \in Deposits : FundAccount(sender, amount)

SpendStep ==
  \E owner \in DOMAIN accounts, to \in Users, amount \in Spends :
    SpendFromAccount(owner, to, amount)

JobStep ==
  \E sender \in Senders :
    \/ \E reward \in Rewards, kind \in JobKinds : CreateJob(sender, reward, kind)
    \/ \E id \in JobIds : DeleteJob(sender, id)
    \/ \E id \in JobIds, added_reward \in Additions : UpdateJob(sender, id, added_reward)

ExecuteStep ==
  \/ \E keeper \in Senders, id \in JobIds :
       ExecuteInvalidJob(keeper, id) \/ ExecuteJob(keeper, id)
  \/ \E terminates \in BOOLEAN :
       \/ JobSucceeds(terminates)
       \/ \E i \in DOMAIN stack : JobFails(i, terminates)
  \/ PayKeeper
  \/ \E i \in DOMAIN stack : CallFails(i)

EvictStep ==
  \E sender \in Senders, id \in JobIds :
    EvictAndRequeue(sender, id) \/ EvictJob(sender, id)

ConfigStep == \E sender \in Users, new \in Configs : UpdateConfig(sender, new)

Next ==
  \/ AccountStep
  \/ SpendStep
  \/ JobStep
  \/ ExecuteStep
  \/ EvictStep
  \/ ConfigStep
  \/ Tick

Spec == Init /\ [][Next]_vars

-----------------------------------------------------------------------------
(* Invariants.  The ones about storage are stated of a storage record, so   *)
(* that they also say what a rolled-back call returns to.                   *)

JobType == [owner : Addresses, name : JobIds, status : {"Pending"} \cup Terminal,
            reward : Nat, age : 0..MaxAge, kind : Kinds]

StorageOK(s) ==
  /\ s.config \in ConfigType
  /\ s.current_job_id \in 1..(MaxJobs + 1) /\ s.q \in Nat
  /\ IsMap(s.pending, JobIds, JobType) /\ IsMap(s.finished, JobIds, JobType)
  /\ IsMap(s.accounts, Users, AccountAddrs)
  /\ s.balance \in [Addresses -> Nat]

FrameOK(f) ==
  /\ f.id \in JobIds
  /\ f.account \in AccountAddrs /\ f.keeper \in AccountAddrs
  /\ f.reward \in Nat
  /\ f.phase \in {"messages", "replied"} /\ f.callback \in BOOLEAN
  /\ StorageOK(f.before)

\* Every variable, and every storage a failing call would go back to, has its
\* type; in particular no balance and no counter is ever negative.
TypeOK ==
  /\ StorageOK(Storage)
  /\ stack \in Seq(Range(stack)) /\ Len(stack) <= MaxDepth
  /\ \A i \in DOMAIN stack : FrameOK(stack[i])

StoresPartition(s) ==
  /\ DOMAIN s.pending \cap DOMAIN s.finished = {}
  /\ DOMAIN s.pending \cup DOMAIN s.finished = 1..(s.current_job_id - 1)
  /\ \A id \in DOMAIN s.pending :
       s.pending[id].status = "Pending" /\ s.pending[id].owner \in DOMAIN s.accounts
  /\ \A id \in DOMAIN s.finished : s.finished[id].status \in Terminal

\* No job is lost and none is in both maps: the ids given out are exactly the
\* pending and the finished jobs, and the owner of a pending job has an account.
\* The handlers that move a job rely on it (JobAlreadyFinished,
\* JobAlreadyExists, and the save without a check in execute_job).
StoresPartitionIds == StoresPartition(Storage)

QueueCovers(s) == s.q >= Cardinality(DOMAIN s.pending)

\* STATE.q is at least the number of pending jobs, so that checked_sub in
\* delete_job, execute_job and evict_job never refuses to let a job go.
QueueCounterCovers == QueueCovers(Storage)

\* What the comment on State.q says: it is the length of the queue.
QIsQueueLength == stack = <<>> => q = Cardinality(DOMAIN pending)

Escrowed(jobs) == SumFunctionOnSet([id \in DOMAIN jobs |-> jobs[id].reward], DOMAIN jobs)

\* Rewards of executions whose job has left the pending ones but whose keeper
\* is not paid yet.
OwedBy(frames) ==
  LET replied == {i \in DOMAIN frames : frames[i].phase = "replied"} IN
  SumFunctionOnSet([i \in replied |-> frames[i].reward], replied)

Owed == OwedBy(stack)

\* The controller holds the reward of every pending job and of every keeper to
\* be paid, also between the steps of a transaction in which job messages call
\* back into the controller.
EscrowCovers == balance[Controller] >= Escrowed(pending) + Owed

\* Where no job can call a contract the escrow is exact: create_job,
\* update_job and recurrence bring in what delete_job, execute_job and
\* evict_job pay out, to the coin.
EscrowExact == Contracts = {} => balance[Controller] = Escrowed(pending) + Owed

Surplus(s, frames) == s.balance[Controller] - Escrowed(s.pending) - OwedBy(frames)

\* Where jobs call contracts, coins stay behind in the controller for one reason
\* only: the reward was raised while the job was executed, and the keeper gets
\* the one that execute_job read before.  No other step, nested or not, takes in
\* more or less than it pays or keeps in escrow; one that fails gives back what
\* was there before the call.
OnlyRaisesStayBehind ==
  [][LET now == Surplus(Storage, stack)
         next == Surplus(Storage', stack')
     IN \/ next = now
        \/ /\ stack # <<>> /\ Len(stack') = Len(stack)
           /\ Top.id \in DOMAIN pending \ DOMAIN pending'
           /\ next - now = pending[Top.id].reward - Top.reward
        \/ \E i \in DOMAIN stack :
             /\ Len(stack') <= i
             /\ next = Surplus(stack[i].before, SubSeq(stack, 1, i - 1))]_vars

\* A recurring job never forks: of the jobs that reply() made from one
\* submitted job (they keep its name), at most one is pending, however often
\* executions of it are nested or fail.
OnePendingPerSeries ==
  \A i, j \in DOMAIN pending : pending[i].name = pending[j].name => i = j

\* No account has two owners and no account owns one, so create_job finds one
\* owner whichever way it looks the sender up.
AccountsSound ==
  /\ IsInjective(accounts)
  /\ DOMAIN accounts \cap Range(accounts) = {}

\* The owner of a pending job can always have it back: delete_job succeeds
\* unless a payment would be of zero coins.  MayDelete has all that can refuse
\* the call; what is left of DeleteJob assigns.
AlwaysCancellable ==
  stack = <<>> =>
    \A id \in DOMAIN pending :
      CancellationFee(id) \in 1..(pending[id].reward - 1)
        => MayDelete(pending[id].owner, id)

\* After t_max any user can evict a pending job or have it requeued, unless a
\* payment would be of zero coins or the fee exceeds the reward.
AlwaysEvictable ==
  stack = <<>> =>
    \A id \in DOMAIN pending, sender \in Users :
      /\ pending[id].age >= config.t_max
      /\ EvictionFee(config, q) \in 1..(pending[id].reward - 1)
      => MayRequeue(sender, id) \/ MayEvict(sender, id)

PeriodOK(c, n) ==
  /\ c.t_min <= EvictionPeriod(c, n) /\ EvictionPeriod(c, n) <= c.t_max
  /\ EvictionPeriod(c, n + 1) <= EvictionPeriod(c, n)

\* The waiting time never leaves [t_min, t_max], whatever the configuration has
\* been changed to, and a longer queue never makes a job wait longer: the
\* subtractions in evict_job do not underflow.
EvictionPeriodOK == \A n \in 0..(config.q_max + 1) : PeriodOK(config, n)

\* The reward that execute_job read before the submessage is never more than
\* the controller holds for the job while its messages run, although the owner
\* can add to the reward or settle the job meanwhile.
StaleRewardBounded ==
  \A i \in DOMAIN stack :
    stack[i].phase = "messages" /\ stack[i].id \in DOMAIN pending
      => stack[i].reward <= pending[stack[i].id].reward

-----------------------------------------------------------------------------
(* The promise to a job's owner, and its implementation: JobLifecycle over  *)
(* the committed storage.                                                   *)

LifecycleStatus ==
  [id \in JobIds |->
     IF id \in DOMAIN Committed.pending THEN "Pending"
     ELSE IF id \in DOMAIN Committed.finished THEN Committed.finished[id].status
     ELSE "None"]

LifecycleReward ==
  [id \in JobIds |->
     IF id \in DOMAIN Committed.pending THEN Committed.pending[id].reward
     ELSE IF id \in DOMAIN Committed.finished THEN Committed.finished[id].reward
     ELSE 0]

Lifecycle == INSTANCE JobLifecycle WITH
  Jobs <- JobIds, status <- LifecycleStatus, reward <- LifecycleReward

ImplementsLifecycle == Lifecycle!Spec

-----------------------------------------------------------------------------
(* Liveness.  Every transaction ends, if only by running out of gas; blocks *)
(* keep coming between transactions; and evictors, who are paid, evict what *)
(* they can evict again and again.                                          *)

Evict(id) == \E sender \in Users : EvictAndRequeue(sender, id) \/ EvictJob(sender, id)

Fairness ==
  /\ WF_vars(1 \in DOMAIN stack /\ CallFails(1))
  /\ SF_vars(Tick)
  /\ \A id \in JobIds : SF_vars(Evict(id))

FairSpec == Spec /\ Fairness

\* A job whose owner did not ask for requeueing does not wait for ever: it is
\* executed, cancelled or evicted, whatever else its owner, keepers and failing
\* transactions do.
EventuallySettled ==
  \A id \in JobIds :
    /\ id \in DOMAIN Committed.pending
    /\ ~Committed.pending[id].kind.requeue_on_evict
    ~> id \in DOMAIN Committed.finished
=============================================================================
