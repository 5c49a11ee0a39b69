----------------------- MODULE WarpController_proofs -----------------------
(***************************************************************************)
(* Proofs about WarpController, for every value of its constants.          *)
(*                                                                         *)
(* The inductive invariant says of the storage, and of every storage that  *)
(* a failing call would put back, that it has its type, that the two job   *)
(* stores share out the ids given out, and that q counts at least the      *)
(* pending jobs.  The three are proved together: a job can be taken off    *)
(* the queue only because it is pending and q counts it, and it can be     *)
(* recurred under the next id only because no store holds that id.         *)
(***************************************************************************)
EXTENDS WarpController, FiniteSetTheorems, SequenceTheorems, TLAPS

StorageInv(s) == StorageOK(s) /\ StoresPartition(s) /\ QueueCovers(s)

\* The account of a running job is known, now and in every storage that a
\* failure of a call above it puts back.
FrameInv(i) ==
  /\ FrameOK(stack[i])
  /\ StorageInv(stack[i].before)
  /\ stack[i].account \in Range(accounts)
  /\ \A j \in DOMAIN stack : i <= j => stack[i].account \in Range(stack[j].before.accounts)

StackOK ==
  /\ stack \in Seq(Range(stack))
  /\ Len(stack) <= MaxDepth

IInv ==
  /\ StorageInv(Storage)
  /\ StackOK
  /\ \A i \in DOMAIN stack : FrameInv(i)

-----------------------------------------------------------------------------
(* Lemmas about payments and jobs *)

\* A payment the payer can afford leaves no balance negative.
LEMMA AfterPayment ==
  ASSUME NEW b \in [Addresses -> Nat], NEW from \in Addresses, NEW to \in Addresses,
         NEW amount \in Int, Affords(b, Payment(from, to, amount))
  PROVE  After(b, Payment(from, to, amount)) \in [Addresses -> Nat]
  BY DEF Affords, After, Payment

\* Neither do two of them.
LEMMA AfterBothPayments ==
  ASSUME NEW b \in [Addresses -> Nat],
         NEW from \in Addresses, NEW to \in Addresses, NEW amount \in Int,
         NEW from2 \in Addresses, NEW to2 \in Addresses, NEW amount2 \in Int,
         AffordsBoth(b, Payment(from, to, amount), Payment(from2, to2, amount2))
  PROVE  AfterBoth(b, Payment(from, to, amount), Payment(from2, to2, amount2))
           \in [Addresses -> Nat]
  <1>1. After(b, Payment(from, to, amount)) \in [Addresses -> Nat]
    BY AfterPayment DEF AffordsBoth
  <1>. QED
    BY <1>1, AfterPayment DEF AffordsBoth, AfterBoth

\* A fee is a number of coins.
LEMMA FeeType ==
  ASSUME NEW amount \in Nat, NEW percentage \in Nat
  PROVE  Fee(amount, percentage) \in Nat
  <1>1. amount * percentage \in Nat
    OBVIOUS
  <1>. QED
    BY <1>1 DEF Fee

\* What the handlers make of a job is a job again.
LEMMA JobTypes ==
  ASSUME NEW job \in JobType
  PROVE  /\ \A status \in Terminal :
              Finish(job, status) \in JobType /\ Finish(job, status).status = status
         /\ \A added \in Nat, minimum \in Nat :
              /\ AddReward(job, added, minimum) \in JobType
              /\ AddReward(job, added, minimum).status = job.status
              /\ AddReward(job, added, minimum).owner = job.owner
         /\ [job EXCEPT !.age = 0] \in JobType
         /\ Older(job) \in JobType /\ Older(job).status = job.status
         /\ Older(job).owner = job.owner
  <1>1. 0 \in 0..MaxAge /\ job.age \in 0..MaxAge /\ MaxAge \in Nat
    BY BoundAssumption DEF JobType
  <1>2. \A status \in Terminal :
          Finish(job, status) \in JobType /\ Finish(job, status).status = status
    BY <1>1 DEF JobType, Finish
  <1>3. ASSUME NEW added \in Nat, NEW minimum \in Nat
        PROVE  /\ AddReward(job, added, minimum) \in JobType
               /\ AddReward(job, added, minimum).status = job.status
               /\ AddReward(job, added, minimum).owner = job.owner
    <2>1. job.reward + added \in Nat
      BY DEF JobType
    <2>2. (IF added > minimum THEN 0 ELSE job.age) \in 0..MaxAge
      BY <1>1
    <2>. QED
      BY <2>1, <2>2 DEF JobType, AddReward
  <1>4. [job EXCEPT !.age = 0] \in JobType
    BY <1>1 DEF JobType
  <1>5. /\ Older(job) \in JobType /\ Older(job).status = job.status
        /\ Older(job).owner = job.owner
    BY <1>1 DEF JobType, Older
  <1>. QED
    BY <1>2, <1>3, <1>4, <1>5

\* So is a new one.
LEMMA NewJobType ==
  ASSUME NEW owner \in Addresses, NEW name \in JobIds, NEW reward \in Nat,
         NEW kind \in Kinds
  PROVE  /\ NewJob(owner, name, reward, kind) \in JobType
         /\ NewJob(owner, name, reward, kind).status = "Pending"
         /\ NewJob(owner, name, reward, kind).owner = owner
  BY BoundAssumption DEF JobType, NewJob

\* The stores are finite.
LEMMA FiniteStores ==
  ASSUME NEW s, StorageOK(s)
  PROVE  /\ IsFiniteSet(DOMAIN s.pending)
         /\ Cardinality(DOMAIN s.pending) \in Nat
  <1>1. IsFiniteSet(JobIds)
    BY BoundAssumption, FS_Interval DEF JobIds
  <1>2. DOMAIN s.pending \subseteq JobIds
    BY DEF StorageOK, IsMap
  <1>. QED
    BY <1>1, <1>2, FS_Subset, FS_CardinalityType

-----------------------------------------------------------------------------
(* Steps of the job stores *)

\* The facts about the current storage that StorageInv packs into a record.
Stores ==
  /\ config \in ConfigType
  /\ current_job_id \in 1..(MaxJobs + 1) /\ q \in Nat
  /\ IsMap(pending, JobIds, JobType) /\ IsMap(finished, JobIds, JobType)
  /\ IsMap(accounts, Users, AccountAddrs)
  /\ balance \in [Addresses -> Nat]
  /\ DOMAIN pending \cap DOMAIN finished = {}
  /\ DOMAIN pending \cup DOMAIN finished = 1..(current_job_id - 1)
  /\ \A id \in DOMAIN pending :
       pending[id].status = "Pending" /\ pending[id].owner \in DOMAIN accounts
  /\ \A id \in DOMAIN finished : finished[id].status \in Terminal
  /\ q >= Cardinality(DOMAIN pending)

\* StorageInv of the current storage, now and in the next state, in terms of
\* the variables.
LEMMA StoresIsStorageInv == (StorageInv(Storage) <=> Stores) /\ (StorageInv(Storage)' <=> Stores')
  BY DEF StorageInv, StorageOK, StoresPartition, QueueCovers, Storage, Stores

\* Settle moves one pending job to the finished ones and takes it off q.
LEMMA SettleStep ==
  ASSUME StorageInv(Storage), NEW id \in DOMAIN pending, NEW status \in Terminal,
         Settle(id, status), balance' \in [Addresses -> Nat],
         UNCHANGED <<config, current_job_id, accounts>>
  PROVE  StorageInv(Storage)'
  <1>1. Stores
    BY StoresIsStorageInv
  <1>2. pending[id] \in JobType
    BY <1>1 DEF Stores, IsMap
  <1>3. /\ IsMap(pending', JobIds, JobType)
        /\ DOMAIN pending' = DOMAIN pending \ {id}
        /\ \A x \in DOMAIN pending' : pending'[x] = pending[x]
    BY <1>1 DEF Settle, WithoutJob, Storage, Stores, Remove, IsMap, CanLeaveQueue
  <1>4. /\ IsMap(finished', JobIds, JobType)
        /\ DOMAIN finished' = DOMAIN finished \cup {id}
        /\ finished'[id].status = status
        /\ \A x \in DOMAIN finished : x # id => finished'[x] = finished[x]
    <2>1. Finish(pending[id], status) \in JobType /\ Finish(pending[id], status).status = status
      BY <1>2, JobTypes
    <2>2. finished' = Save(finished, id, Finish(pending[id], status))
      BY DEF Settle, CanLeaveQueue
    <2>3. id \in JobIds /\ IsMap(finished, JobIds, JobType)
      BY <1>1 DEF Stores, IsMap
    <2>. QED
      BY <2>1, <2>2, <2>3 DEF Save, IsMap
  <1>5. q' \in Nat /\ q' = q - 1
    BY <1>1 DEF Settle, Stores, CanLeaveQueue
  <1>6. Cardinality(DOMAIN pending') = Cardinality(DOMAIN pending) - 1
    BY <1>3, FiniteStores, FS_RemoveElement DEF StorageInv, Storage
  <1>7. q' >= Cardinality(DOMAIN pending')
    BY <1>1, <1>5, <1>6, FiniteStores DEF Stores, StorageInv, Storage
  <1>8. DOMAIN pending' \cup DOMAIN finished' = 1..(current_job_id' - 1)
    BY <1>1, <1>3, <1>4 DEF Stores
  <1>9. Stores'
    BY <1>1, <1>3, <1>4, <1>5, <1>7, <1>8 DEF Stores
  <1>. QED
    BY <1>9, StoresIsStorageInv

\* Enqueue, from a storage s that holds the invariant or from one that has
\* just lost a pending job to the finished ones, gives out the next id.
LEMMA EnqueueStep ==
  ASSUME NEW s, StorageInv(s), NEW jobs, NEW job \in JobType,
         IsMap(jobs, JobIds, JobType), DOMAIN jobs \subseteq DOMAIN s.pending,
         \A id \in DOMAIN jobs : jobs[id] = s.pending[id],
         Enqueue(s, jobs, job)
  PROVE  /\ IsMap(pending', JobIds, JobType)
         /\ DOMAIN pending' = DOMAIN jobs \cup {s.current_job_id}
         /\ pending'[s.current_job_id] = job
         /\ \A id \in DOMAIN jobs : pending'[id] = s.pending[id]
         /\ s.current_job_id \in JobIds
         /\ s.current_job_id \notin DOMAIN s.pending \cup DOMAIN s.finished
         /\ current_job_id' = s.current_job_id + 1
         /\ current_job_id' \in 1..(MaxJobs + 1)
         /\ q' = s.q + 1
         /\ IsFiniteSet(DOMAIN jobs)
         /\ Cardinality(DOMAIN pending') = Cardinality(DOMAIN jobs) + 1
  <1>1. s.current_job_id \in JobIds /\ s.current_job_id \in Nat
    BY BoundAssumption DEF Enqueue, StorageInv, StorageOK, JobIds
  <1>2. s.current_job_id \notin DOMAIN s.pending \cup DOMAIN s.finished
    BY <1>1 DEF StorageInv, StoresPartition
  <1>3. /\ IsMap(pending', JobIds, JobType)
        /\ DOMAIN pending' = DOMAIN jobs \cup {s.current_job_id}
        /\ pending'[s.current_job_id] = job
        /\ \A id \in DOMAIN jobs : pending'[id] = s.pending[id]
    <2>1. pending' = Save(jobs, s.current_job_id, job)
      BY DEF Enqueue
    <2>2. s.current_job_id \notin DOMAIN jobs
      BY <1>2
    <2>. QED
      BY <1>1, <2>1, <2>2 DEF Save, IsMap
  <1>4. IsFiniteSet(DOMAIN jobs)
    BY FiniteStores, FS_Subset DEF StorageInv
  <1>5. Cardinality(DOMAIN pending') = Cardinality(DOMAIN jobs) + 1
    BY <1>2, <1>3, <1>4, FS_AddElement
  <1>6. current_job_id' = s.current_job_id + 1 /\ q' = s.q + 1
    BY DEF Enqueue
  <1>7. current_job_id' \in 1..(MaxJobs + 1)
    BY <1>1, <1>6, BoundAssumption DEF JobIds
  <1>. QED
    BY <1>1, <1>2, <1>3, <1>4, <1>5, <1>6, <1>7

\* A step that changes pending jobs in place, and neither who owns them nor
\* that they are pending, keeps the invariant.
LEMMA TouchStep ==
  ASSUME StorageInv(Storage),
         pending' \in [DOMAIN pending -> JobType],
         \A id \in DOMAIN pending :
           pending'[id].status = pending[id].status /\ pending'[id].owner = pending[id].owner,
         balance' \in [Addresses -> Nat],
         UNCHANGED <<config, current_job_id, q, finished, accounts>>
  PROVE  StorageInv(Storage)'
  <1>1. Stores
    BY StoresIsStorageInv
  <1>2. DOMAIN pending' = DOMAIN pending
    OBVIOUS
  <1>3. IsMap(pending', JobIds, JobType)
    BY <1>1, <1>2 DEF Stores, IsMap
  <1>4. Stores'
    BY <1>1, <1>2, <1>3 DEF Stores
  <1>. QED
    BY <1>4, StoresIsStorageInv

\* So does a step that only moves coins.
LEMMA PayStep ==
  ASSUME StorageInv(Storage), balance' \in [Addresses -> Nat],
         UNCHANGED <<config, current_job_id, q, pending, finished, accounts>>
  PROVE  StorageInv(Storage)'
  <1>1. Stores
    BY StoresIsStorageInv
  <1>2. Stores'
    BY <1>1 DEF Stores
  <1>. QED
    BY <1>2, StoresIsStorageInv

-----------------------------------------------------------------------------
(* The handlers *)

\* The type facts of the storage that the handlers' payments need.
LEMMA KnownAddresses ==
  ASSUME StorageInv(Storage)
  PROVE  /\ Controller \in Addresses /\ Users \subseteq Addresses
         /\ \A o \in DOMAIN accounts : o \in Users /\ accounts[o] \in Addresses
                                       /\ accounts[o] \in AccountAddrs
         /\ config.fee_collector \in Addresses
         /\ config.creation_fee_percentage \in Nat
         /\ config.cancellation_fee_percentage \in Nat
         /\ config.a_min \in Nat /\ config.a_max \in Nat
         /\ balance \in [Addresses -> Nat]
         /\ \A id \in DOMAIN pending : /\ pending[id] \in JobType /\ id \in JobIds
                                       /\ pending[id].owner \in DOMAIN accounts
                                       /\ pending[id].reward \in Nat
  <1>1. Stores
    BY StoresIsStorageInv
  <1>2. \A id \in DOMAIN pending : pending[id] \in JobType /\ id \in JobIds
    BY <1>1 DEF Stores, IsMap
  <1>3. \A job \in JobType : job.reward \in Nat
    BY DEF JobType
  <1>4. \A o \in DOMAIN accounts : o \in Users /\ accounts[o] \in AccountAddrs
    BY <1>1 DEF Stores, IsMap
  <1>. QED
    BY <1>1, <1>2, <1>3, <1>4 DEF Stores, Addresses, ConfigType

\* create_account of a new owner keeps the storage invariant.
LEMMA OpenAccountStep ==
  ASSUME StorageInv(Storage), NEW sender \in Users, NEW amount \in Deposits,
         NEW addr \in AccountAddrs, OpenAccount(sender, amount, addr)
  PROVE  StorageInv(Storage)'
  <1>1. Stores
    BY StoresIsStorageInv
  <1>2. balance' \in [Addresses -> Nat]
    <2>1. amount \in Int /\ sender \in Addresses /\ addr \in Addresses
      BY InputAssumption DEF Addresses
    <2>. QED
      BY <1>1, <2>1, AfterPayment DEF OpenAccount, Stores
  <1>3. IsMap(accounts', Users, AccountAddrs) /\ DOMAIN accounts \subseteq DOMAIN accounts'
    BY <1>1 DEF OpenAccount, Stores, IsMap, Save
  <1>4. Stores'
    BY <1>1, <1>2, <1>3 DEF OpenAccount, Stores
  <1>. QED
    BY <1>4, StoresIsStorageInv

\* create_account of an owner keeps the storage invariant.
LEMMA FundAccountStep ==
  ASSUME StorageInv(Storage), NEW sender \in Senders, NEW amount \in Deposits,
         FundAccount(sender, amount)
  PROVE  StorageInv(Storage)'
  <1>1. /\ sender \in Addresses /\ accounts[sender] \in Addresses /\ amount \in Int
        /\ balance \in [Addresses -> Nat]
    BY KnownAddresses, InputAssumption DEF FundAccount
  <1>2. balance' \in [Addresses -> Nat]
    BY <1>1, AfterPayment DEF FundAccount
  <1>. QED
    BY <1>2, PayStep DEF FundAccount

\* Spending from an account keeps the storage invariant.
LEMMA SpendStepInv ==
  ASSUME StorageInv(Storage), NEW owner \in DOMAIN accounts, NEW to \in Users,
         NEW amount \in Spends, SpendFromAccount(owner, to, amount)
  PROVE  StorageInv(Storage)'
  <1>1. /\ to \in Addresses /\ accounts[owner] \in Addresses /\ amount \in Int
        /\ balance \in [Addresses -> Nat]
    BY KnownAddresses, InputAssumption
  <1>2. balance' \in [Addresses -> Nat]
    BY <1>1, AfterPayment DEF SpendFromAccount
  <1>. QED
    BY <1>2, PayStep DEF SpendFromAccount

\* create_job keeps the storage invariant: it gives out an id no store holds.
LEMMA CreateJobStep ==
  ASSUME StorageInv(Storage), NEW sender \in Senders, NEW reward \in Rewards,
         NEW kind \in JobKinds, CreateJob(sender, reward, kind)
  PROVE  StorageInv(Storage)'
  <1>. DEFINE owner == OwnerOf(sender)
              job == NewJob(owner, current_job_id, reward, kind)
  <1>1. Stores
    BY StoresIsStorageInv
  <1>2. owner \in DOMAIN accounts
    BY DEF CreateJob, HasAccount, OwnerOf, IsAccount, Range
  <1>3. reward \in Nat /\ kind \in Kinds
    BY InputAssumption
  <1>4. Enqueue(Storage, pending, job)
    BY DEF CreateJob
  <1>5. current_job_id \in JobIds
    BY <1>1, <1>4, BoundAssumption DEF Enqueue, Storage, Stores, JobIds
  <1>6. job \in JobType /\ job.status = "Pending" /\ job.owner = owner
    <2>1. owner \in Addresses
      BY <1>2, KnownAddresses
    <2>. QED
      BY <1>3, <1>5, <2>1, NewJobType
  <1>. HIDE DEF job, owner
  <1>7. /\ IsMap(pending', JobIds, JobType)
        /\ DOMAIN pending' = DOMAIN pending \cup {current_job_id}
        /\ pending'[current_job_id] = job
        /\ \A id \in DOMAIN pending : pending'[id] = pending[id]
        /\ current_job_id \notin DOMAIN pending \cup DOMAIN finished
        /\ current_job_id' = current_job_id + 1
        /\ current_job_id' \in 1..(MaxJobs + 1)
        /\ q' = q + 1
        /\ Cardinality(DOMAIN pending') = Cardinality(DOMAIN pending) + 1
    <2>1. IsMap(pending, JobIds, JobType)
      BY <1>1 DEF Stores
    <2>2. /\ Storage.pending = pending /\ Storage.finished = finished
          /\ Storage.current_job_id = current_job_id /\ Storage.q = q
      BY DEF Storage
    <2>3. /\ IsMap(pending', JobIds, JobType)
          /\ DOMAIN pending' = DOMAIN pending \cup {Storage.current_job_id}
          /\ pending'[Storage.current_job_id] = job
          /\ \A id \in DOMAIN pending : pending'[id] = Storage.pending[id]
          /\ Storage.current_job_id \notin DOMAIN Storage.pending \cup DOMAIN Storage.finished
          /\ current_job_id' = Storage.current_job_id + 1
          /\ current_job_id' \in 1..(MaxJobs + 1)
          /\ q' = Storage.q + 1
          /\ Cardinality(DOMAIN pending') = Cardinality(DOMAIN pending) + 1
      <3>1. DOMAIN pending \subseteq DOMAIN Storage.pending
        BY <2>2
      <3>2. \A id \in DOMAIN pending : pending[id] = Storage.pending[id]
        BY <2>2
      <3>. QED
        BY <1>4, <1>6, <2>1, <3>1, <3>2, EnqueueStep
    <2>. QED
      BY <2>2, <2>3
  <1>8. balance' \in [Addresses -> Nat]
    <2>1. Fee(reward, config.creation_fee_percentage) \in Nat
      BY <1>3, KnownAddresses, FeeType
    <2>2. /\ AffordsBoth(balance, Payment(accounts[owner], Controller, reward),
                         Payment(accounts[owner], config.fee_collector,
                                 Fee(reward, config.creation_fee_percentage)))
          /\ balance' = AfterBoth(balance, Payment(accounts[owner], Controller, reward),
                         Payment(accounts[owner], config.fee_collector,
                                 Fee(reward, config.creation_fee_percentage)))
      BY DEF CreateJob, owner
    <2>3. /\ accounts[owner] \in Addresses /\ Controller \in Addresses
          /\ config.fee_collector \in Addresses /\ balance \in [Addresses -> Nat]
      BY <1>2, KnownAddresses
    <2>. QED
      BY <1>3, <2>1, <2>2, <2>3, AfterBothPayments
  <1>9. DOMAIN pending' \cup DOMAIN finished = 1..(current_job_id' - 1)
    BY <1>1, <1>7 DEF Stores
  <1>10. Cardinality(DOMAIN pending) \in Nat
    BY FiniteStores DEF StorageInv, Storage
  <1>11. UNCHANGED <<config, finished, accounts>>
    BY DEF CreateJob
  <1>12. Stores'
    BY <1>1, <1>2, <1>6, <1>7, <1>8, <1>9, <1>10, <1>11 DEF Stores
  <1>. QED
    BY <1>12, StoresIsStorageInv

\* delete_job keeps the storage invariant: it settles a pending job.
LEMMA DeleteJobStep ==
  ASSUME StorageInv(Storage), NEW sender \in Senders, NEW id \in JobIds,
         DeleteJob(sender, id)
  PROVE  StorageInv(Storage)'
  <1>. DEFINE fee == Fee(pending[id].reward, config.cancellation_fee_percentage)
  <1>1. id \in DOMAIN pending /\ sender \in DOMAIN accounts
    BY DEF DeleteJob, MayDelete, CancellationFee, Refund, Charge
  <1>2. /\ accounts[sender] \in Addresses /\ Controller \in Addresses
        /\ config.fee_collector \in Addresses /\ balance \in [Addresses -> Nat]
        /\ pending[id].reward \in Nat /\ config.cancellation_fee_percentage \in Nat
    BY <1>1, KnownAddresses
  <1>3. fee \in Nat /\ fee \in Int
    <2>1. fee \in Nat
      BY <1>2, FeeType
    <2>. QED
      BY <2>1
  <1>4. Remainder(pending[id], fee) \in Int
    BY <1>2, <1>3 DEF Remainder
  <1>. HIDE DEF fee
  <1>5. balance' \in [Addresses -> Nat]
    <2>1. /\ AffordsBoth(balance,
               Payment(Controller, accounts[sender], Remainder(pending[id], fee)),
               Payment(Controller, config.fee_collector, fee))
          /\ balance' = AfterBoth(balance,
               Payment(Controller, accounts[sender], Remainder(pending[id], fee)),
               Payment(Controller, config.fee_collector, fee))
      BY DEF DeleteJob, fee, MayDelete, CancellationFee, Refund, Charge
    <2>. QED
      BY <1>2, <1>3, <1>4, <2>1, AfterBothPayments
  <1>6. Settle(id, "Cancelled") /\ UNCHANGED <<config, current_job_id, accounts>>
    BY DEF DeleteJob, MayDelete, CancellationFee, Refund, Charge
  <1>. QED
    BY <1>1, <1>5, <1>6, SettleStep DEF Terminal

\* update_job keeps the storage invariant: the job stays pending and its owner's.
LEMMA UpdateJobStep ==
  ASSUME StorageInv(Storage), NEW sender \in Senders, NEW id \in JobIds,
         NEW added_reward \in Additions, UpdateJob(sender, id, added_reward)
  PROVE  StorageInv(Storage)'
  <1>. DEFINE fee == Fee(added_reward, config.creation_fee_percentage)
              job == AddReward(pending[id], added_reward, config.minimum_reward)
  <1>1. /\ id \in DOMAIN pending /\ sender \in DOMAIN accounts
        /\ pending' = Save(pending, id, job)
        /\ UNCHANGED <<config, current_job_id, q, finished, accounts>>
    BY DEF UpdateJob
  <1>2. added_reward \in Nat
    BY InputAssumption
  <1>3. /\ accounts[sender] \in Addresses /\ Controller \in Addresses
        /\ config.fee_collector \in Addresses /\ balance \in [Addresses -> Nat]
        /\ config.creation_fee_percentage \in Nat /\ pending[id] \in JobType
    BY <1>1, KnownAddresses
  <1>4. fee \in Nat /\ fee \in Int /\ added_reward \in Int
    <2>1. fee \in Nat
      BY <1>2, <1>3, FeeType
    <2>. QED
      BY <1>2, <2>1
  <1>5. config.minimum_reward \in Nat
    BY DEF StorageInv, StorageOK, Storage, ConfigType
  <1>6. job \in JobType /\ job.status = pending[id].status /\ job.owner = pending[id].owner
    <2>1. \A added \in Nat, minimum \in Nat :
            /\ AddReward(pending[id], added, minimum) \in JobType
            /\ AddReward(pending[id], added, minimum).status = pending[id].status
            /\ AddReward(pending[id], added, minimum).owner = pending[id].owner
      BY <1>3, JobTypes
    <2>. QED
      BY <1>2, <1>5, <2>1
  <1>. HIDE DEF fee, job
  <1>7. balance' \in [Addresses -> Nat]
    <2>1. /\ AffordsBoth(balance, Payment(accounts[sender], Controller, added_reward),
                         Payment(accounts[sender], config.fee_collector, fee))
          /\ balance' = AfterBoth(balance, Payment(accounts[sender], Controller, added_reward),
                         Payment(accounts[sender], config.fee_collector, fee))
      BY DEF UpdateJob, fee
    <2>. QED
      BY <1>2, <1>3, <1>4, <2>1, AfterBothPayments
  <1>8. \A x \in DOMAIN pending : pending[x] \in JobType
    BY KnownAddresses
  <1>9. /\ pending' \in [DOMAIN pending -> JobType]
        /\ \A x \in DOMAIN pending :
             pending'[x].status = pending[x].status /\ pending'[x].owner = pending[x].owner
    BY <1>1, <1>6, <1>8 DEF Save
  <1>. QED
    BY <1>1, <1>7, <1>9, TouchStep

\* execute_job of a job whose condition cannot be evaluated keeps the storage
\* invariant: it settles a pending job.
LEMMA ExecuteInvalidJobStep ==
  ASSUME StorageInv(Storage), NEW keeper \in Senders, NEW id \in JobIds,
         ExecuteInvalidJob(keeper, id)
  PROVE  StorageInv(Storage)'
  <1>1. id \in DOMAIN pending /\ keeper \in DOMAIN accounts
    BY DEF ExecuteInvalidJob, CanExecute
  <1>2. /\ accounts[keeper] \in Addresses /\ Controller \in Addresses
        /\ balance \in [Addresses -> Nat] /\ pending[id].reward \in Int
    BY <1>1, KnownAddresses
  <1>3. balance' \in [Addresses -> Nat]
    BY <1>2, AfterPayment DEF ExecuteInvalidJob
  <1>4. Settle(id, "Failed") /\ UNCHANGED <<config, current_job_id, accounts>>
    BY DEF ExecuteInvalidJob
  <1>. QED
    BY <1>1, <1>3, <1>4, SettleStep DEF Terminal

\* evict_job of a job that leaves the queue keeps the storage invariant.
LEMMA EvictJobStep ==
  ASSUME StorageInv(Storage), NEW sender \in Senders, NEW id \in JobIds,
         sender \in Addresses, EvictJob(sender, id)
  PROVE  StorageInv(Storage)'
  <1>. DEFINE fee == EvictionFee(config, q)
  <1>1. id \in DOMAIN pending /\ pending[id].owner \in DOMAIN accounts
    BY DEF EvictJob, Evictable, MayEvict, Requeued, Refund, Charge
  <1>2. /\ accounts[pending[id].owner] \in Addresses /\ Controller \in Addresses
        /\ balance \in [Addresses -> Nat] /\ pending[id].reward \in Nat
        /\ config.a_min \in Nat /\ config.a_max \in Nat
    BY <1>1, KnownAddresses
  <1>3. fee \in Nat
    BY <1>2 DEF EvictionFee
  <1>4. Remainder(pending[id], fee) \in Int
    BY <1>2, <1>3 DEF Remainder
  <1>. HIDE DEF fee
  <1>5. balance' \in [Addresses -> Nat]
    <2>1. /\ AffordsBoth(balance, Payment(Controller, sender, fee),
               Payment(Controller, accounts[pending[id].owner], Remainder(pending[id], fee)))
          /\ balance' = AfterBoth(balance, Payment(Controller, sender, fee),
               Payment(Controller, accounts[pending[id].owner], Remainder(pending[id], fee)))
      BY DEF EvictJob, fee, MayEvict, Requeued, Refund, Charge
    <2>. QED
      BY <1>2, <1>3, <1>4, <2>1, AfterBothPayments
  <1>6. Settle(id, "Evicted") /\ UNCHANGED <<config, current_job_id, accounts>>
    BY DEF EvictJob, MayEvict, Requeued, Refund, Charge
  <1>. QED
    BY <1>1, <1>5, <1>6, SettleStep DEF Terminal

\* So does evict_job of a job that is requeued.
LEMMA EvictAndRequeueStep ==
  ASSUME StorageInv(Storage), NEW sender \in Senders, NEW id \in JobIds,
         sender \in Addresses, EvictAndRequeue(sender, id)
  PROVE  StorageInv(Storage)'
  <1>. DEFINE fee == EvictionFee(config, q)
              job == [pending[id] EXCEPT !.age = 0]
  <1>1. /\ id \in DOMAIN pending /\ pending[id].owner \in DOMAIN accounts
        /\ pending' = Save(pending, id, job)
        /\ UNCHANGED <<config, current_job_id, q, finished, accounts>>
    BY DEF EvictAndRequeue, Evictable, MayRequeue, Requeued, RequeueCharge
  <1>2. /\ accounts[pending[id].owner] \in Addresses
        /\ balance \in [Addresses -> Nat] /\ pending[id] \in JobType
        /\ config.a_min \in Nat /\ config.a_max \in Nat
    BY <1>1, KnownAddresses
  <1>3. fee \in Int
    BY <1>2 DEF EvictionFee
  <1>4. job \in JobType /\ job.status = pending[id].status /\ job.owner = pending[id].owner
    <2>1. job \in JobType
      BY <1>2, JobTypes
    <2>. QED
      BY <1>2, <2>1 DEF JobType
  <1>. HIDE DEF fee, job
  <1>5. balance' \in [Addresses -> Nat]
    BY <1>2, <1>3, AfterPayment DEF EvictAndRequeue, fee, MayRequeue, Requeued, RequeueCharge
  <1>6. \A x \in DOMAIN pending : pending[x] \in JobType
    BY KnownAddresses
  <1>7. /\ pending' \in [DOMAIN pending -> JobType]
        /\ \A x \in DOMAIN pending :
             pending'[x].status = pending[x].status /\ pending'[x].owner = pending[x].owner
    BY <1>1, <1>4, <1>6 DEF Save
  <1>. QED
    BY <1>1, <1>5, <1>7, TouchStep

\* The passing of time keeps the storage invariant.
LEMMA TickStep ==
  ASSUME StorageInv(Storage), Tick
  PROVE  StorageInv(Storage)'
  <1>1. \A x \in DOMAIN pending : pending[x] \in JobType
    BY KnownAddresses
  <1>2. balance' \in [Addresses -> Nat]
    BY KnownAddresses DEF Tick
  <1>3. /\ pending' \in [DOMAIN pending -> JobType]
        /\ \A x \in DOMAIN pending :
             pending'[x].status = pending[x].status /\ pending'[x].owner = pending[x].owner
    BY <1>1, JobTypes DEF Tick
  <1>. QED
    BY <1>2, <1>3, TouchStep DEF Tick

\* update_config keeps the storage invariant.
LEMMA UpdateConfigStep ==
  ASSUME StorageInv(Storage), NEW sender \in Users, NEW new \in Configs,
         UpdateConfig(sender, new)
  PROVE  StorageInv(Storage)'
  <1>1. Stores /\ new \in ConfigType
    BY StoresIsStorageInv, InputAssumption
  <1>2. Stores'
    BY <1>1 DEF Stores, UpdateConfig
  <1>. QED
    BY <1>2, StoresIsStorageInv

\* The withdrawal of the fee denomination leaves no balance negative.
LEMMA WithdrawNativeType ==
  ASSUME NEW b \in [Addresses -> Nat], NEW job \in JobType, NEW account \in Addresses
  PROVE  WithdrawNative(b, job, account) \in [Addresses -> Nat]
  <1>1. job.owner \in Addresses /\ b[account] \in Nat
    BY DEF JobType
  <1>2. ASSUME b[account] > 0
        PROVE  After(b, Payment(account, job.owner, b[account])) \in [Addresses -> Nat]
    <2>1. Affords(b, Payment(account, job.owner, b[account]))
      BY <1>1, <1>2 DEF Affords, Payment
    <2>2. b[account] \in Int
      BY <1>1
    <2>. QED
      BY <1>1, <2>1, <2>2, AfterPayment
  <1>. QED
    BY <1>2 DEF WithdrawNative

\* reply() leaves a storage that holds the invariant, if the one it found does.
LEMMA ReplyStep ==
  ASSUME NEW s, StorageInv(s), NEW i, NEW status \in {"Executed", "Failed"},
         NEW terminates \in BOOLEAN, JobReply(i, s, status, terminates)
  PROVE  StorageInv(Storage)'
  <1>. DEFINE id == stack[i].id
              job == s.pending[id]
              account == s.accounts[job.owner]
              rest == WithoutJob(s, id)
              next == NewJob(job.owner, job.name, job.reward, job.kind)
              fee == Fee(job.reward, s.config.creation_fee_percentage)
  <1>1. /\ id \in DOMAIN s.pending /\ id \notin DOMAIN s.finished
        /\ finished' = Save(s.finished, id, Finish(job, status))
        /\ config' = s.config /\ accounts' = s.accounts
    BY DEF JobReply
  <1>2. /\ IsMap(s.pending, JobIds, JobType) /\ IsMap(s.finished, JobIds, JobType)
        /\ IsMap(s.accounts, Users, AccountAddrs)
        /\ s.config \in ConfigType /\ s.q \in Nat /\ s.balance \in [Addresses -> Nat]
        /\ s.current_job_id \in 1..(MaxJobs + 1)
        /\ s.q >= Cardinality(DOMAIN s.pending)
        /\ DOMAIN s.pending \cap DOMAIN s.finished = {}
        /\ DOMAIN s.pending \cup DOMAIN s.finished = 1..(s.current_job_id - 1)
        /\ \A x \in DOMAIN s.pending :
             s.pending[x].status = "Pending" /\ s.pending[x].owner \in DOMAIN s.accounts
        /\ \A x \in DOMAIN s.finished : s.finished[x].status \in Terminal
    BY DEF StorageInv, StorageOK, StoresPartition, QueueCovers
  <1>3. /\ job \in JobType /\ id \in JobIds
        /\ job.owner \in DOMAIN s.accounts /\ job.owner \in Users
        /\ account \in AccountAddrs
    BY <1>1, <1>2 DEF IsMap
  <1>4. /\ job.owner \in Addresses /\ job.name \in JobIds /\ job.reward \in Nat
        /\ job.kind \in Kinds
    BY <1>3 DEF JobType
  <1>5. /\ account \in Addresses /\ Controller \in Addresses
        /\ s.config.fee_collector \in Addresses
        /\ s.config.creation_fee_percentage \in Nat
    BY <1>2, <1>3 DEF Addresses, ConfigType
  <1>6. fee \in Nat
    BY <1>4, <1>5, FeeType
  <1>7. next \in JobType /\ next.status = "Pending" /\ next.owner = job.owner
    BY <1>4, NewJobType
  <1>8. Finish(job, status) \in JobType /\ Finish(job, status).status = status
        /\ status \in Terminal
    <2>1. status \in Terminal
      BY DEF Terminal
    <2>2. \A st \in Terminal : Finish(job, st) \in JobType /\ Finish(job, st).status = st
      BY <1>3, JobTypes
    <2>. QED
      BY <2>1, <2>2
  <1>9. /\ IsMap(rest, JobIds, JobType) /\ DOMAIN rest = DOMAIN s.pending \ {id}
        /\ \A x \in DOMAIN rest : rest[x] = s.pending[x]
    BY <1>2 DEF IsMap, WithoutJob, Remove
  <1>10. /\ IsMap(finished', JobIds, JobType)
         /\ DOMAIN finished' = DOMAIN s.finished \cup {id}
         /\ finished'[id].status = status
         /\ \A x \in DOMAIN s.finished : finished'[x] = s.finished[x]
    BY <1>1, <1>2, <1>3, <1>8 DEF Save, IsMap
  <1>11. /\ Cardinality(DOMAIN s.pending) \in Nat
         /\ Cardinality(DOMAIN rest) = Cardinality(DOMAIN s.pending) - 1
    BY <1>1, <1>9, FiniteStores, FS_RemoveElement DEF StorageInv
  <1>12. CASE Recurs(s, job, terminates)
    <2>1. /\ AffordsBoth(s.balance, Payment(account, s.config.fee_collector, fee),
                         Payment(account, Controller, job.reward))
          /\ Enqueue(s, rest, next)
          /\ balance' = WithdrawNative(
                 AfterBoth(s.balance, Payment(account, s.config.fee_collector, fee),
                           Payment(account, Controller, job.reward)), job, account)
      BY <1>12 DEF JobReply
    <2>. HIDE DEF id, job, account, rest, next, fee
    <2>2. /\ IsMap(pending', JobIds, JobType)
          /\ DOMAIN pending' = DOMAIN rest \cup {s.current_job_id}
          /\ pending'[s.current_job_id] = next
          /\ \A x \in DOMAIN rest : pending'[x] = s.pending[x]
          /\ s.current_job_id \notin DOMAIN s.pending \cup DOMAIN s.finished
          /\ current_job_id' = s.current_job_id + 1
          /\ current_job_id' \in 1..(MaxJobs + 1)
          /\ q' = s.q + 1
          /\ Cardinality(DOMAIN pending') = Cardinality(DOMAIN rest) + 1
      <3>1. DOMAIN rest \subseteq DOMAIN s.pending
        BY <1>9
      <3>. QED
        BY <1>7, <1>9, <2>1, <3>1, EnqueueStep
    <2>3. balance' \in [Addresses -> Nat]
      <3>1. fee \in Int /\ job.reward \in Int
        BY <1>4, <1>6
      <3>2. AfterBoth(s.balance, Payment(account, s.config.fee_collector, fee),
                      Payment(account, Controller, job.reward)) \in [Addresses -> Nat]
        BY <1>2, <1>5, <2>1, <3>1, AfterBothPayments
      <3>. QED
        BY <1>3, <1>5, <2>1, <3>2, WithdrawNativeType
    <2>4. DOMAIN pending' \cup DOMAIN finished' = 1..(current_job_id' - 1)
      BY <1>1, <1>2, <1>9, <1>10, <2>2
    <2>5. q' \in Nat /\ q' >= Cardinality(DOMAIN pending')
      BY <1>2, <1>11, <2>2
    <2>6. DOMAIN pending' \cap DOMAIN finished' = {}
      BY <1>2, <1>9, <1>10, <2>2, <1>1
    <2>7. \A x \in DOMAIN pending' :
            pending'[x].status = "Pending" /\ pending'[x].owner \in DOMAIN accounts'
      BY <1>1, <1>2, <1>3, <1>7, <1>9, <2>2
    <2>8. \A x \in DOMAIN finished' : finished'[x].status \in Terminal
      BY <1>2, <1>8, <1>10
    <2>9. Stores'
      BY <1>1, <1>2, <1>10, <2>2, <2>3, <2>4, <2>5, <2>6, <2>7, <2>8 DEF Stores
    <2>. QED
      BY <2>9, StoresIsStorageInv
  <1>13. CASE ~Recurs(s, job, terminates)
    <2>1. pending' = rest /\ current_job_id' = s.current_job_id /\ q' = s.q
          /\ balance' = s.balance
      BY <1>13 DEF JobReply
    <2>. HIDE DEF id, job, account, rest, next, fee
    <2>2. DOMAIN pending' \cup DOMAIN finished' = 1..(current_job_id' - 1)
      BY <1>1, <1>2, <1>9, <1>10, <2>1
    <2>3. q' \in Nat /\ q' >= Cardinality(DOMAIN pending')
      BY <1>2, <1>11, <2>1
    <2>4. DOMAIN pending' \cap DOMAIN finished' = {}
      BY <1>2, <1>9, <1>10, <2>1
    <2>5. \A x \in DOMAIN pending' :
            pending'[x].status = "Pending" /\ pending'[x].owner \in DOMAIN accounts'
      BY <1>1, <1>2, <1>9, <2>1
    <2>6. \A x \in DOMAIN finished' : finished'[x].status \in Terminal
      BY <1>2, <1>8, <1>10
    <2>7. Stores'
      BY <1>1, <1>2, <1>9, <1>10, <2>1, <2>2, <2>3, <2>4, <2>5, <2>6 DEF Stores
    <2>. QED
      BY <2>7, StoresIsStorageInv
  <1>. QED
    BY <1>12, <1>13

\* The reward message after the submessage keeps the storage invariant.
LEMMA PayKeeperStep ==
  ASSUME StorageInv(Storage), Top.keeper \in AccountAddrs, Top.reward \in Nat, PayKeeper
  PROVE  StorageInv(Storage)'
  <1>1. /\ Top.keeper \in Addresses /\ Controller \in Addresses
        /\ Top.reward \in Int /\ balance \in [Addresses -> Nat]
    BY KnownAddresses DEF Addresses
  <1>2. balance' \in [Addresses -> Nat]
    BY <1>1, AfterPayment DEF PayKeeper
  <1>. QED
    BY <1>2, PayStep DEF PayKeeper

\* So does a failed call that puts back one that holds it.
LEMMA RestoreStep ==
  ASSUME NEW s, StorageInv(s), Restore(s)
  PROVE  StorageInv(Storage)'
  <1>1. Stores'
    BY DEF StorageInv, StorageOK, StoresPartition, QueueCovers, Restore, Stores
  <1>. QED
    BY <1>1, StoresIsStorageInv

-----------------------------------------------------------------------------
(* The stack *)

\* A sequence is one over the values it has.
LEMMA SeqOverRange ==
  ASSUME NEW S, NEW t \in Seq(S)
  PROVE  /\ t \in Seq(Range(t)) /\ Len(t) \in Nat /\ DOMAIN t = 1..Len(t)
  <1>1. t \in [1..Len(t) -> S] /\ Len(t) \in Nat /\ DOMAIN t = 1..Len(t)
    BY LenProperties
  <1>2. t \in [1..Len(t) -> Range(t)]
    BY <1>1 DEF Range
  <1>. QED
    BY <1>1, <1>2, SeqDef

\* Cutting the stack back to its first n frames leaves these as they were.
LEMMA CutStack ==
  ASSUME StackOK, NEW n \in 0..Len(stack), stack' = SubSeq(stack, 1, n)
  PROVE  StackOK' /\ DOMAIN stack' = 1..n /\ \A k \in 1..n : stack'[k] = stack[k]
  <1>1. Len(stack) \in Nat /\ DOMAIN stack = 1..Len(stack)
    BY SeqOverRange DEF StackOK
  <1>2. /\ SubSeq(stack, 1, n) \in Seq(Range(stack))
        /\ Len(SubSeq(stack, 1, n)) = n
        /\ \A k \in 1..n : SubSeq(stack, 1, n)[k] = stack[k]
    <2>1. \A k \in 1..n : stack[k] \in Range(stack)
      BY <1>1 DEF Range
    <2>2. /\ SubSeq(stack, 1, n) \in Seq(Range(stack))
          /\ Len(SubSeq(stack, 1, n)) = IF 1 <= n THEN n - 1 + 1 ELSE 0
          /\ \A k \in 1..(n - 1 + 1) : SubSeq(stack, 1, n)[k] = stack[1 + k - 1]
      BY <1>1, <2>1, SubSeqProperties
    <2>. QED
      BY <1>1, <2>2
  <1>3. stack' \in Seq(Range(stack')) /\ DOMAIN stack' = 1..n /\ Len(stack') = n
    BY <1>2, SeqOverRange
  <1>4. n <= MaxDepth
    BY <1>1, BoundAssumption DEF StackOK
  <1>. QED
    BY <1>2, <1>3, <1>4 DEF StackOK

\* Pushing a frame on the first n ones leaves these as they were.
LEMMA PushFrame ==
  ASSUME StackOK, NEW n \in 0..Len(stack), n + 1 <= MaxDepth, NEW f,
         stack' = Append(SubSeq(stack, 1, n), f)
  PROVE  /\ StackOK' /\ DOMAIN stack' = 1..(n + 1)
         /\ \A k \in 1..n : stack'[k] = stack[k]
         /\ stack'[n + 1] = f
  <1>. DEFINE t == SubSeq(stack, 1, n)
              S == Range(stack) \cup {f}
  <1>1. Len(stack) \in Nat /\ DOMAIN stack = 1..Len(stack)
    BY SeqOverRange DEF StackOK
  <1>2. t \in Seq(S) /\ Len(t) = n /\ \A k \in 1..n : t[k] = stack[k]
    <2>1. \A k \in 1..n : stack[k] \in S
      BY <1>1 DEF Range
    <2>. HIDE DEF S
    <2>2. /\ SubSeq(stack, 1, n) \in Seq(S)
          /\ Len(SubSeq(stack, 1, n)) = IF 1 <= n THEN n - 1 + 1 ELSE 0
          /\ \A k \in 1..(n - 1 + 1) : SubSeq(stack, 1, n)[k] = stack[1 + k - 1]
      BY <1>1, <2>1, SubSeqProperties
    <2>. QED
      BY <1>1, <2>2
  <1>3. f \in S
    OBVIOUS
  <1>. HIDE DEF t, S
  <1>4. /\ stack' \in Seq(S) /\ Len(stack') = n + 1
        /\ \A k \in 1..n : stack'[k] = t[k]
        /\ stack'[n + 1] = f
    BY <1>1, <1>2, <1>3 DEF t
  <1>5. stack' \in Seq(Range(stack')) /\ DOMAIN stack' = 1..(n + 1)
    BY <1>4, SeqOverRange
  <1>. QED
    BY <1>2, <1>4, <1>5 DEF StackOK

\* A step that leaves the stack alone and forgets no account keeps the
\* invariant, if it keeps the one of the storage.
LEMMA SameStackInv ==
  ASSUME IInv, StorageInv(Storage)', stack' = stack, Range(accounts) \subseteq Range(accounts')
  PROVE  IInv'
  <1>1. ASSUME NEW i \in DOMAIN stack
        PROVE  FrameInv(i)'
    BY <1>1 DEF IInv, FrameInv
  <1>2. StackOK'
    BY DEF IInv, StackOK
  <1>. QED
    BY <1>1, <1>2 DEF IInv

\* So does one that cuts the stack back.
LEMMA CutInv ==
  ASSUME IInv, StorageInv(Storage)', NEW n \in 0..Len(stack),
         stack' = SubSeq(stack, 1, n),
         \A k \in 1..n : stack[k].account \in Range(accounts')
  PROVE  IInv'
  <1>1. DOMAIN stack = 1..Len(stack) /\ Len(stack) \in Nat
    BY SeqOverRange DEF IInv, StackOK
  <1>2. StackOK' /\ DOMAIN stack' = 1..n /\ \A k \in 1..n : stack'[k] = stack[k]
    BY CutStack DEF IInv
  <1>3. ASSUME NEW i \in 1..n
        PROVE  FrameInv(i)'
    <2>1. i \in DOMAIN stack /\ FrameInv(i)
      BY <1>1 DEF IInv
    <2>2. \A j \in 1..n : j \in DOMAIN stack
      BY <1>1
    <2>. QED
      BY <1>2, <2>1, <2>2 DEF FrameInv
  <1>. QED
    BY <1>2, <1>3 DEF IInv

\* So does one that puts a frame f with its invariant on the first n frames.
LEMMA PushInv ==
  ASSUME IInv, StorageInv(Storage)', NEW n \in 0..Len(stack), n + 1 <= MaxDepth, NEW f,
         stack' = Append(SubSeq(stack, 1, n), f),
         FrameOK(f), StorageInv(f.before),
         f.account \in Range(accounts'), f.account \in Range(f.before.accounts),
         \A k \in 1..n : /\ stack[k].account \in Range(accounts')
                         /\ stack[k].account \in Range(f.before.accounts)
  PROVE  IInv'
  <1>1. DOMAIN stack = 1..Len(stack) /\ Len(stack) \in Nat
    BY SeqOverRange DEF IInv, StackOK
  <1>2. /\ StackOK' /\ DOMAIN stack' = 1..(n + 1)
        /\ \A k \in 1..n : stack'[k] = stack[k]
        /\ stack'[n + 1] = f
    BY PushFrame DEF IInv
  <1>3. ASSUME NEW i \in 1..n
        PROVE  FrameInv(i)'
    <2>1. i \in DOMAIN stack /\ FrameInv(i)
      BY <1>1 DEF IInv
    <2>2. \A j \in 1..(n + 1) : j = n + 1 \/ (j \in 1..n /\ j \in DOMAIN stack)
      BY <1>1
    <2>. QED
      BY <1>2, <2>1, <2>2 DEF FrameInv
  <1>4. FrameInv(n + 1)'
    <2>1. \A j \in 1..(n + 1) : n + 1 <= j => j = n + 1
      OBVIOUS
    <2>. QED
      BY <1>2, <2>1 DEF FrameInv
  <1>5. \A i \in 1..(n + 1) : i \in 1..n \/ i = n + 1
    OBVIOUS
  <1>. QED
    BY <1>2, <1>3, <1>4, <1>5 DEF IInv

\* Whoever can act is a user or an account that exists.
LEMMA ActorKnown ==
  ASSUME IInv, NEW x, MayAct(x)
  PROVE  x \in Users \cup Range(accounts)
  <1>1. CASE stack = <<>>
    BY <1>1 DEF MayAct
  <1>2. CASE stack # <<>>
    <2>1. Len(stack) \in DOMAIN stack
      <3>1. stack \in Seq(Range(stack))
        BY DEF IInv, StackOK
      <3>2. Len(stack) \in Nat \ {0}
        BY <1>2, <3>1, EmptySeq
      <3>. QED
        BY <3>1, <3>2, LenProperties
    <2>2. Top.account \in Range(accounts)
      BY <2>1 DEF IInv, FrameInv, Top
    <2>. QED
      BY <1>2, <2>2, AddressAssumption DEF MayAct, Range
  <1>. QED
    BY <1>1, <1>2

\* execute_job, up to the submessage, keeps the invariant.
LEMMA ExecuteJobInv ==
  ASSUME IInv, NEW keeper, NEW id, CanExecute(keeper, id), Len(stack) < MaxDepth,
         ExecuteJob(keeper, id)
  PROVE  IInv'
  <1>. DEFINE n == Len(stack)
              f == [id |-> id, account |-> accounts[pending[id].owner],
                    keeper |-> accounts[keeper], reward |-> pending[id].reward,
                    phase |-> "messages", callback |-> FALSE, before |-> Storage]
  <1>1. /\ stack \in Seq(Range(stack)) /\ n \in Nat /\ DOMAIN stack = 1..n
        /\ StorageInv(Storage)
    BY SeqOverRange DEF IInv, StackOK
  <1>2. /\ id \in JobIds /\ pending[id].owner \in DOMAIN accounts
        /\ pending[id].reward \in Nat /\ keeper \in DOMAIN accounts
        /\ accounts[pending[id].owner] \in AccountAddrs /\ accounts[keeper] \in AccountAddrs
    BY <1>1, KnownAddresses DEF CanExecute
  <1>3. StorageInv(Storage)'
    <2>1. balance' \in [Addresses -> Nat]
      BY <1>1, KnownAddresses DEF ExecuteJob
    <2>. QED
      BY <1>1, <2>1, PayStep DEF ExecuteJob
  <1>4. stack' = Append(SubSeq(stack, 1, n), f)
    <2>1. stack' = Append(stack, f)
      BY DEF ExecuteJob
    <2>2. SubSeq(stack, 1, n) = stack
      BY <1>1, SubSeqFull
    <2>. QED
      BY <2>1, <2>2
  <1>5. FrameOK(f)
    BY <1>1, <1>2 DEF FrameOK, StorageInv
  <1>6. f.before = Storage /\ f.account \in Range(accounts) /\ Storage.accounts = accounts
        /\ accounts' = accounts
    BY <1>2 DEF Range, Storage, ExecuteJob
  <1>7. \A k \in 1..n : stack[k].account \in Range(accounts)
    BY <1>1 DEF IInv, FrameInv
  <1>8. n \in 0..Len(stack) /\ n + 1 <= MaxDepth
    BY <1>1, BoundAssumption
  <1>. HIDE DEF n, f
  <1>. QED
    BY <1>1, <1>3, <1>4, <1>5, <1>6, <1>7, <1>8, PushInv

\* reply() of frame i, from a storage s that holds the invariant and in which
\* the accounts of the frames up to i exist.
LEMMA ReplyInv ==
  ASSUME IInv, NEW i \in DOMAIN stack, NEW s, StorageInv(s),
         \A k \in 1..i : stack[k].account \in Range(s.accounts),
         NEW status \in {"Executed", "Failed"}, NEW terminates \in BOOLEAN,
         JobReply(i, s, status, terminates)
  PROVE  IInv'
  <1>1. /\ stack \in Seq(Range(stack)) /\ Len(stack) \in Nat /\ DOMAIN stack = 1..Len(stack)
        /\ Len(stack) <= MaxDepth
    BY SeqOverRange DEF IInv, StackOK
  <1>2. StorageInv(Storage)'
    BY ReplyStep
  <1>3. PICK b \in BOOLEAN :
          stack' = Append(SubSeq(stack, 1, i - 1),
                          [stack[i] EXCEPT !.phase = "replied", !.callback = b])
    BY DEF JobReply, Recurs
  <1>. DEFINE f == [stack[i] EXCEPT !.phase = "replied", !.callback = b]
  <1>4. FrameInv(i)
    BY DEF IInv
  <1>5. /\ FrameOK(f) /\ StorageInv(f.before)
        /\ f.account = stack[i].account /\ f.before = stack[i].before
    BY <1>4 DEF FrameInv, FrameOK
  <1>6. accounts' = s.accounts
    BY DEF JobReply
  <1>7. \A k \in 1..(i - 1) : /\ stack[k].account \in Range(accounts')
                              /\ stack[k].account \in Range(f.before.accounts)
    <2>1. \A k \in 1..(i - 1) : k \in 1..i /\ k \in DOMAIN stack /\ k <= i
      BY <1>1
    <2>. QED
      BY <1>5, <1>6, <2>1 DEF IInv, FrameInv
  <1>8. f.account \in Range(accounts') /\ f.account \in Range(f.before.accounts)
    <2>1. i \in 1..i /\ i <= i
      BY <1>1
    <2>. QED
      BY <1>4, <1>5, <1>6, <2>1 DEF FrameInv
  <1>9. i - 1 \in 0..Len(stack) /\ (i - 1) + 1 <= MaxDepth
    BY <1>1, BoundAssumption
  <1>. HIDE DEF f
  <1>. QED
    BY <1>2, <1>3, <1>5, <1>7, <1>8, <1>9, PushInv DEF f

\* The controller starts with the invariant.
LEMMA InitInv == ASSUME Init PROVE IInv
  <1>1. stack = <<>> /\ DOMAIN pending = {} /\ DOMAIN finished = {} /\ DOMAIN accounts = {}
    BY DEF Init, EmptyMap
  <1>2. stack \in Seq({}) /\ Len(stack) = 0 /\ DOMAIN stack = {}
    BY <1>1
  <1>3. StackOK
    BY <1>2, SeqOverRange, BoundAssumption DEF StackOK
  <1>4. Cardinality(DOMAIN pending) = 0
    BY <1>1, FS_EmptySet
  <1>5. /\ IsMap(pending, JobIds, JobType) /\ IsMap(finished, JobIds, JobType)
        /\ IsMap(accounts, Users, AccountAddrs)
    BY DEF Init, EmptyMap, IsMap
  <1>6. balance \in [Addresses -> Nat] /\ config \in ConfigType
    BY InputAssumption DEF Init, Addresses
  <1>7. 1..(current_job_id - 1) = {} /\ current_job_id \in 1..(MaxJobs + 1)
    BY BoundAssumption DEF Init
  <1>8. q = 0
    BY DEF Init
  <1>9. Stores
    BY <1>1, <1>4, <1>5, <1>6, <1>7, <1>8 DEF Stores
  <1>. QED
    BY <1>2, <1>3, <1>9, StoresIsStorageInv DEF IInv

-----------------------------------------------------------------------------
(* The invariant is inductive *)

\* Every step of the controller keeps the invariant.
LEMMA NextInv ==
  ASSUME IInv, [Next]_vars
  PROVE  IInv'
  <1>1. /\ StorageInv(Storage) /\ DOMAIN stack = 1..Len(stack) /\ Len(stack) \in Nat
        /\ stack \in Seq(Range(stack))
    BY SeqOverRange DEF IInv, StackOK
  <1>2. ASSUME stack' = stack, accounts' = accounts, StorageInv(Storage)'
        PROVE  IInv'
    BY <1>2, SameStackInv
  <1>3. \A x \in Senders : x \in Addresses
    BY DEF Senders, Addresses
  <1>4. CASE AccountStep
    <2>1. ASSUME NEW sender \in Senders, NEW amount \in Deposits, NEW addr \in AccountAddrs,
                 OpenAccount(sender, amount, addr)
          PROVE  IInv'
      <3>1. sender \in Users
        <4>1. MayAct(sender) /\ sender \notin Range(accounts)
          BY <2>1 DEF OpenAccount, IsAccount
        <4>. QED
          BY <4>1, ActorKnown
      <3>2. StorageInv(Storage)'
        BY <1>1, <2>1, <3>1, OpenAccountStep
      <3>3. stack' = stack /\ Range(accounts) \subseteq Range(accounts')
        BY <2>1 DEF OpenAccount, Save, Range
      <3>. QED
        BY <3>2, <3>3, SameStackInv
    <2>2. ASSUME NEW sender \in Senders, NEW amount \in Deposits, FundAccount(sender, amount)
          PROVE  IInv'
      BY <1>1, <1>2, <2>2, FundAccountStep DEF FundAccount
    <2>. QED
      BY <1>4, <2>1, <2>2 DEF AccountStep
  <1>5. CASE SpendStep
    <2>1. ASSUME NEW owner \in DOMAIN accounts, NEW to \in Users, NEW amount \in Spends,
                 SpendFromAccount(owner, to, amount)
          PROVE  IInv'
      BY <1>1, <1>2, <2>1, SpendStepInv DEF SpendFromAccount
    <2>. QED
      BY <1>5, <2>1 DEF SpendStep
  <1>6. CASE JobStep
    <2>1. ASSUME NEW sender \in Senders, NEW reward \in Rewards, NEW kind \in JobKinds,
                 CreateJob(sender, reward, kind)
          PROVE  IInv'
      BY <1>1, <1>2, <2>1, CreateJobStep DEF CreateJob
    <2>2. ASSUME NEW sender \in Senders, NEW id \in JobIds, DeleteJob(sender, id)
          PROVE  IInv'
      BY <1>1, <1>2, <2>2, DeleteJobStep DEF DeleteJob, MayDelete, CancellationFee, Refund, Charge
    <2>3. ASSUME NEW sender \in Senders, NEW id \in JobIds, NEW added \in Additions,
                 UpdateJob(sender, id, added)
          PROVE  IInv'
      BY <1>1, <1>2, <2>3, UpdateJobStep DEF UpdateJob
    <2>. QED
      BY <1>6, <2>1, <2>2, <2>3 DEF JobStep
  <1>7. CASE ExecuteStep
    <2>1. ASSUME NEW keeper \in Senders, NEW id \in JobIds, ExecuteInvalidJob(keeper, id)
          PROVE  IInv'
      BY <1>1, <1>2, <2>1, ExecuteInvalidJobStep DEF ExecuteInvalidJob
    <2>2. ASSUME NEW keeper \in Senders, NEW id \in JobIds, ExecuteJob(keeper, id)
          PROVE  IInv'
      BY <2>2, ExecuteJobInv DEF ExecuteJob
    <2>3. ASSUME NEW terminates \in BOOLEAN, JobSucceeds(terminates)
          PROVE  IInv'
      <3>1. Len(stack) \in DOMAIN stack
        BY <1>1, <2>3, EmptySeq DEF JobSucceeds
      <3>2. \A k \in 1..Len(stack) : stack[k].account \in Range(Storage.accounts)
        BY <1>1 DEF IInv, FrameInv, Storage
      <3>. QED
        BY <1>1, <2>3, <3>1, <3>2, ReplyInv DEF JobSucceeds
    <2>4. ASSUME NEW terminates \in BOOLEAN, NEW i \in DOMAIN stack, JobFails(i, terminates)
          PROVE  IInv'
      <3>1. StorageInv(stack[i].before)
        BY DEF IInv, FrameInv
      <3>2. \A k \in 1..i : stack[k].account \in Range(stack[i].before.accounts)
        BY <1>1 DEF IInv, FrameInv
      <3>. QED
        BY <2>4, <3>1, <3>2, ReplyInv DEF JobFails
    <2>5. CASE PayKeeper
      <3>1. Len(stack) \in DOMAIN stack
        BY <1>1, <2>5, EmptySeq DEF PayKeeper
      <3>2. FrameOK(Top)
        BY <3>1 DEF IInv, FrameInv, Top
      <3>3. StorageInv(Storage)'
        BY <1>1, <2>5, <3>2, PayKeeperStep DEF FrameOK
      <3>4. Len(stack) - 1 \in 0..Len(stack)
        BY <1>1, <3>1
      <3>5. \A k \in 1..(Len(stack) - 1) : stack[k].account \in Range(accounts')
        <4>1. \A k \in 1..(Len(stack) - 1) : k \in DOMAIN stack
          BY <1>1
        <4>. QED
          BY <2>5, <4>1 DEF IInv, FrameInv, PayKeeper
      <3>. QED
        BY <2>5, <3>3, <3>4, <3>5, CutInv DEF PayKeeper
    <2>6. ASSUME NEW i \in DOMAIN stack, CallFails(i)
          PROVE  IInv'
      <3>1. StorageInv(stack[i].before)
        BY DEF IInv, FrameInv
      <3>2. StorageInv(Storage)'
        BY <2>6, <3>1, RestoreStep DEF CallFails
      <3>3. i - 1 \in 0..Len(stack)
        BY <1>1
      <3>4. \A k \in 1..(i - 1) : stack[k].account \in Range(accounts')
        <4>1. \A k \in 1..(i - 1) : k \in DOMAIN stack /\ k <= i
          BY <1>1
        <4>. QED
          BY <2>6, <4>1 DEF IInv, FrameInv, CallFails, Restore
      <3>. QED
        BY <2>6, <3>2, <3>3, <3>4, CutInv DEF CallFails
    <2>. QED
      BY <1>7, <2>1, <2>2, <2>3, <2>4, <2>5, <2>6 DEF ExecuteStep
  <1>8. CASE EvictStep
    <2>1. ASSUME NEW sender \in Senders, NEW id \in JobIds, EvictAndRequeue(sender, id)
          PROVE  IInv'
      BY <1>1, <1>2, <1>3, <2>1, EvictAndRequeueStep DEF EvictAndRequeue, MayRequeue, Requeued,
                                                         RequeueCharge
    <2>2. ASSUME NEW sender \in Senders, NEW id \in JobIds, EvictJob(sender, id)
          PROVE  IInv'
      BY <1>1, <1>2, <1>3, <2>2, EvictJobStep DEF EvictJob, MayEvict, Requeued, Refund, Charge
    <2>. QED
      BY <1>8, <2>1, <2>2 DEF EvictStep
  <1>9. CASE ConfigStep
    <2>1. ASSUME NEW sender \in Users, NEW new \in Configs, UpdateConfig(sender, new)
          PROVE  IInv'
      BY <1>1, <1>2, <2>1, UpdateConfigStep DEF UpdateConfig
    <2>. QED
      BY <1>9, <2>1 DEF ConfigStep
  <1>10. CASE Tick
    BY <1>1, <1>2, <1>10, TickStep DEF Tick
  <1>11. CASE UNCHANGED vars
    <2>1. StorageInv(Storage)'
      <3>1. balance' \in [Addresses -> Nat]
        BY <1>1, <1>11, KnownAddresses DEF vars
      <3>. QED
        BY <1>1, <1>11, <3>1, PayStep DEF vars
    <2>. QED
      BY <1>2, <1>11, <2>1 DEF vars
  <1>. QED
    BY <1>4, <1>5, <1>6, <1>7, <1>8, <1>9, <1>10, <1>11 DEF Next

\* The inductive invariant holds in every state of every behaviour.
THEOREM Invariance == Spec => []IInv
  BY InitInv, NextInv, PTL DEF Spec

-----------------------------------------------------------------------------
(* What follows *)

\* Every variable, and every storage that a failing call would put back, has
\* its type: no handler takes a balance or STATE.q below zero.
THEOREM TypeCorrect == Spec => []TypeOK
  <1>1. IInv => TypeOK
    BY DEF IInv, StorageInv, StackOK, FrameInv, TypeOK
  <1>. QED
    BY <1>1, Invariance, PTL

\* PENDING_JOBS and FINISHED_JOBS always share out the ids given out, whatever
\* the jobs of whatever contracts call during their execution.
THEOREM JobsPartitioned == Spec => []StoresPartitionIds
  <1>1. IInv => StoresPartitionIds
    BY DEF IInv, StorageInv, StoresPartitionIds
  <1>. QED
    BY <1>1, Invariance, PTL

\* STATE.q is never below the number of pending jobs, so the checked_sub of the
\* handlers that settle a job never fails.
THEOREM QueueCounterSufficient == Spec => []QueueCounterCovers
  <1>1. IInv => QueueCounterCovers
    BY DEF IInv, StorageInv, QueueCounterCovers
  <1>. QED
    BY <1>1, Invariance, PTL

-----------------------------------------------------------------------------
(* The configuration and the accounts *)

\* Every configuration that has been accepted is valid, and the accounts are
\* one to one; in the storage that a failing call puts back, too.
Sound(s) == ValidConfig(s.config) /\ IsInjective(s.accounts)

SoundInv == Sound(Storage) /\ \A i \in DOMAIN stack : Sound(stack[i].before)

\* A fraction n/m < 1 of d is at most d.
LEMMA Fraction ==
  ASSUME NEW n \in Nat, NEW m \in Nat, n < m, NEW d \in Nat
  PROVE  (n * d) \div m \in 0..d
  <1>. DEFINE k == (n * d) \div m
  <1>1. n * d \in Nat /\ n * d <= m * d
    OBVIOUS
  <1>2. k \in Nat /\ m * k <= n * d
    BY <1>1
  <1>3. m * k <= m * d
    BY <1>1, <1>2
  <1>. HIDE DEF k
  <1>4. k <= d
    BY <1>2, <1>3
  <1>. QED
    BY <1>2, <1>4 DEF k

\* A larger numerator never makes the fraction smaller.
LEMMA FractionGrows ==
  ASSUME NEW n \in Nat, NEW m \in Nat, m > 0, NEW d \in Nat
  PROVE  (n * d) \div m <= ((n + 1) * d) \div m
  <1>. DEFINE a == n * d
              b == (n + 1) * d
  <1>1. a \in Nat /\ b \in Nat /\ a <= b
    OBVIOUS
  <1>. HIDE DEF a, b
  <1>2. a \div m <= b \div m
    BY <1>1
  <1>. QED
    BY <1>2 DEF a, b

\* With a valid configuration the waiting time stays between t_min and t_max
\* and does not grow with the queue, for every length of the queue: no
\* subtraction of evict_job underflows.
THEOREM PeriodBounded ==
  ASSUME NEW c \in ConfigType, ValidConfig(c), NEW n \in Nat
  PROVE  PeriodOK(c, n)
  <1>. DEFINE d == c.t_max - c.t_min
  <1>1. /\ c.t_max \in Nat /\ c.t_min \in Nat /\ c.q_max \in Nat /\ d \in Nat
        /\ c.t_max = c.t_min + d
    BY DEF ConfigType, ValidConfig
  <1>2. CASE n >= c.q_max
    BY <1>1, <1>2 DEF PeriodOK, EvictionPeriod
  <1>3. CASE n < c.q_max
    <2>1. (n * d) \div c.q_max \in 0..d
      BY <1>1, <1>3, Fraction
    <2>2. EvictionPeriod(c, n) = c.t_max - (n * d) \div c.q_max
      BY <1>3 DEF EvictionPeriod
    <2>3. CASE n + 1 < c.q_max
      <3>1. EvictionPeriod(c, n + 1) = c.t_max - ((n + 1) * d) \div c.q_max
        BY <2>3 DEF EvictionPeriod
      <3>2. ((n + 1) * d) \div c.q_max \in 0..d
        BY <1>1, <2>3, Fraction
      <3>3. (n * d) \div c.q_max <= ((n + 1) * d) \div c.q_max
        BY <1>1, <1>3, FractionGrows
      <3>. HIDE DEF d
      <3>. QED
        BY <1>1, <2>1, <2>2, <3>1, <3>2, <3>3 DEF PeriodOK
    <2>4. CASE ~(n + 1 < c.q_max)
      <3>1. EvictionPeriod(c, n + 1) = c.t_min
        BY <2>4 DEF EvictionPeriod
      <3>. HIDE DEF d
      <3>. QED
        BY <1>1, <2>1, <2>2, <3>1 DEF PeriodOK
    <2>. QED
      BY <2>3, <2>4
  <1>. QED
    BY <1>1, <1>2, <1>3

\* A step that leaves the stack, the configuration and the accounts alone.
LEMMA SameSound ==
  ASSUME SoundInv, UNCHANGED <<config, accounts, stack>>
  PROVE  SoundInv'
  BY DEF SoundInv, Sound, Storage, ValidConfig, IsInjective

\* Every step keeps the configuration valid and the accounts one to one.
LEMMA NextSound ==
  ASSUME IInv, SoundInv, [Next]_vars
  PROVE  SoundInv'
  <1>1. /\ DOMAIN stack = 1..Len(stack) /\ Len(stack) \in Nat /\ StackOK
    BY SeqOverRange DEF IInv, StackOK
  <1>2. ASSUME NEW sender \in Senders, NEW amount \in Deposits, NEW addr \in AccountAddrs,
               OpenAccount(sender, amount, addr)
        PROVE  SoundInv'
    <2>1. IsInjective(accounts')
      BY <1>2 DEF OpenAccount, SoundInv, Sound, Storage, IsInjective, Save, IsAccount, Range
    <2>. QED
      BY <1>2, <2>1 DEF OpenAccount, SoundInv, Sound, Storage, ValidConfig
  <1>3. ASSUME NEW keeper \in Senders, NEW id \in JobIds, ExecuteJob(keeper, id)
        PROVE  SoundInv'
    <2>. DEFINE f == [id |-> id, account |-> accounts[pending[id].owner],
                      keeper |-> accounts[keeper], reward |-> pending[id].reward,
                      phase |-> "messages", callback |-> FALSE, before |-> Storage]
    <2>1. stack' = Append(stack, f) /\ f.before = Storage
          /\ UNCHANGED <<config, accounts>>
      BY <1>3 DEF ExecuteJob
    <2>. HIDE DEF f
    <2>2. \A i \in DOMAIN stack' : stack'[i] = f \/ (i \in DOMAIN stack /\ stack'[i] = stack[i])
      BY <1>1, <2>1 DEF StackOK
    <2>3. Sound(Storage)' /\ Sound(f.before)
      BY <2>1 DEF SoundInv, Sound, Storage, ValidConfig, IsInjective
    <2>. QED
      BY <2>2, <2>3 DEF SoundInv
  <1>4. ASSUME NEW i \in DOMAIN stack, NEW s, Sound(s), NEW status, NEW terminates,
               JobReply(i, s, status, terminates)
        PROVE  SoundInv'
    <2>1. PICK b :
            stack' = Append(SubSeq(stack, 1, i - 1),
                            [stack[i] EXCEPT !.phase = "replied", !.callback = b])
      BY <1>4 DEF JobReply
    <2>2. config' = s.config /\ accounts' = s.accounts
      BY <1>4 DEF JobReply
    <2>. DEFINE f == [stack[i] EXCEPT !.phase = "replied", !.callback = b]
    <2>3. f.before = stack[i].before
      BY <1>4, <1>1 DEF IInv, FrameInv, FrameOK
    <2>4. i - 1 \in 0..Len(stack) /\ (i - 1) + 1 <= MaxDepth
      BY <1>1, BoundAssumption DEF StackOK
    <2>. HIDE DEF f
    <2>5. /\ DOMAIN stack' = 1..((i - 1) + 1) /\ stack'[(i - 1) + 1] = f
          /\ \A k \in 1..(i - 1) : stack'[k] = stack[k]
      BY <1>1, <2>1, <2>4, PushFrame DEF f
    <2>6. \A k \in DOMAIN stack' : Sound(stack'[k].before)
      BY <1>1, <2>3, <2>5 DEF SoundInv
    <2>7. Sound(Storage)'
      BY <1>4, <2>2 DEF Sound, Storage, ValidConfig, IsInjective
    <2>. QED
      BY <2>6, <2>7 DEF SoundInv
  <1>5. ASSUME NEW n \in 0..Len(stack), stack' = SubSeq(stack, 1, n), Sound(Storage)'
        PROVE  SoundInv'
    <2>1. DOMAIN stack' = 1..n /\ \A k \in 1..n : stack'[k] = stack[k]
      BY <1>1, <1>5, CutStack
    <2>. QED
      BY <1>1, <1>5, <2>1 DEF SoundInv
  <1>6. CASE JobStep \/ SpendStep \/ EvictStep \/ Tick \/ UNCHANGED vars
             \/ \E sender \in Senders, amount \in Deposits : FundAccount(sender, amount)
    <2>1. UNCHANGED <<config, accounts, stack>>
      BY <1>6 DEF JobStep, CreateJob, DeleteJob, UpdateJob, SpendStep, SpendFromAccount,
                  EvictStep, EvictAndRequeue, EvictJob, Tick, vars, FundAccount, MayDelete,
                  CancellationFee, Refund, Charge, MayRequeue, Requeued, RequeueCharge, MayEvict
    <2>. QED
      BY <2>1, SameSound
  <1>7. CASE ExecuteStep
    <2>1. CASE \E terminates \in BOOLEAN : JobSucceeds(terminates)
      <3>1. Len(stack) \in DOMAIN stack
        BY <1>1, <2>1, EmptySeq DEF JobSucceeds, StackOK
      <3>2. Sound(Storage)
        BY DEF SoundInv
      <3>. QED
        BY <1>4, <2>1, <3>1, <3>2 DEF JobSucceeds
    <2>2. CASE \E terminates \in BOOLEAN, i \in DOMAIN stack : JobFails(i, terminates)
      BY <1>4, <2>2 DEF JobFails, SoundInv
    <2>3. CASE PayKeeper
      <3>1. Len(stack) - 1 \in 0..Len(stack)
        BY <1>1, <2>3, EmptySeq DEF PayKeeper, StackOK
      <3>2. Sound(Storage)'
        BY <2>3 DEF PayKeeper, SoundInv, Sound, Storage, ValidConfig, IsInjective
      <3>. QED
        BY <1>5, <2>3, <3>1, <3>2 DEF PayKeeper
    <2>4. ASSUME NEW i \in DOMAIN stack, CallFails(i)
          PROVE  SoundInv'
      <3>1. i - 1 \in 0..Len(stack)
        BY <1>1
      <3>2. Sound(Storage)'
        BY <2>4 DEF CallFails, Restore, SoundInv, Sound, Storage, ValidConfig, IsInjective
      <3>. QED
        BY <1>5, <2>4, <3>1, <3>2 DEF CallFails
    <2>5. ASSUME NEW keeper \in Senders, NEW id \in JobIds, ExecuteInvalidJob(keeper, id)
          PROVE  SoundInv'
      BY <2>5, SameSound DEF ExecuteInvalidJob
    <2>. QED
      BY <1>3, <1>7, <2>1, <2>2, <2>3, <2>4, <2>5 DEF ExecuteStep
  <1>8. CASE ConfigStep
    <2>1. ValidConfig(config') /\ UNCHANGED <<accounts, stack>>
      BY <1>8 DEF ConfigStep, UpdateConfig
    <2>. QED
      BY <2>1 DEF SoundInv, Sound, Storage, ValidConfig, IsInjective
  <1>9. CASE AccountStep
    BY <1>2, <1>6, <1>9 DEF AccountStep
  <1>. QED
    BY <1>6, <1>7, <1>8, <1>9 DEF Next

\* Both hold from the beginning.
LEMMA SoundInvariance == Spec => []SoundInv
  <1>1. Init => SoundInv
    <2>1. ASSUME Init PROVE DOMAIN accounts = {} /\ DOMAIN stack = {}
      BY <2>1 DEF Init, EmptyMap
    <2>. QED
      BY <2>1 DEF Init, SoundInv, Sound, Storage, IsInjective
  <1>. QED
    BY <1>1, NextSound, Invariance, PTL DEF Spec

\* No account ever has two owners, and no account owns an account.
THEOREM AccountsOneToOne == Spec => []AccountsSound
  <1>1. IInv /\ SoundInv => AccountsSound
    BY AddressAssumption
       DEF IInv, StorageInv, StorageOK, Storage, SoundInv, Sound, AccountsSound, IsMap, Range
  <1>. QED
    BY <1>1, Invariance, SoundInvariance, PTL

\* Whatever the configuration is changed to, the waiting time of evict_job stays
\* between its t_min and its t_max.
THEOREM PeriodAlwaysBounded == Spec => []EvictionPeriodOK
  <1>1. IInv /\ SoundInv => EvictionPeriodOK
    <2>1. ASSUME IInv, SoundInv PROVE config \in ConfigType /\ ValidConfig(config)
      BY <2>1 DEF IInv, StorageInv, StorageOK, Storage, SoundInv, Sound
    <2>2. ASSUME IInv, SoundInv, NEW n \in 0..(config.q_max + 1) PROVE PeriodOK(config, n)
      <3>1. n \in Nat
        BY <2>1, <2>2 DEF ConfigType
      <3>. QED
        BY <2>1, <2>2, <3>1, PeriodBounded
    <2>. QED
      BY <2>2 DEF EvictionPeriodOK
  <1>. QED
    BY <1>1, Invariance, SoundInvariance, PTL

-----------------------------------------------------------------------------
(* What becomes of jobs: WarpController implements JobLifecycle, a recurring *)
(* job never forks, and a reward read before a submessage is covered after   *)
(* it.  A transaction is many steps of WarpController and one of             *)
(* JobLifecycle, so the invariant relates every storage that a failing call  *)
(* would put back to the ones after it: each leads to the next, and the last *)
(* one to the current storage, by steps that JobLifecycle allows taken       *)
(* together.                                                                 *)

\* From storage s to storage t pending jobs stay or are settled, with no lower
\* reward, and settled ones stay as they are.
Advances(s, t) ==
  /\ \A id \in DOMAIN s.pending :
       \/ id \in DOMAIN t.pending /\ t.pending[id].reward >= s.pending[id].reward
       \/ id \in DOMAIN t.finished /\ t.finished[id].reward >= s.pending[id].reward
  /\ \A id \in DOMAIN s.finished :
       /\ id \in DOMAIN t.finished
       /\ t.finished[id].status = s.finished[id].status
       /\ t.finished[id].reward = s.finished[id].reward

\* Every job has a reward.
Paid(s) ==
  /\ \A id \in DOMAIN s.pending : s.pending[id].reward > 0
  /\ \A id \in DOMAIN s.finished : s.finished[id].reward > 0

\* No two pending jobs are of one series, and each series has the id of its
\* first job for a name.
OneEach(s) ==
  \A i \in DOMAIN s.pending :
    /\ s.pending[i].name < s.current_job_id
    /\ \A j \in DOMAIN s.pending : s.pending[i].name = s.pending[j].name => i = j

Good(s) == Paid(s) /\ OneEach(s)

\* The frames lead from one to the next and to the current storage, and each
\* holds the reward its job had when it was begun.
LifeInv ==
  /\ Good(Storage)
  /\ \A i \in DOMAIN stack :
       LET f == stack[i] IN
       /\ Good(f.before)
       /\ Advances(f.before, Storage)
       /\ f.id \in DOMAIN f.before.pending
       /\ f.reward = f.before.pending[f.id].reward
  /\ \A i, j \in DOMAIN stack : i <= j => Advances(stack[i].before, stack[j].before)

-----------------------------------------------------------------------------
(* Lemmas about Advances *)

\* The jobs of a storage are typed.
LEMMA StoredTypes ==
  ASSUME NEW s, StorageInv(s)
  PROVE  /\ \A id \in DOMAIN s.pending :
              /\ id \in JobIds /\ s.pending[id] \in JobType
              /\ s.pending[id].reward \in Nat /\ s.pending[id].name \in JobIds
              /\ s.pending[id].status = "Pending"
         /\ \A id \in DOMAIN s.finished :
              /\ id \in JobIds /\ s.finished[id] \in JobType
              /\ s.finished[id].reward \in Nat
              /\ s.finished[id].status \in Terminal
         /\ s.current_job_id \in Nat
         /\ DOMAIN s.pending \cap DOMAIN s.finished = {}
         /\ DOMAIN s.pending \cup DOMAIN s.finished = 1..(s.current_job_id - 1)
  <1>1. /\ IsMap(s.pending, JobIds, JobType) /\ IsMap(s.finished, JobIds, JobType)
        /\ s.current_job_id \in 1..(MaxJobs + 1)
    BY DEF StorageInv, StorageOK
  <1>2. \A job \in JobType : job.reward \in Nat /\ job.name \in JobIds
    BY DEF JobType
  <1>3. StoresPartition(s)
    BY DEF StorageInv
  <1>4. s.current_job_id \in Nat
    BY <1>1
  <1>. QED
    BY <1>1, <1>2, <1>3, <1>4 DEF IsMap, StoresPartition

\* Nothing happens, or one thing after the other.
LEMMA AdvancesReflexive ==
  ASSUME NEW s, StorageInv(s)
  PROVE  Advances(s, s)
  BY StoredTypes DEF Advances

LEMMA AdvancesTransitive ==
  ASSUME NEW s, NEW t, NEW u, StorageInv(s), StorageInv(t), StorageInv(u),
         Advances(s, t), Advances(t, u)
  PROVE  Advances(s, u)
  <1>1. ASSUME NEW id \in DOMAIN s.pending
        PROVE  \/ id \in DOMAIN u.pending /\ u.pending[id].reward >= s.pending[id].reward
               \/ id \in DOMAIN u.finished /\ u.finished[id].reward >= s.pending[id].reward
    <2>1. s.pending[id].reward \in Nat
      BY StoredTypes
    <2>2. CASE id \in DOMAIN t.pending /\ t.pending[id].reward >= s.pending[id].reward
      <3>1. t.pending[id].reward \in Nat
        BY <2>2, StoredTypes
      <3>2. CASE id \in DOMAIN u.pending /\ u.pending[id].reward >= t.pending[id].reward
        <4>1. u.pending[id].reward \in Nat
          BY <3>2, StoredTypes
        <4>. QED
          BY <2>1, <2>2, <3>1, <3>2, <4>1
      <3>3. CASE id \in DOMAIN u.finished /\ u.finished[id].reward >= t.pending[id].reward
        <4>1. u.finished[id].reward \in Nat
          BY <3>3, StoredTypes
        <4>. QED
          BY <2>1, <2>2, <3>1, <3>3, <4>1
      <3>. QED
        BY <2>2, <3>2, <3>3 DEF Advances
    <2>3. CASE id \in DOMAIN t.finished /\ t.finished[id].reward >= s.pending[id].reward
      BY <2>3 DEF Advances
    <2>. QED
      BY <2>2, <2>3 DEF Advances
  <1>2. ASSUME NEW id \in DOMAIN s.finished
        PROVE  /\ id \in DOMAIN u.finished
               /\ u.finished[id].status = s.finished[id].status
               /\ u.finished[id].reward = s.finished[id].reward
    BY DEF Advances
  <1>. QED
    BY <1>1, <1>2 DEF Advances

\* What a step does to the current storage, in terms of the variables.
LEMMA StorageFields ==
  /\ Storage.pending = pending /\ Storage.finished = finished
  /\ Storage.current_job_id = current_job_id
  /\ Storage.pending' = pending' /\ Storage.finished' = finished'
  /\ Storage.current_job_id' = current_job_id'
  BY DEF Storage

-----------------------------------------------------------------------------
(* Steps of the job stores *)

\* A step that changes pending jobs in place and lowers no reward.
LEMMA TouchLife ==
  ASSUME StorageInv(Storage), Good(Storage),
         DOMAIN pending' = DOMAIN pending,
         \A id \in DOMAIN pending : /\ pending'[id].name = pending[id].name
                                    /\ pending'[id].reward \in Nat
                                    /\ pending'[id].reward >= pending[id].reward,
         UNCHANGED <<current_job_id, finished>>
  PROVE  Good(Storage)' /\ Advances(Storage, Storage')
  <1>1. \A id \in DOMAIN pending : pending[id].reward \in Nat
    BY StoredTypes, StorageFields
  <1>2. Good(Storage)'
    BY <1>1, StorageFields DEF Good, Paid, OneEach
  <1>3. Advances(Storage, Storage')
    BY <1>1, StorageFields DEF Advances
  <1>. QED
    BY <1>2, <1>3

\* A step that settles a pending job.
LEMMA SettleLife ==
  ASSUME StorageInv(Storage), Good(Storage), NEW id \in DOMAIN pending, NEW status,
         Settle(id, status), UNCHANGED current_job_id
  PROVE  Good(Storage)' /\ Advances(Storage, Storage')
  <1>1. /\ pending[id] \in JobType /\ pending[id].reward \in Nat /\ id \notin DOMAIN finished
        /\ \A x \in DOMAIN pending : pending[x].reward \in Nat
    BY StoredTypes, StorageFields
  <1>2. /\ DOMAIN pending' = DOMAIN pending \ {id}
        /\ \A x \in DOMAIN pending' : pending'[x] = pending[x]
    BY StorageFields DEF Settle, WithoutJob, Remove, CanLeaveQueue
  <1>3. Finish(pending[id], status).reward = pending[id].reward
    BY <1>1 DEF Finish, JobType
  <1>4. /\ DOMAIN finished' = DOMAIN finished \cup {id}
        /\ finished'[id].reward = pending[id].reward
        /\ \A x \in DOMAIN finished : finished'[x] = finished[x]
    BY <1>1, <1>3 DEF Settle, Save, CanLeaveQueue
  <1>5. Good(Storage)'
    BY <1>1, <1>2, <1>4, StorageFields DEF Good, Paid, OneEach
  <1>6. Advances(Storage, Storage')
    BY <1>1, <1>2, <1>4, StorageFields DEF Advances
  <1>. QED
    BY <1>5, <1>6

\* create_job, whose job is the first of its series.
LEMMA CreateLife ==
  ASSUME StorageInv(Storage), Good(Storage), NEW sender \in Senders, NEW reward \in Rewards,
         NEW kind \in JobKinds, CreateJob(sender, reward, kind)
  PROVE  Good(Storage)' /\ Advances(Storage, Storage')
  <1>. DEFINE job == NewJob(OwnerOf(sender), current_job_id, reward, kind)
  <1>1. /\ current_job_id \in Nat /\ current_job_id \notin DOMAIN pending
        /\ \A x \in DOMAIN pending : pending[x].reward \in Nat /\ pending[x].name \in Nat
    BY StoredTypes, StorageFields DEF JobIds
  <1>2. job.reward = reward /\ job.name = current_job_id /\ reward \in Nat /\ reward > 0
    BY InputAssumption DEF NewJob, CreateJob
  <1>3. /\ pending' = Save(pending, current_job_id, job)
        /\ current_job_id' = current_job_id + 1
        /\ finished' = finished
    BY StorageFields DEF CreateJob, Enqueue
  <1>. HIDE DEF job
  <1>4. /\ DOMAIN pending' = DOMAIN pending \cup {current_job_id}
        /\ pending'[current_job_id] = job
        /\ \A x \in DOMAIN pending : pending'[x] = pending[x]
    BY <1>1, <1>3 DEF Save
  <1>5. Good(Storage)'
    BY <1>1, <1>2, <1>3, <1>4, StorageFields DEF Good, Paid, OneEach
  <1>6. Advances(Storage, Storage')
    BY <1>1, <1>3, <1>4, StorageFields DEF Advances
  <1>. QED
    BY <1>5, <1>6

\* reply(), from storage s: the next job of the series takes the place of the
\* one that leaves.
LEMMA ReplyLife ==
  ASSUME NEW s, StorageInv(s), Good(s), NEW i, NEW status, NEW terminates,
         JobReply(i, s, status, terminates)
  PROVE  Good(Storage)' /\ Advances(s, Storage')
  <1>. DEFINE id == stack[i].id
              job == s.pending[id]
              rest == WithoutJob(s, id)
              next == NewJob(job.owner, job.name, job.reward, job.kind)
  <1>1. /\ id \in DOMAIN s.pending /\ id \notin DOMAIN s.finished
        /\ finished' = Save(s.finished, id, Finish(job, status))
    BY DEF JobReply
  <1>2. /\ job \in JobType /\ job.reward \in Nat /\ job.name \in Nat
        /\ s.current_job_id \in Nat
        /\ \A x \in DOMAIN s.pending : s.pending[x].reward \in Nat /\ s.pending[x].name \in Nat
    BY <1>1, StoredTypes DEF JobIds
  <1>3. /\ DOMAIN rest = DOMAIN s.pending \ {id}
        /\ \A x \in DOMAIN rest : rest[x] = s.pending[x]
    BY DEF WithoutJob, Remove
  <1>4. Finish(job, status).reward = job.reward
    BY <1>2 DEF Finish, JobType
  <1>5. next.reward = job.reward /\ next.name = job.name
    BY DEF NewJob
  <1>6. \/ Enqueue(s, rest, next)
        \/ pending' = rest /\ current_job_id' = s.current_job_id
    BY DEF JobReply
  <1>7. s.current_job_id \notin DOMAIN s.pending
    BY StoredTypes
  <1>. HIDE DEF id, job, rest, next
  <1>8. /\ DOMAIN finished' = DOMAIN s.finished \cup {id}
        /\ finished'[id].reward = job.reward
        /\ \A x \in DOMAIN s.finished : finished'[x] = s.finished[x]
    BY <1>1, <1>4 DEF Save
  <1>9. /\ \A x \in DOMAIN rest : x \in DOMAIN pending' /\ pending'[x] = s.pending[x]
        /\ \A x \in DOMAIN pending' : x \notin DOMAIN rest =>
             x = s.current_job_id /\ pending'[x] = next /\ current_job_id' = s.current_job_id + 1
        /\ current_job_id' \in {s.current_job_id, s.current_job_id + 1}
    <2>1. CASE Enqueue(s, rest, next)
      BY <1>3, <1>7, <2>1 DEF Enqueue, Save
    <2>2. CASE pending' = rest /\ current_job_id' = s.current_job_id
      BY <1>3, <2>2
    <2>. QED
      BY <1>6, <2>1, <2>2
  <1>10. /\ job.reward > 0 /\ job.name < s.current_job_id
         /\ \A x \in DOMAIN rest : /\ s.pending[x].name # job.name
                                   /\ s.pending[x].name < s.current_job_id
                                   /\ s.pending[x].reward > 0
                                   /\ x \in DOMAIN s.pending
    BY <1>1, <1>3 DEF Good, Paid, OneEach, job
  <1>11. Paid(Storage)'
    <2>1. \A x \in DOMAIN pending' : pending'[x].reward > 0
      BY <1>5, <1>9, <1>10
    <2>2. \A x \in DOMAIN finished' : finished'[x].reward > 0
      BY <1>8, <1>10 DEF Good, Paid
    <2>. QED
      BY <2>1, <2>2, StorageFields DEF Paid
  <1>12. OneEach(Storage)'
    <2>1. \A x \in DOMAIN pending' : pending'[x].name < current_job_id'
      BY <1>2, <1>5, <1>9, <1>10
    <2>2. \A x, y \in DOMAIN pending' : pending'[x].name = pending'[y].name => x = y
      <3>1. \A x, y \in DOMAIN rest : s.pending[x].name = s.pending[y].name => x = y
        BY <1>10 DEF Good, OneEach
      <3>. QED
        BY <1>5, <1>9, <1>10, <3>1
    <2>. QED
      BY <2>1, <2>2, StorageFields DEF OneEach
  <1>13. Advances(s, Storage')
    <2>1. ASSUME NEW x \in DOMAIN s.pending
          PROVE  \/ x \in DOMAIN pending' /\ pending'[x].reward >= s.pending[x].reward
                 \/ x \in DOMAIN finished' /\ finished'[x].reward >= s.pending[x].reward
      <3>1. CASE x = id
        BY <1>2, <1>8, <3>1 DEF job
      <3>2. CASE x # id
        BY <1>2, <1>3, <1>9, <3>2
      <3>. QED
        BY <3>1, <3>2
    <2>. QED
      BY <1>8, <2>1, StorageFields DEF Advances
  <1>. QED
    BY <1>11, <1>12, <1>13 DEF Good

-----------------------------------------------------------------------------
(* Steps of the stack *)

\* The frame holds the reward its job had when it was begun.
Begun(f) ==
  /\ f.id \in DOMAIN f.before.pending
  /\ f.reward = f.before.pending[f.id].reward

\* The storage at the beginning of the (n + 1)st call, or the current one.
Before(n) == IF n = Len(stack) THEN Storage ELSE stack[n + 1].before

\* What LifeInv says of one frame and of the frames below it.
FrameLife(i) ==
  /\ Good(stack[i].before)
  /\ Advances(stack[i].before, Storage)
  /\ Begun(stack[i])
  /\ \A k \in DOMAIN stack : k <= i => Advances(stack[k].before, stack[i].before)

LEMMA LifeByFrame == LifeInv <=> Good(Storage) /\ \A i \in DOMAIN stack : FrameLife(i)
  BY DEF LifeInv, FrameLife, Begun

\* A handler that leaves the stack alone.
LEMMA SameStackLife ==
  ASSUME IInv, LifeInv, StorageInv(Storage)', Good(Storage)',
         Advances(Storage, Storage'), stack' = stack
  PROVE  LifeInv' /\ Advances(Committed, Committed')
  <1>1. \A i \in DOMAIN stack : StorageInv(stack[i].before) /\ FrameLife(i)
    BY LifeByFrame DEF IInv, FrameInv
  <1>2. StorageInv(Storage) /\ StorageInv(Storage')
    BY DEF IInv
  <1>3. \A i \in DOMAIN stack : Advances(stack[i].before, Storage')
    BY <1>1, <1>2, AdvancesTransitive DEF FrameLife
  <1>4. LifeInv'
    BY <1>1, <1>3 DEF LifeInv, FrameLife, Begun
  <1>5. CASE stack = <<>>
    <2>1. Committed = Storage /\ Committed' = Storage'
      BY <1>5 DEF Committed
    <2>. QED
      BY <1>4, <2>1
  <1>6. CASE stack # <<>>
    <2>1. 1 \in DOMAIN stack
      BY <1>6, SeqOverRange, EmptySeq DEF IInv, StackOK
    <2>2. Committed = stack[1].before /\ Committed' = stack[1].before
      BY <1>6 DEF Committed
    <2>. QED
      BY <1>1, <1>4, <2>1, <2>2, AdvancesReflexive
  <1>. QED
    BY <1>4, <1>5, <1>6

\* A call that ends, well or not, with the frame it began.
LEMMA CutLife ==
  ASSUME IInv, LifeInv, Good(Storage)',
         NEW n \in Nat, n < Len(stack), stack' = SubSeq(stack, 1, n),
         \A k \in 1..(n + 1) : Advances(stack[k].before, Storage')
  PROVE  LifeInv' /\ Advances(Committed, Committed')
  <1>1. DOMAIN stack = 1..Len(stack) /\ Len(stack) \in Nat
    BY SeqOverRange DEF IInv, StackOK
  <1>2. DOMAIN stack' = 1..n /\ \A k \in 1..n : stack'[k] = stack[k]
    BY <1>1, CutStack DEF IInv
  <1>3. \A i \in 1..n : FrameLife(i)'
    BY <1>1, <1>2, LifeByFrame DEF FrameLife
  <1>4. LifeInv'
    BY <1>2, <1>3 DEF LifeInv, FrameLife, Begun
  <1>5. 1 \in DOMAIN stack /\ stack # <<>>
    BY <1>1
  <1>6. Committed = stack[1].before
    BY <1>5 DEF Committed
  <1>7. CASE n = 0
    <2>1. stack' = <<>>
      BY <1>2, <1>7, CutStack, EmptySeq DEF IInv, StackOK
    <2>2. Committed' = Storage'
      BY <2>1 DEF Committed
    <2>. QED
      BY <1>4, <1>6, <1>7, <2>2
  <1>8. CASE n # 0
    <2>1. 1 \in DOMAIN stack' /\ stack' # <<>> /\ stack'[1] = stack[1]
      BY <1>2, <1>8
    <2>2. Committed' = stack[1].before
      BY <2>1 DEF Committed
    <2>. QED
      BY <1>4, <1>5, <1>6, <2>2, AdvancesReflexive DEF IInv, FrameInv
  <1>. QED
    BY <1>7, <1>8

\* The next index of a sequence that goes on.
LEMMA NextIndex ==
  ASSUME NEW n \in Nat, NEW m \in Nat, n <= m, n # m
  PROVE  n + 1 \in 1..m
  OBVIOUS

\* A call that begins, or goes on after its submessage, above n others.
LEMMA PushLife ==
  ASSUME IInv, LifeInv, StorageInv(Storage)', Good(Storage)',
         NEW n \in 0..Len(stack), n + 1 <= MaxDepth, NEW f,
         stack' = Append(SubSeq(stack, 1, n), f),
         f.before = Before(n), Advances(f.before, Storage'), Begun(f)
  PROVE  LifeInv' /\ Advances(Committed, Committed')
  <1>1. DOMAIN stack = 1..Len(stack) /\ Len(stack) \in Nat
    BY SeqOverRange DEF IInv, StackOK
  <1>2. /\ DOMAIN stack' = 1..(n + 1) /\ \A k \in 1..n : stack'[k] = stack[k]
        /\ stack'[n + 1] = f
    BY <1>1, PushFrame DEF IInv
  <1>. n \in Nat /\ n <= Len(stack)
    BY <1>1
  <1>0. \A k \in 1..n : k \in DOMAIN stack
    BY <1>1
  <1>3. \A k \in 1..n : StorageInv(stack[k].before) /\ FrameLife(k)
    BY <1>0, LifeByFrame DEF IInv, FrameInv
  <1>4. /\ StorageInv(f.before) /\ Good(f.before)
        /\ \A k \in 1..n : Advances(stack[k].before, f.before)
    <2>1. CASE n = Len(stack)
      <3>1. f.before = Storage
        BY <2>1 DEF Before
      <3>. QED
        BY <1>3, <3>1 DEF IInv, LifeInv, FrameLife
    <2>2. CASE n # Len(stack)
      <3>0. f.before = stack[n + 1].before
        BY <2>2 DEF Before
      <3>1. n + 1 \in DOMAIN stack
        <4>1. n + 1 \in 1..Len(stack)
          BY <1>1, <2>2, NextIndex
        <4>. QED
          BY <1>1, <4>1
      <3>2. StorageInv(stack[n + 1].before) /\ FrameLife(n + 1)
        BY <3>1, LifeByFrame DEF IInv, FrameInv
      <3>3. \A k \in 1..n : k \in DOMAIN stack /\ k <= n + 1
        BY <1>1
      <3>. QED
        BY <3>0, <3>1, <3>2, <3>3 DEF FrameLife
    <2>. QED
      BY <2>1, <2>2
  <1>5. StorageInv(Storage')
    OBVIOUS
  <1>6. \A k \in 1..n : Advances(stack[k].before, Storage')
    BY <1>3, <1>4, <1>5, AdvancesTransitive
  <1>7. Advances(f.before, f.before)
    BY <1>4, AdvancesReflexive
  <1>8. \A i \in 1..n : FrameLife(i)'
    <2>1. ASSUME NEW i \in 1..n
          PROVE  FrameLife(i)'
      <3>1. FrameLife(i) /\ stack'[i] = stack[i]
        BY <1>2, <1>3
      <3>2. \A k \in DOMAIN stack' : k <= i => k \in DOMAIN stack /\ stack'[k] = stack[k]
        BY <1>1, <1>2
      <3>. QED
        BY <1>6, <3>1, <3>2 DEF FrameLife
    <2>. QED
      BY <2>1
  <1>9. FrameLife(n + 1)'
    <2>1. \A k \in DOMAIN stack' : k = n + 1 \/ k \in 1..n
      BY <1>2
    <2>. QED
      BY <1>2, <1>4, <1>7, <2>1 DEF FrameLife
  <1>10. \A i \in DOMAIN stack' : FrameLife(i)'
    <2>1. \A i \in DOMAIN stack' : i = n + 1 \/ i \in 1..n
      BY <1>2
    <2>. QED
      BY <1>8, <1>9, <2>1
  <1>11. LifeInv'
    BY <1>10 DEF LifeInv, FrameLife, Begun
  <1>12. 1 \in DOMAIN stack' /\ stack' # <<>> /\ Committed' = stack'[1].before
    <2>1. 1 \in DOMAIN stack'
      BY <1>2
    <2>2. stack' # <<>>
      <3>1. DOMAIN <<>> = {}
        OBVIOUS
      <3>. QED
        BY <2>1, <3>1, Zenon
    <2>. QED
      BY <2>1, <2>2 DEF Committed
  <1>13. CASE n = 0
    <2>1. Committed = f.before
      <3>1. CASE stack = <<>>
        <4>1. n = Len(stack)
          BY <1>13, <3>1
        <4>. QED
          BY <3>1, <4>1 DEF Committed, Before
      <3>2. CASE stack # <<>>
        <4>1. n # Len(stack)
          BY <1>1, <1>13, <3>2, EmptySeq DEF IInv, StackOK
        <4>2. f.before = stack[n + 1].before
          BY <4>1 DEF Before
        <4>3. n + 1 = 1
          BY <1>13
        <4>. QED
          BY <3>2, <4>2, <4>3 DEF Committed
      <3>. QED
        BY <3>1, <3>2
    <2>2. Committed' = f.before
      BY <1>2, <1>12, <1>13
    <2>. QED
      BY <1>7, <1>11, <2>1, <2>2
  <1>14. CASE n # 0
    <2>1. 1 \in 1..n /\ stack # <<>>
      BY <1>1, <1>14
    <2>2. Committed = stack[1].before /\ Committed' = stack[1].before
      BY <1>2, <1>12, <2>1 DEF Committed
    <2>. QED
      BY <1>3, <1>11, <2>1, <2>2, AdvancesReflexive
  <1>. QED
    BY <1>13, <1>14

-----------------------------------------------------------------------------
(* The handlers *)

\* Payments, accounts and the configuration leave the jobs alone.
LEMMA JobsUntouched ==
  ASSUME IInv, LifeInv, UNCHANGED <<current_job_id, pending, finished>>
  PROVE  Good(Storage)' /\ Advances(Storage, Storage')
  <1>1. StorageInv(Storage) /\ Good(Storage)
    BY DEF IInv, LifeInv
  <1>2. \A id \in DOMAIN pending : pending[id].reward \in Nat
    BY <1>1, StoredTypes, StorageFields
  <1>. QED
    BY <1>1, <1>2, TouchLife

\* update_job, evict_job that requeues, and time change pending jobs in place.
LEMMA JobsTouched ==
  ASSUME IInv, LifeInv,
         \/ \E sender \in Senders, id \in JobIds, added \in Additions :
              UpdateJob(sender, id, added)
         \/ \E sender \in Senders, id \in JobIds : EvictAndRequeue(sender, id)
         \/ Tick
  PROVE  Good(Storage)' /\ Advances(Storage, Storage')
  <1>1. StorageInv(Storage) /\ Good(Storage)
    BY DEF IInv, LifeInv
  <1>2. /\ \A id \in DOMAIN pending : pending[id] \in JobType
        /\ \A job \in JobType : job.reward \in Nat
    BY <1>1, KnownAddresses DEF JobType
  <1>3. ASSUME NEW id \in DOMAIN pending, NEW job,
               job.name = pending[id].name, job.reward \in Nat,
               job.reward >= pending[id].reward, pending' = Save(pending, id, job),
               UNCHANGED <<current_job_id, finished>>
        PROVE  Good(Storage)' /\ Advances(Storage, Storage')
    <2>1. /\ DOMAIN pending' = DOMAIN pending /\ pending'[id] = job
          /\ \A x \in DOMAIN pending : x # id => pending'[x] = pending[x]
      BY <1>3 DEF Save
    <2>. QED
      BY <1>1, <1>2, <1>3, <2>1, TouchLife
  <1>4. ASSUME NEW sender \in Senders, NEW id \in JobIds, NEW added \in Additions,
               UpdateJob(sender, id, added)
        PROVE  Good(Storage)' /\ Advances(Storage, Storage')
    <2>. DEFINE job == AddReward(pending[id], added, config.minimum_reward)
    <2>1. id \in DOMAIN pending /\ pending' = Save(pending, id, job)
          /\ UNCHANGED <<current_job_id, finished>>
      BY <1>4 DEF UpdateJob
    <2>2. pending[id] \in JobType /\ pending[id].reward \in Nat /\ added \in Nat
      BY <1>2, <2>1, InputAssumption
    <2>3. job.name = pending[id].name /\ job.reward = pending[id].reward + added
      BY <2>2 DEF AddReward, JobType
    <2>. HIDE DEF job
    <2>4. job.reward \in Nat /\ job.reward >= pending[id].reward
      BY <2>2, <2>3
    <2>. QED
      BY <1>3, <2>1, <2>3, <2>4
  <1>5. ASSUME NEW sender \in Senders, NEW id \in JobIds, EvictAndRequeue(sender, id)
        PROVE  Good(Storage)' /\ Advances(Storage, Storage')
    <2>. DEFINE job == [pending[id] EXCEPT !.age = 0]
    <2>1. id \in DOMAIN pending /\ pending' = Save(pending, id, job)
          /\ UNCHANGED <<current_job_id, finished>>
      BY <1>5 DEF EvictAndRequeue, Evictable, MayRequeue, Requeued, RequeueCharge
    <2>2. pending[id] \in JobType /\ pending[id].reward \in Nat
      BY <1>2, <2>1
    <2>3. job.name = pending[id].name /\ job.reward = pending[id].reward
      BY <2>2 DEF JobType
    <2>. HIDE DEF job
    <2>4. job.reward \in Nat /\ job.reward >= pending[id].reward
      BY <2>2, <2>3
    <2>. QED
      BY <1>3, <2>1, <2>3, <2>4
  <1>6. CASE Tick
    <2>1. /\ DOMAIN pending' = DOMAIN pending
          /\ \A x \in DOMAIN pending : pending'[x] = Older(pending[x])
          /\ UNCHANGED <<current_job_id, finished>>
      BY <1>6 DEF Tick
    <2>2. \A job \in JobType : Older(job).name = job.name /\ Older(job).reward = job.reward
      BY DEF Older, JobType
    <2>3. \A x \in DOMAIN pending : /\ pending'[x].name = pending[x].name
                                    /\ pending'[x].reward = pending[x].reward
                                    /\ pending[x].reward \in Nat
      BY <1>2, <2>1, <2>2
    <2>4. \A x \in DOMAIN pending : /\ pending'[x].name = pending[x].name
                                    /\ pending'[x].reward \in Nat
                                    /\ pending'[x].reward >= pending[x].reward
      BY <2>3
    <2>. QED
      BY <1>1, <2>1, <2>4, TouchLife
  <1>. QED
    BY <1>4, <1>5, <1>6

\* delete_job, evict_job and execute_job of a job that cannot be evaluated
\* settle one.
LEMMA JobSettled ==
  ASSUME IInv, LifeInv,
         \E sender \in Senders, id \in JobIds :
           DeleteJob(sender, id) \/ EvictJob(sender, id) \/ ExecuteInvalidJob(sender, id)
  PROVE  Good(Storage)' /\ Advances(Storage, Storage')
  <1>1. StorageInv(Storage) /\ Good(Storage)
    BY DEF IInv, LifeInv
  <1>2. \E id \in DOMAIN pending, status \in Terminal :
          Settle(id, status) /\ UNCHANGED current_job_id
    BY DEF DeleteJob, EvictJob, Evictable, ExecuteInvalidJob, CanExecute, Terminal, MayDelete,
           CancellationFee, Refund, Charge, MayEvict, Requeued
  <1>. QED
    BY <1>1, <1>2, SettleLife

\* execute_job begins a call.
LEMMA ExecuteJobLife ==
  ASSUME IInv, IInv', LifeInv, NEW keeper \in Senders, NEW id \in JobIds, ExecuteJob(keeper, id)
  PROVE  LifeInv' /\ Advances(Committed, Committed')
  <1>. DEFINE n == Len(stack)
              f == [id |-> id, account |-> accounts[pending[id].owner],
                    keeper |-> accounts[keeper], reward |-> pending[id].reward,
                    phase |-> "messages", callback |-> FALSE, before |-> Storage]
  <1>1. /\ stack \in Seq(Range(stack)) /\ n \in Nat /\ n \in 0..Len(stack)
        /\ StorageInv(Storage) /\ StorageInv(Storage)'
    BY SeqOverRange DEF IInv, StackOK
  <1>2. n + 1 <= MaxDepth
    BY <1>1, BoundAssumption DEF ExecuteJob
  <1>3. SubSeq(stack, 1, n) = stack
    BY <1>1, SubSeqFull
  <1>4. stack' = Append(SubSeq(stack, 1, n), f)
    BY <1>3 DEF ExecuteJob
  <1>5. Good(Storage)' /\ Advances(Storage, Storage')
    BY JobsUntouched DEF ExecuteJob
  <1>6. f.before = Before(n) /\ f.before = Storage
    BY DEF Before
  <1>7. Begun(f)
    BY StorageFields DEF Begun, ExecuteJob, CanExecute
  <1>. HIDE DEF f, n
  <1>. QED
    BY <1>1, <1>2, <1>4, <1>5, <1>6, <1>7, PushLife

\* reply() goes on with the call of frame i from the storage that the
\* submessage left or, if it failed, found.
LEMMA ReplyOfCall ==
  ASSUME IInv, IInv', LifeInv, NEW i \in DOMAIN stack, NEW s, NEW status, NEW terminates,
         s = Storage \/ s = stack[i].before, JobReply(i, s, status, terminates)
  PROVE  LifeInv' /\ Advances(Committed, Committed')
  <1>1. /\ DOMAIN stack = 1..Len(stack) /\ Len(stack) \in Nat /\ Len(stack) <= MaxDepth
        /\ FrameLife(i) /\ FrameInv(i) /\ FrameOK(stack[i])
    BY SeqOverRange, LifeByFrame DEF IInv, StackOK, FrameInv
  <1>2. /\ StorageInv(s) /\ StorageInv(stack[i].before) /\ StorageInv(Storage)'
        /\ StorageInv(Storage') /\ Good(s)
    BY <1>1 DEF IInv, FrameInv, FrameLife, LifeInv
  <1>3. Advances(stack[i].before, s)
    BY <1>1, <1>2, AdvancesReflexive DEF FrameLife
  <1>4. Good(Storage)' /\ Advances(s, Storage')
    BY <1>2, ReplyLife
  <1>5. Advances(stack[i].before, Storage')
    BY <1>2, <1>3, <1>4, AdvancesTransitive
  <1>6. PICK b : stack' = Append(SubSeq(stack, 1, i - 1),
                                 [stack[i] EXCEPT !.phase = "replied", !.callback = b])
    BY DEF JobReply
  <1>. DEFINE f == [stack[i] EXCEPT !.phase = "replied", !.callback = b]
              n == i - 1
  <1>7. f.before = stack[i].before /\ f.id = stack[i].id /\ f.reward = stack[i].reward
    BY <1>1 DEF FrameOK
  <1>8. n \in 0..Len(stack) /\ n + 1 <= MaxDepth /\ n + 1 = i /\ n # Len(stack)
    BY <1>1, BoundAssumption
  <1>9. stack' = Append(SubSeq(stack, 1, n), f)
    BY <1>6
  <1>. HIDE DEF f, n
  <1>10. f.before = Before(n)
    BY <1>7, <1>8 DEF Before
  <1>11. Begun(f)
    BY <1>1, <1>7 DEF FrameLife, Begun
  <1>. QED
    BY <1>2, <1>4, <1>5, <1>7, <1>8, <1>9, <1>10, <1>11, PushLife

\* The keeper is paid, and the call is over.
LEMMA PayKeeperLife ==
  ASSUME IInv, LifeInv, PayKeeper
  PROVE  LifeInv' /\ Advances(Committed, Committed')
  <1>. DEFINE n == Len(stack) - 1
  <1>1. /\ DOMAIN stack = 1..Len(stack) /\ Len(stack) \in Nat /\ Len(stack) # 0
    BY SeqOverRange, EmptySeq DEF IInv, StackOK, PayKeeper
  <1>2. n \in Nat /\ n < Len(stack) /\ stack' = SubSeq(stack, 1, n) /\ n + 1 = Len(stack)
    BY <1>1 DEF PayKeeper
  <1>3. Good(Storage)' /\ Advances(Storage, Storage')
    BY JobsUntouched DEF PayKeeper
  <1>4. StorageInv(Storage) /\ StorageInv(Storage')
    <2>1. StorageInv(Storage) /\ FrameOK(Top)
      BY <1>1 DEF IInv, FrameInv, Top
    <2>2. StorageInv(Storage)'
      BY <2>1, PayKeeperStep DEF FrameOK
    <2>. QED
      BY <2>1, <2>2
  <1>5. \A k \in DOMAIN stack : StorageInv(stack[k].before) /\ FrameLife(k)
    BY LifeByFrame DEF IInv, FrameInv
  <1>6. \A k \in DOMAIN stack : Advances(stack[k].before, Storage')
    BY <1>3, <1>4, <1>5, AdvancesTransitive DEF FrameLife
  <1>. HIDE DEF n
  <1>7. \A k \in 1..(n + 1) : Advances(stack[k].before, Storage')
    BY <1>1, <1>2, <1>6
  <1>. QED
    BY <1>2, <1>3, <1>7, CutLife

\* A call that fails puts back the storage it found.
LEMMA CallFailsLife ==
  ASSUME IInv, LifeInv, NEW i \in DOMAIN stack, CallFails(i)
  PROVE  LifeInv' /\ Advances(Committed, Committed')
  <1>. DEFINE n == i - 1
  <1>1. DOMAIN stack = 1..Len(stack) /\ Len(stack) \in Nat
    BY SeqOverRange DEF IInv, StackOK
  <1>2. n \in Nat /\ n < Len(stack) /\ stack' = SubSeq(stack, 1, n) /\ n + 1 = i
    BY <1>1 DEF CallFails
  <1>3. FrameLife(i)
    BY LifeByFrame
  <1>4. /\ Storage.pending' = stack[i].before.pending
        /\ Storage.finished' = stack[i].before.finished
        /\ Storage.current_job_id' = stack[i].before.current_job_id
    BY StorageFields DEF CallFails, Restore
  <1>5. Good(Storage)'
    BY <1>3, <1>4 DEF FrameLife, Good, Paid, OneEach
  <1>6. \A k \in 1..(n + 1) : k \in DOMAIN stack /\ k <= i
    BY <1>1, <1>2
  <1>7. \A k \in 1..(n + 1) : Advances(stack[k].before, Storage')
    <2>1. \A k \in 1..(n + 1) : Advances(stack[k].before, stack[i].before)
      BY <1>3, <1>6 DEF FrameLife
    <2>. QED
      BY <1>4, <2>1 DEF Advances
  <1>. QED
    BY <1>2, <1>5, <1>7, CutLife

-----------------------------------------------------------------------------
(* The invariant *)

LEMMA InitLife == ASSUME Init PROVE LifeInv
  <1>1. DOMAIN pending = {} /\ DOMAIN finished = {} /\ DOMAIN stack = {}
    BY DEF Init, EmptyMap
  <1>. QED
    BY <1>1, StorageFields DEF LifeInv, Good, Paid, OneEach

\* Every step keeps the invariant, and the committed storage advances.
LEMMA NextLife ==
  ASSUME IInv, IInv', LifeInv, [Next]_vars
  PROVE  LifeInv' /\ Advances(Committed, Committed')
  <1>1. StorageInv(Storage) /\ StorageInv(Storage)' /\ Good(Storage)
    BY DEF IInv, LifeInv
  <1>2. ASSUME stack' = stack, Good(Storage)', Advances(Storage, Storage')
        PROVE  LifeInv' /\ Advances(Committed, Committed')
    BY <1>1, <1>2, SameStackLife
  <1>3. CASE AccountStep \/ SpendStep \/ ConfigStep \/ UNCHANGED vars
    <2>1. UNCHANGED <<current_job_id, pending, finished, stack>>
      BY <1>3 DEF AccountStep, OpenAccount, FundAccount, SpendStep, SpendFromAccount,
                  ConfigStep, UpdateConfig, vars
    <2>. QED
      BY <1>2, <2>1, JobsUntouched
  <1>4. CASE JobStep
    <2>1. stack' = stack
      BY <1>4 DEF JobStep, CreateJob, DeleteJob, UpdateJob, MayDelete, CancellationFee, Refund,
                  Charge
    <2>2. Good(Storage)' /\ Advances(Storage, Storage')
      BY <1>1, <1>4, CreateLife, JobSettled, JobsTouched DEF JobStep
    <2>. QED
      BY <1>2, <2>1, <2>2
  <1>5. CASE EvictStep \/ Tick
    <2>1. stack' = stack
      BY <1>5 DEF EvictStep, EvictAndRequeue, EvictJob, Tick, MayRequeue, Requeued,
                  RequeueCharge, MayEvict, Refund, Charge
    <2>2. Good(Storage)' /\ Advances(Storage, Storage')
      BY <1>5, JobSettled, JobsTouched DEF EvictStep
    <2>. QED
      BY <1>2, <2>1, <2>2
  <1>6. CASE ExecuteStep
    <2>1. CASE \E keeper \in Senders, id \in JobIds : ExecuteInvalidJob(keeper, id)
      <3>1. stack' = stack
        BY <2>1 DEF ExecuteInvalidJob
      <3>. QED
        BY <1>2, <2>1, <3>1, JobSettled
    <2>2. CASE \E keeper \in Senders, id \in JobIds : ExecuteJob(keeper, id)
      BY <2>2, ExecuteJobLife
    <2>3. CASE \E terminates \in BOOLEAN : JobSucceeds(terminates)
      <3>1. Len(stack) \in DOMAIN stack
        BY <2>3, SeqOverRange, EmptySeq DEF IInv, StackOK, JobSucceeds
      <3>. QED
        BY <2>3, <3>1, ReplyOfCall DEF JobSucceeds
    <2>4. CASE \E terminates \in BOOLEAN, i \in DOMAIN stack : JobFails(i, terminates)
      BY <2>4, ReplyOfCall DEF JobFails
    <2>5. CASE PayKeeper
      BY <2>5, PayKeeperLife
    <2>6. CASE \E i \in DOMAIN stack : CallFails(i)
      BY <2>6, CallFailsLife
    <2>. QED
      BY <1>6, <2>1, <2>2, <2>3, <2>4, <2>5, <2>6 DEF ExecuteStep
  <1>. QED
    BY <1>3, <1>4, <1>5, <1>6 DEF Next

LEMMA LifeInvariance == Spec => []LifeInv
  BY InitLife, NextLife, Invariance, PTL DEF Spec

-----------------------------------------------------------------------------
(* What follows *)

\* A recurring job never forks: however often its executions are nested or
\* fail, at most one job of the series that reply() goes on with is pending.
THEOREM SeriesNeverForks == Spec => []OnePendingPerSeries
  <1>1. LifeInv => OnePendingPerSeries
    BY StorageFields DEF LifeInv, Good, OneEach, OnePendingPerSeries
  <1>. QED
    BY <1>1, LifeInvariance, PTL

\* The reward that execute_job read before the messages of a job is never more
\* than the one in escrow while they run: neither the owner nor a failing call
\* can lower it in between.
THEOREM StaleRewardCovered == Spec => []StaleRewardBounded
  <1>1. ASSUME IInv, LifeInv, NEW i \in DOMAIN stack, stack[i].id \in DOMAIN pending
        PROVE  stack[i].reward <= pending[stack[i].id].reward
    <2>. DEFINE id == stack[i].id
                old == stack[i].before
    <2>1. FrameLife(i) /\ StorageInv(old) /\ StorageInv(Storage)
      BY <1>1, LifeByFrame DEF IInv, FrameInv
    <2>2. id \in DOMAIN old.pending /\ stack[i].reward = old.pending[id].reward
      BY <2>1 DEF FrameLife, Begun
    <2>3. id \notin DOMAIN finished /\ pending[id].reward \in Nat
      BY <1>1, <2>1, StoredTypes, StorageFields
    <2>4. old.pending[id].reward \in Nat
      BY <2>1, <2>2, StoredTypes
    <2>5. pending[id].reward >= old.pending[id].reward
      BY <2>1, <2>2, <2>3, StorageFields DEF FrameLife, Advances
    <2>. QED
      BY <2>2, <2>3, <2>4, <2>5
  <1>2. IInv /\ LifeInv => StaleRewardBounded
    BY <1>1 DEF StaleRewardBounded
  <1>. QED
    BY <1>2, Invariance, LifeInvariance, PTL

-----------------------------------------------------------------------------
(* The refinement *)

\* The committed storage is good, now and after the step.
LEMMA CommittedGood ==
  ASSUME IInv, LifeInv
  PROVE  StorageInv(Committed) /\ Good(Committed)
  <1>1. CASE stack = <<>>
    BY <1>1 DEF Committed, IInv, LifeInv
  <1>2. CASE stack # <<>>
    <2>1. 1 \in DOMAIN stack
      BY <1>2, SeqOverRange, EmptySeq DEF IInv, StackOK
    <2>. QED
      BY <1>2, <2>1, LifeByFrame DEF Committed, IInv, FrameInv, FrameLife
  <1>. QED
    BY <1>1, <1>2

\* The status and the reward that JobLifecycle gives a job of storage s.
StatusIn(s, id) ==
  IF id \in DOMAIN s.pending THEN "Pending"
  ELSE IF id \in DOMAIN s.finished THEN s.finished[id].status
  ELSE "None"

RewardIn(s, id) ==
  IF id \in DOMAIN s.pending THEN s.pending[id].reward
  ELSE IF id \in DOMAIN s.finished THEN s.finished[id].reward
  ELSE 0

LEMMA MappedValues ==
  ASSUME NEW s, StorageInv(s), Good(s), NEW id \in JobIds
  PROVE  /\ StatusIn(s, id) \in {"None", "Pending"} \cup Terminal
         /\ RewardIn(s, id) \in Nat
         /\ StatusIn(s, id) = "None" => RewardIn(s, id) = 0
         /\ StatusIn(s, id) # "None" => RewardIn(s, id) > 0
         /\ StatusIn(s, id) # "None" <=> id \in 1..(s.current_job_id - 1)
  <1>1. CASE id \in DOMAIN s.pending
    <2>1. /\ s.pending[id].reward \in Nat /\ s.pending[id].reward > 0
          /\ id \in 1..(s.current_job_id - 1)
      BY <1>1, StoredTypes DEF Good, Paid
    <2>. QED
      BY <1>1, <2>1 DEF StatusIn, RewardIn
  <1>2. CASE id \notin DOMAIN s.pending /\ id \in DOMAIN s.finished
    <2>1. /\ s.finished[id].reward \in Nat /\ s.finished[id].reward > 0
          /\ s.finished[id].status \in Terminal
          /\ id \in 1..(s.current_job_id - 1)
      BY <1>2, StoredTypes DEF Good, Paid
    <2>. QED
      BY <1>2, <2>1 DEF StatusIn, RewardIn, Terminal
  <1>3. CASE id \notin DOMAIN s.pending /\ id \notin DOMAIN s.finished
    <2>1. id \notin 1..(s.current_job_id - 1)
      BY <1>3, StoredTypes
    <2>. QED
      BY <1>3, <2>1 DEF StatusIn, RewardIn
  <1>. QED
    BY <1>1, <1>2, <1>3

\* What one job goes through while the storage advances from s to t.
LEMMA OneJobAdvances ==
  ASSUME NEW s, NEW t, StorageInv(s), StorageInv(t), Good(s), Good(t), Advances(s, t),
         NEW id \in JobIds
  PROVE  \/ /\ StatusIn(s, id) = "None" /\ StatusIn(t, id) # "None"
            /\ RewardIn(t, id) > 0
         \/ /\ StatusIn(s, id) = "Pending" /\ StatusIn(t, id) \in {"Pending"} \cup Terminal
            /\ RewardIn(t, id) >= RewardIn(s, id)
         \/ StatusIn(t, id) = StatusIn(s, id) /\ RewardIn(t, id) = RewardIn(s, id)
  <1>1. CASE id \in DOMAIN s.pending
    <2>1. CASE id \in DOMAIN t.pending /\ t.pending[id].reward >= s.pending[id].reward
      BY <1>1, <2>1 DEF StatusIn, RewardIn
    <2>2. CASE id \in DOMAIN t.finished /\ t.finished[id].reward >= s.pending[id].reward
      <3>1. id \notin DOMAIN t.pending /\ t.finished[id].status \in Terminal
        BY <2>2, StoredTypes
      <3>. QED
        BY <1>1, <2>2, <3>1 DEF StatusIn, RewardIn
    <2>. QED
      BY <1>1, <2>1, <2>2 DEF Advances
  <1>2. CASE id \in DOMAIN s.finished
    <2>1. id \notin DOMAIN s.pending
      BY <1>2, StoredTypes
    <2>2. /\ id \in DOMAIN t.finished /\ t.finished[id].status = s.finished[id].status
          /\ t.finished[id].reward = s.finished[id].reward
      BY <1>2 DEF Advances
    <2>3. id \notin DOMAIN t.pending
      BY <2>2, StoredTypes
    <2>. QED
      BY <1>2, <2>1, <2>2, <2>3 DEF StatusIn, RewardIn
  <1>3. CASE id \notin DOMAIN s.pending /\ id \notin DOMAIN s.finished
    <2>1. StatusIn(s, id) = "None" /\ RewardIn(s, id) = 0
      BY <1>3 DEF StatusIn, RewardIn
    <2>2. CASE StatusIn(t, id) = "None"
      BY <2>1, <2>2, MappedValues
    <2>3. CASE StatusIn(t, id) # "None"
      BY <2>1, <2>3, MappedValues
    <2>. QED
      BY <2>2, <2>3
  <1>. QED
    BY <1>1, <1>2, <1>3

\* A step of the controller is a step of JobLifecycle.
LEMMA StepImplements ==
  ASSUME IInv, IInv', LifeInv, LifeInv', Advances(Committed, Committed')
  PROVE  Lifecycle!Next
  <1>. DEFINE c == Committed
              d == Committed'
  <1>1. StorageInv(c) /\ StorageInv(d) /\ Good(c) /\ Good(d)
    <2>1. StorageInv(c) /\ Good(c)
      BY CommittedGood
    <2>2. StorageInv(Committed)' /\ Good(Committed)'
      BY CommittedGood, PTL
    <2>. QED
      BY <2>1, <2>2
  <1>2. /\ LifecycleStatus = [j \in JobIds |-> StatusIn(c, j)]
        /\ LifecycleReward = [j \in JobIds |-> RewardIn(c, j)]
        /\ LifecycleStatus' = [j \in JobIds |-> StatusIn(d, j)]
        /\ LifecycleReward' = [j \in JobIds |-> RewardIn(d, j)]
    BY DEF LifecycleStatus, LifecycleReward, StatusIn, RewardIn
  <1>. HIDE DEF c, d
  <1>3. \A j \in JobIds : /\ StatusIn(d, j) \in {"None", "Pending"} \cup Terminal
                          /\ RewardIn(d, j) \in Nat
    BY <1>1, MappedValues
  <1>4. /\ LifecycleStatus' \in [JobIds -> Lifecycle!Statuses]
        /\ LifecycleReward' \in [JobIds -> Nat]
    BY <1>2, <1>3 DEF Lifecycle!Statuses, Lifecycle!Settled, Terminal
  <1>5. ASSUME NEW j \in JobIds
        PROVE  Lifecycle!Submit(j) \/ Lifecycle!Raise(j) \/ Lifecycle!Settle(j) \/ Lifecycle!Keep(j)
    <2>1. /\ LifecycleStatus[j] = StatusIn(c, j) /\ LifecycleReward[j] = RewardIn(c, j)
          /\ LifecycleStatus'[j] = StatusIn(d, j) /\ LifecycleReward'[j] = RewardIn(d, j)
      BY <1>2
    <2>2. \/ /\ StatusIn(c, j) = "None" /\ StatusIn(d, j) # "None" /\ RewardIn(d, j) > 0
          \/ /\ StatusIn(c, j) = "Pending" /\ StatusIn(d, j) \in {"Pending"} \cup Terminal
             /\ RewardIn(d, j) >= RewardIn(c, j)
          \/ StatusIn(d, j) = StatusIn(c, j) /\ RewardIn(d, j) = RewardIn(c, j)
      BY <1>1, OneJobAdvances DEF c, d
    <2>. QED
      BY <2>1, <2>2 DEF Lifecycle!Submit, Lifecycle!Raise, Lifecycle!Settle, Lifecycle!Keep,
                        Lifecycle!Settled, Terminal
  <1>6. ASSUME NEW i \in JobIds, NEW j \in JobIds, i < j, LifecycleStatus'[j] # "None"
        PROVE  LifecycleStatus'[i] # "None"
    <2>1. j \in 1..(d.current_job_id - 1) /\ d.current_job_id \in Nat
      BY <1>1, <1>2, <1>6, MappedValues, StoredTypes
    <2>2. i \in 1..(d.current_job_id - 1)
      BY <1>6, <2>1 DEF JobIds
    <2>. QED
      BY <1>1, <1>2, <2>2, MappedValues
  <1>. QED
    BY <1>4, <1>5, <1>6 DEF Lifecycle!Next

\* Whoever calls the controller, and however calls nest and fail inside a
\* transaction, what is committed is a behaviour of JobLifecycle: a job is
\* pending until it is settled once, and its reward is never lowered.
THEOREM ImplementsJobLifecycle == Spec => ImplementsLifecycle
  <1>1. Init => Lifecycle!Init
    <2>1. ASSUME Init
          PROVE  Committed.pending = EmptyMap /\ Committed.finished = EmptyMap
      BY <2>1 DEF Init, Committed, Storage
    <2>. QED
      BY <2>1 DEF LifecycleStatus, LifecycleReward, Lifecycle!Init, EmptyMap
  <1>2. /\ IInv /\ IInv' /\ LifeInv /\ LifeInv' /\ [Next]_vars
        => [Lifecycle!Next]_<<LifecycleStatus, LifecycleReward>>
    BY NextLife, StepImplements
  <1>. QED
    BY <1>1, <1>2, Invariance, LifeInvariance, PTL DEF Spec, ImplementsLifecycle, Lifecycle!Spec
=============================================================================
