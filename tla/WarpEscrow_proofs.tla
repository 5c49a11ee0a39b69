-------------------------- MODULE WarpEscrow_proofs --------------------------
(***************************************************************************)
(* The escrow: proofs that the controller always holds the rewards of the  *)
(* pending jobs and of the keepers to be paid, for every value of the      *)
(* constants.                                                              *)
(*                                                                         *)
(* What a handler does to the escrow depends on the storage alone; the     *)
(* frames of the stack enter only where reply() turns the reward of a job  *)
(* into the reward that execute_job read, which WarpController_proofs      *)
(* bounds, and where the keeper is paid.  The invariant says of every      *)
(* storage that a failing call would put back that it covers what is owed  *)
(* below that call.                                                        *)
(***************************************************************************)
EXTENDS WarpController_proofs, SetTheorems

\* Coins of the controller that are not in escrow for a pending job.
Held(s) == s.balance[Controller] - Escrowed(s.pending)

\* What the first n frames owe their keepers.
OwedUpTo(frames, n) ==
  LET replied == {i \in 1..n : frames[i].phase = "replied"} IN
  SumFunctionOnSet([i \in replied |-> frames[i].reward], replied)

EscrowInv ==
  /\ Held(Storage) >= OwedUpTo(stack, Len(stack))
  /\ \A i \in DOMAIN stack : Held(stack[i].before) >= OwedUpTo(stack, i - 1)

-----------------------------------------------------------------------------
(* Lemmas about sums of rewards *)

\* jobs is a finite map of jobs with rewards.
Rewarded(jobs) ==
  /\ IsFiniteSet(DOMAIN jobs)
  /\ \A id \in DOMAIN jobs : jobs[id].reward \in Nat

\* The escrow is a number of coins, and each job has its reward in it.
LEMMA EscrowedParts ==
  ASSUME NEW jobs, Rewarded(jobs)
  PROVE  /\ Escrowed(jobs) \in Nat
         /\ \A id \in DOMAIN jobs : \A rest :
              /\ DOMAIN rest = DOMAIN jobs \ {id}
              /\ \A x \in DOMAIN rest : rest[x].reward = jobs[x].reward
              => Escrowed(jobs) = jobs[id].reward + Escrowed(rest)
  <1>. DEFINE f == [id \in DOMAIN jobs |-> jobs[id].reward]
  <1>1. \A x \in DOMAIN jobs : f[x] \in Int /\ f[x] >= 0
    BY DEF Rewarded
  <1>2. Escrowed(jobs) = SumFunctionOnSet(f, DOMAIN jobs)
    BY DEF Escrowed
  <1>3. SumFunctionOnSet(f, DOMAIN jobs) \in Int /\ SumFunctionOnSet(f, DOMAIN jobs) >= 0
    <2>. HIDE DEF f
    <2>. QED
      BY <1>1, SumType DEF Rewarded
  <1>4. ASSUME NEW id \in DOMAIN jobs, NEW rest, DOMAIN rest = DOMAIN jobs \ {id},
               \A x \in DOMAIN rest : rest[x].reward = jobs[x].reward
        PROVE  Escrowed(jobs) = jobs[id].reward + Escrowed(rest)
    <2>. DEFINE g == [x \in DOMAIN rest |-> rest[x].reward]
    <2>1. Escrowed(rest) = SumFunctionOnSet(g, DOMAIN jobs \ {id})
      BY <1>4, Zenon DEF Escrowed
    <2>2. \A x \in DOMAIN jobs \ {id} : f[x] = g[x]
      BY <1>4
    <2>3. f[id] = jobs[id].reward
      OBVIOUS
    <2>. HIDE DEF f, g
    <2>4. IsFiniteSet(DOMAIN jobs \ {id})
      BY FS_Subset DEF Rewarded
    <2>5. SumFunctionOnSet(f, DOMAIN jobs \ {id}) = SumFunctionOnSet(g, DOMAIN jobs \ {id})
      BY <2>2, <2>4, SumCongruence
    <2>6. SumFunctionOnSet(f, DOMAIN jobs) = f[id] + SumFunctionOnSet(f, DOMAIN jobs \ {id})
      BY <1>1, SumRemove DEF Rewarded
    <2>. QED
      BY <1>2, <2>1, <2>3, <2>5, <2>6, Zenon
  <1>. HIDE DEF f
  <1>. QED
    BY <1>2, <1>3, <1>4

\* Changes that keep the rewards keep the escrow.
LEMMA EscrowedSame ==
  ASSUME NEW jobs, NEW other, DOMAIN other = DOMAIN jobs,
         \A id \in DOMAIN jobs : other[id].reward = jobs[id].reward
  PROVE  Escrowed(other) = Escrowed(jobs)
  <1>1. [id \in DOMAIN other |-> other[id].reward] = [id \in DOMAIN jobs |-> jobs[id].reward]
    OBVIOUS
  <1>. QED
    BY <1>1, Zenon DEF Escrowed

\* The reward of one job, and the escrow without it.
LEMMA EscrowedPart ==
  ASSUME NEW jobs, Rewarded(jobs), NEW id \in DOMAIN jobs, NEW rest,
         DOMAIN rest = DOMAIN jobs \ {id},
         \A x \in DOMAIN rest : rest[x].reward = jobs[x].reward
  PROVE  Escrowed(jobs) = jobs[id].reward + Escrowed(rest)
  BY EscrowedParts

\* A job that is saved brings its reward, in place of the one it replaces.
LEMMA EscrowedSave ==
  ASSUME NEW jobs, Rewarded(jobs), NEW id, NEW job, job.reward \in Nat
  PROVE  /\ Rewarded(Save(jobs, id, job))
         /\ id \notin DOMAIN jobs =>
              Escrowed(Save(jobs, id, job)) = Escrowed(jobs) + job.reward
         /\ id \in DOMAIN jobs =>
              Escrowed(Save(jobs, id, job)) = Escrowed(jobs) + job.reward - jobs[id].reward
  <1>. DEFINE new == Save(jobs, id, job)
  <1>1. /\ DOMAIN new = DOMAIN jobs \cup {id} /\ new[id] = job
        /\ \A x \in DOMAIN jobs : x # id => new[x] = jobs[x]
    BY DEF Save
  <1>. HIDE DEF new
  <1>2. Rewarded(new)
    <2>1. IsFiniteSet(DOMAIN new)
      BY <1>1, FS_AddElement DEF Rewarded
    <2>. QED
      BY <1>1, <2>1 DEF Rewarded
  <1>3. Escrowed(jobs) \in Nat
    BY EscrowedParts
  <1>4. CASE id \notin DOMAIN jobs
    <2>1. DOMAIN jobs = DOMAIN new \ {id} /\ \A x \in DOMAIN jobs : jobs[x].reward = new[x].reward
      BY <1>1, <1>4
    <2>2. Escrowed(new) = job.reward + Escrowed(jobs)
      <3>1. id \in DOMAIN new /\ new[id].reward = job.reward
        BY <1>1
      <3>2. Escrowed(new) = new[id].reward + Escrowed(jobs)
        BY <1>2, <3>1, <2>1, EscrowedPart
      <3>. QED
        BY <3>1, <3>2
    <2>. QED
      BY <1>2, <1>3, <1>4, <2>2 DEF new
  <1>5. CASE id \in DOMAIN jobs
    <2>1. PICK rest : rest = Remove(jobs, id)
      OBVIOUS
    <2>2. DOMAIN rest = DOMAIN jobs \ {id} /\ \A x \in DOMAIN rest : rest[x] = jobs[x]
      BY <2>1 DEF Remove
    <2>3. Rewarded(rest)
      <3>1. IsFiniteSet(DOMAIN rest)
        BY <2>2, FS_Subset DEF Rewarded
      <3>. QED
        BY <2>2, <3>1 DEF Rewarded
    <2>4. Escrowed(jobs) = jobs[id].reward + Escrowed(rest) /\ Escrowed(rest) \in Nat
      BY <1>5, <2>2, <2>3, EscrowedParts
    <2>5. DOMAIN rest = DOMAIN new \ {id} /\ \A x \in DOMAIN rest : rest[x].reward = new[x].reward
      BY <1>1, <1>5, <2>2
    <2>6. Escrowed(new) = job.reward + Escrowed(rest)
      <3>1. id \in DOMAIN new /\ new[id].reward = job.reward
        BY <1>1
      <3>2. Escrowed(new) = new[id].reward + Escrowed(rest)
        BY <1>2, <3>1, <2>5, EscrowedPart
      <3>. QED
        BY <3>1, <3>2
    <2>7. jobs[id].reward \in Nat
      BY <1>5 DEF Rewarded
    <2>8. Escrowed(new) = Escrowed(jobs) + job.reward - jobs[id].reward
      BY <2>4, <2>6, <2>7
    <2>. QED
      BY <1>2, <1>5, <2>8 DEF new
  <1>. QED
    BY <1>4, <1>5

\* A job that is removed takes its reward along.
LEMMA EscrowedRemove ==
  ASSUME NEW jobs, Rewarded(jobs), NEW id \in DOMAIN jobs
  PROVE  /\ Rewarded(Remove(jobs, id))
         /\ Escrowed(Remove(jobs, id)) = Escrowed(jobs) - jobs[id].reward
  <1>1. PICK rest : rest = Remove(jobs, id)
    OBVIOUS
  <1>2. DOMAIN rest = DOMAIN jobs \ {id} /\ \A x \in DOMAIN rest : rest[x] = jobs[x]
    BY <1>1 DEF Remove
  <1>3. Rewarded(rest)
    <2>1. IsFiniteSet(DOMAIN rest)
      BY <1>2, FS_Subset DEF Rewarded
    <2>. QED
      BY <1>2, <2>1 DEF Rewarded
  <1>4. Escrowed(jobs) = jobs[id].reward + Escrowed(rest) /\ Escrowed(rest) \in Nat
    BY <1>2, <1>3, EscrowedParts
  <1>5. jobs[id].reward \in Nat
    BY DEF Rewarded
  <1>. QED
    BY <1>1, <1>3, <1>4, <1>5

\* What frames owe, frame by frame.
LEMMA OwedNext ==
  ASSUME NEW frames, NEW n \in Nat, \A i \in 1..(n + 1) : frames[i].reward \in Nat
  PROVE  /\ OwedUpTo(frames, n) \in Nat
         /\ OwedUpTo(frames, n + 1) = OwedUpTo(frames, n)
              + (IF frames[n + 1].phase = "replied" THEN frames[n + 1].reward ELSE 0)
  <1>1. PICK r : r = {i \in 1..n : frames[i].phase = "replied"}
    OBVIOUS
  <1>2. PICK t : t = {i \in 1..(n + 1) : frames[i].phase = "replied"}
    OBVIOUS
  <1>3. PICK f : f = [i \in r |-> frames[i].reward]
    OBVIOUS
  <1>4. PICK g : g = [i \in t |-> frames[i].reward]
    OBVIOUS
  <1>5. OwedUpTo(frames, n) = SumFunctionOnSet(f, r)
    BY <1>1, <1>3, Zenon DEF OwedUpTo
  <1>6. OwedUpTo(frames, n + 1) = SumFunctionOnSet(g, t)
    BY <1>2, <1>4, Zenon DEF OwedUpTo
  <1>7. IsFiniteSet(r) /\ IsFiniteSet(t)
    <2>1. IsFiniteSet(1..n) /\ IsFiniteSet(1..(n + 1))
      BY FS_Interval
    <2>. QED
      BY <1>1, <1>2, <2>1, FS_Subset
  <1>8. /\ \A i \in r : f[i] \in Int /\ f[i] >= 0 /\ f[i] = g[i] /\ i \in t
        /\ \A i \in t : g[i] \in Int
    BY <1>1, <1>2, <1>3, <1>4
  <1>9. SumFunctionOnSet(f, r) \in Int /\ SumFunctionOnSet(f, r) >= 0
    BY <1>7, <1>8, SumType
  <1>10. SumFunctionOnSet(f, r) = SumFunctionOnSet(g, r)
    BY <1>7, <1>8, SumCongruence
  <1>11. CASE frames[n + 1].phase = "replied"
    <2>1. n + 1 \in t /\ r = t \ {n + 1}
      BY <1>1, <1>2, <1>11
    <2>2. SumFunctionOnSet(g, t) = g[n + 1] + SumFunctionOnSet(g, r)
      BY <1>7, <1>8, <2>1, SumRemove
    <2>3. g[n + 1] = frames[n + 1].reward /\ frames[n + 1].reward \in Nat
      BY <1>4, <2>1
    <2>. QED
      BY <1>5, <1>6, <1>9, <1>10, <1>11, <2>2, <2>3
  <1>12. CASE frames[n + 1].phase # "replied"
    <2>1. r = t
      BY <1>1, <1>2, <1>12
    <2>2. f = g
      BY <1>3, <1>4, <2>1
    <2>. QED
      BY <1>5, <1>6, <1>9, <1>12, <2>1, <2>2
  <1>. QED
    BY <1>11, <1>12

\* Only the frames below count.
LEMMA OwedAgree ==
  ASSUME NEW frames, NEW other, NEW n \in Nat, \A i \in 1..n : other[i] = frames[i]
  PROVE  OwedUpTo(other, n) = OwedUpTo(frames, n)
  <1>1. {i \in 1..n : other[i].phase = "replied"} = {i \in 1..n : frames[i].phase = "replied"}
    OBVIOUS
  <1>2. PICK r : r = {i \in 1..n : frames[i].phase = "replied"}
    OBVIOUS
  <1>3. [i \in r |-> other[i].reward] = [i \in r |-> frames[i].reward]
    BY <1>2
  <1>. QED
    BY <1>1, <1>2, <1>3, Zenon DEF OwedUpTo

\* The frames of no call owe nothing.
LEMMA OwedNothing == ASSUME NEW frames PROVE OwedUpTo(frames, 0) = 0
  <1>1. {i \in 1..0 : frames[i].phase = "replied"} = {}
    OBVIOUS
  <1>2. PICK f : f = [i \in {} |-> frames[i].reward]
    OBVIOUS
  <1>3. OwedUpTo(frames, 0) = SumFunctionOnSet(f, {})
    BY <1>1, <1>2, Zenon DEF OwedUpTo
  <1>. QED
    BY <1>3, FS_EmptySet, SumUnfold

-----------------------------------------------------------------------------
(* Payments, as far as the controller's coins go *)

\* What of amount is the controller's.
Part(x, amount) == IF x = Controller THEN amount ELSE 0

\* What a payment takes from the controller, and what it brings.
LEMMA PaymentAt ==
  ASSUME NEW b \in [Addresses -> Int], NEW from \in Addresses, NEW to \in Addresses,
         NEW amount \in Int
  PROVE  /\ After(b, Payment(from, to, amount)) \in [Addresses -> Int]
         /\ After(b, Payment(from, to, amount))[Controller]
              = b[Controller] - Part(from, amount) + Part(to, amount)
  <1>1. PICK c : c = [b EXCEPT ![from] = @ - amount]
    OBVIOUS
  <1>2. PICK d : d = [c EXCEPT ![to] = @ + amount]
    OBVIOUS
  <1>3. After(b, Payment(from, to, amount)) = d
    <2>1. /\ Payment(from, to, amount).from = from /\ Payment(from, to, amount).to = to
          /\ Payment(from, to, amount).amount = amount
      BY DEF Payment
    <2>. QED
      BY <1>1, <1>2, <2>1, Zenon DEF After
  <1>5. Controller \in Addresses /\ b[Controller] \in Int
    BY DEF Addresses
  <1>6. c \in [Addresses -> Int] /\ c[Controller] = b[Controller] - Part(from, amount)
    BY <1>1, <1>5 DEF Part
  <1>7. d \in [Addresses -> Int] /\ d[Controller] = c[Controller] + Part(to, amount)
    BY <1>2, <1>5, <1>6 DEF Part
  <1>8. Part(from, amount) \in Int /\ Part(to, amount) \in Int
    BY DEF Part
  <1>. QED
    BY <1>3, <1>5, <1>6, <1>7, <1>8

\* A payment between addresses, and what it leaves with the controller.
PaymentType == [from : Addresses, to : Addresses, amount : Int]

Gain(p) == Part(p.to, p.amount) - Part(p.from, p.amount)

LEMMA GainOf ==
  ASSUME NEW from \in Addresses, NEW to \in Addresses, NEW amount \in Int
  PROVE  /\ Payment(from, to, amount) \in PaymentType
         /\ Gain(Payment(from, to, amount)) = Part(to, amount) - Part(from, amount)
  BY DEF Payment, PaymentType, Gain

LEMMA GainAt ==
  ASSUME NEW b \in [Addresses -> Int], NEW p \in PaymentType
  PROVE  /\ After(b, p) \in [Addresses -> Int]
         /\ After(b, p)[Controller] = b[Controller] + Gain(p)
         /\ Gain(p) \in Int /\ b[Controller] \in Int
  <1>1. PICK from \in Addresses, to \in Addresses, amount \in Int : p = Payment(from, to, amount)
    BY DEF PaymentType, Payment
  <1>2. /\ After(b, p) \in [Addresses -> Int]
        /\ After(b, p)[Controller] = b[Controller] - Part(from, amount) + Part(to, amount)
    BY <1>1, PaymentAt
  <1>3. Part(from, amount) \in Int /\ Part(to, amount) \in Int /\ b[Controller] \in Int
    BY DEF Part, Addresses
  <1>. QED
    BY <1>1, <1>2, <1>3, GainOf

\* What two of them do.
LEMMA GainsAt ==
  ASSUME NEW b \in [Addresses -> Int], NEW p1 \in PaymentType, NEW p2 \in PaymentType
  PROVE  /\ AfterBoth(b, p1, p2) \in [Addresses -> Int]
         /\ AfterBoth(b, p1, p2)[Controller] = b[Controller] + Gain(p1) + Gain(p2)
  <1>1. PICK c : c = After(b, p1)
    OBVIOUS
  <1>2. /\ c \in [Addresses -> Int] /\ c[Controller] = b[Controller] + Gain(p1)
        /\ Gain(p1) \in Int /\ Gain(p2) \in Int /\ b[Controller] \in Int
    BY <1>1, GainAt
  <1>3. /\ After(c, p2) \in [Addresses -> Int]
        /\ After(c, p2)[Controller] = c[Controller] + Gain(p2)
    BY <1>2, GainAt
  <1>4. AfterBoth(b, p1, p2) = After(c, p2)
    BY <1>1, Zenon DEF AfterBoth
  <1>. QED
    BY <1>2, <1>3, <1>4

\* Nobody but the controller is the controller.
LEMMA OthersThanController ==
  ASSUME NEW s, StorageInv(s)
  PROVE  /\ \A x \in Senders : x # Controller /\ x \in Addresses
         /\ \A o \in DOMAIN s.accounts : /\ s.accounts[o] # Controller
                                         /\ s.accounts[o] \in Addresses
                                         /\ o # Controller /\ o \in Addresses
         /\ Controller \in Addresses
         /\ s.balance \in [Addresses -> Int] /\ s.balance[Controller] \in Nat
         /\ s.config.fee_collector \in Addresses
         /\ s.config.creation_fee_percentage \in Nat
         /\ s.config.cancellation_fee_percentage \in Nat
         /\ s.config.a_min \in Nat /\ s.config.a_max \in Nat
         /\ Rewarded(s.pending)
  <1>1. /\ IsMap(s.accounts, Users, AccountAddrs) /\ s.balance \in [Addresses -> Nat]
        /\ s.config \in ConfigType
    BY DEF StorageInv, StorageOK
  <1>2. Rewarded(s.pending)
    BY FiniteStores, StoredTypes DEF StorageInv, Rewarded
  <1>3. Controller \in Addresses /\ s.balance[Controller] \in Nat
    BY <1>1 DEF Addresses
  <1>4. \A o \in DOMAIN s.accounts : o \in Users /\ s.accounts[o] \in AccountAddrs
    BY <1>1 DEF IsMap
  <1>. QED
    BY <1>1, <1>2, <1>3, <1>4, AddressAssumption DEF Addresses, Senders, ConfigType

\* Held in terms of the variables.
LEMMA HeldFields ==
  ASSUME StorageInv(Storage), StorageInv(Storage)'
  PROVE  /\ Held(Storage) = balance[Controller] - Escrowed(pending)
         /\ Held(Storage') = balance'[Controller] - Escrowed(pending')
         /\ Escrowed(pending) \in Nat /\ Escrowed(pending') \in Nat
         /\ balance[Controller] \in Nat /\ balance'[Controller] \in Nat
         /\ Held(Storage) \in Int /\ Held(Storage') \in Int
  <1>1. /\ Storage.balance = balance /\ Storage'.balance = balance'
        /\ Storage.pending = pending /\ Storage'.pending = pending'
    BY DEF Storage
  <1>2. StorageInv(Storage')
    OBVIOUS
  <1>3. /\ balance[Controller] \in Nat /\ balance'[Controller] \in Nat
        /\ Rewarded(pending) /\ Rewarded(pending')
    BY <1>1, <1>2, OthersThanController
  <1>4. Escrowed(pending) \in Nat /\ Escrowed(pending') \in Nat
    BY <1>3, EscrowedParts
  <1>. QED
    BY <1>1, <1>3, <1>4 DEF Held

-----------------------------------------------------------------------------
(* The handlers *)

\* The step takes nothing from what the controller holds besides the escrow,
\* and adds something only if it is also the collector of fees.
Kept ==
  /\ Held(Storage') >= Held(Storage)
  /\ config.fee_collector # Controller => Held(Storage') = Held(Storage)

\* A step that moves coins between others.
LEMMA OthersPay ==
  ASSUME StorageInv(Storage), StorageInv(Storage)',
         balance'[Controller] = balance[Controller], pending' = pending
  PROVE  Kept
  BY HeldFields DEF Kept

\* What the handlers of accounts, of the configuration and of time do.
LEMMA EscrowUntouched ==
  ASSUME StorageInv(Storage), StorageInv(Storage)',
         AccountStep \/ SpendStep \/ ConfigStep \/ Tick \/ UNCHANGED vars
  PROVE  Kept
  <1>1. /\ \A x \in Senders : x # Controller /\ x \in Addresses
        /\ \A o \in DOMAIN accounts : accounts[o] # Controller /\ accounts[o] \in Addresses
        /\ Controller \in Addresses /\ balance \in [Addresses -> Int]
        /\ Rewarded(pending)
    BY OthersThanController DEF Storage
  <1>2. ASSUME NEW from \in Addresses, NEW to \in Addresses, NEW amount \in Int,
               from # Controller, to # Controller, pending' = pending,
               balance' = After(balance, Payment(from, to, amount))
        PROVE  Kept
    <2>1. balance'[Controller] = balance[Controller]
      <3>1. balance[Controller] \in Int
        BY <1>1
      <3>. QED
        BY <1>1, <1>2, <3>1, PaymentAt DEF Part
    <2>. QED
      BY <1>2, <2>1, OthersPay
  <1>3. CASE AccountStep
    <2>1. ASSUME NEW sender \in Senders, NEW amount \in Deposits, NEW addr \in AccountAddrs,
                 OpenAccount(sender, amount, addr)
          PROVE  Kept
      <3>1. CASE amount = 0
        BY <2>1, <3>1, OthersPay DEF OpenAccount
      <3>2. CASE amount # 0
        <4>1. /\ sender \in Addresses /\ addr \in Addresses /\ amount \in Int
              /\ sender # Controller /\ addr # Controller
          BY <1>1, InputAssumption DEF Senders
        <4>2. balance' = After(balance, Payment(sender, addr, amount)) /\ pending' = pending
          BY <2>1, <3>2 DEF OpenAccount
        <4>. QED
          BY <1>2, <4>1, <4>2
      <3>. QED
        BY <3>1, <3>2
    <2>2. ASSUME NEW sender \in Senders, NEW amount \in Deposits, FundAccount(sender, amount)
          PROVE  Kept
      <3>1. /\ sender \in Addresses /\ accounts[sender] \in Addresses /\ amount \in Int
            /\ sender # Controller /\ accounts[sender] # Controller
        BY <1>1, <2>2, InputAssumption DEF FundAccount
      <3>2. balance' = After(balance, Payment(sender, accounts[sender], amount))
            /\ pending' = pending
        BY <2>2 DEF FundAccount
      <3>. QED
        BY <1>2, <3>1, <3>2
    <2>. QED
      BY <1>3, <2>1, <2>2 DEF AccountStep
  <1>4. CASE SpendStep
    <2>1. ASSUME NEW owner \in DOMAIN accounts, NEW to \in Users, NEW amount \in Spends,
                 SpendFromAccount(owner, to, amount)
          PROVE  Kept
      <3>1. /\ to \in Addresses /\ accounts[owner] \in Addresses /\ amount \in Int
            /\ to # Controller /\ accounts[owner] # Controller
        BY <1>1, InputAssumption DEF Senders
      <3>2. balance' = After(balance, Payment(accounts[owner], to, amount))
            /\ pending' = pending
        BY <2>1 DEF SpendFromAccount
      <3>. QED
        BY <1>2, <3>1, <3>2
    <2>. QED
      BY <1>4, <2>1 DEF SpendStep
  <1>5. CASE ConfigStep \/ UNCHANGED vars
    BY <1>5, OthersPay DEF ConfigStep, UpdateConfig, vars
  <1>6. CASE Tick
    <2>1. \A job \in JobType : Older(job).reward = job.reward
      BY DEF Older, JobType
    <2>2. \A id \in DOMAIN pending : pending[id] \in JobType
      BY KnownAddresses
    <2>3. /\ DOMAIN pending' = DOMAIN pending
          /\ \A id \in DOMAIN pending : pending'[id].reward = pending[id].reward
      BY <1>6, <2>1, <2>2 DEF Tick
    <2>4. Escrowed(pending') = Escrowed(pending)
      BY <2>3, EscrowedSame
    <2>. QED
      BY <1>6, <2>4, HeldFields DEF Kept, Tick
  <1>. QED
    BY <1>3, <1>4, <1>5, <1>6

\* create_job takes the reward into the escrow.
LEMMA CreateJobKept ==
  ASSUME StorageInv(Storage), StorageInv(Storage)',
         NEW sender \in Senders, NEW reward \in Rewards, NEW kind \in JobKinds,
         CreateJob(sender, reward, kind)
  PROVE  Kept
  <1>1. PICK account : account = accounts[OwnerOf(sender)]
    OBVIOUS
  <1>2. PICK fee : fee = Fee(reward, config.creation_fee_percentage)
    OBVIOUS
  <1>3. PICK job : job = NewJob(OwnerOf(sender), current_job_id, reward, kind)
    OBVIOUS
  <1>4. /\ pending' = Save(pending, current_job_id, job)
        /\ balance' = AfterBoth(balance, Payment(account, Controller, reward),
                                         Payment(account, config.fee_collector, fee))
        /\ current_job_id \notin DOMAIN pending
    BY <1>1, <1>2, <1>3 DEF CreateJob, Enqueue, Storage
  <1>5. OwnerOf(sender) \in DOMAIN accounts
    BY DEF CreateJob, HasAccount, OwnerOf, IsAccount, Range
  <1>6. /\ account \in Addresses /\ account # Controller /\ Controller \in Addresses
        /\ config.fee_collector \in Addresses /\ balance \in [Addresses -> Int]
        /\ Rewarded(pending) /\ config.creation_fee_percentage \in Nat
    BY <1>1, <1>5, OthersThanController DEF Storage
  <1>7. reward \in Nat /\ fee \in Nat /\ job.reward = reward
    BY <1>2, <1>3, <1>6, FeeType, InputAssumption DEF NewJob
  <1>8. balance'[Controller] = balance[Controller] + reward + Part(config.fee_collector, fee)
    <2>1. PICK first : first = Payment(account, Controller, reward)
      OBVIOUS
    <2>2. PICK second : second = Payment(account, config.fee_collector, fee)
      OBVIOUS
    <2>3. /\ first \in PaymentType /\ second \in PaymentType
          /\ Gain(first) = Part(Controller, reward) - Part(account, reward)
          /\ Gain(second) = Part(config.fee_collector, fee) - Part(account, fee)
      BY <1>6, <1>7, <2>1, <2>2, GainOf
    <2>4. balance' = AfterBoth(balance, first, second)
      BY <1>4, <2>1, <2>2, Zenon
    <2>5. balance'[Controller] = balance[Controller] + Gain(first) + Gain(second)
      BY <1>6, <1>7, <2>3, <2>4, GainsAt
    <2>6. /\ Part(account, reward) = 0 /\ Part(Controller, reward) = reward
          /\ Part(account, fee) = 0 /\ Part(config.fee_collector, fee) \in Nat
      BY <1>6, <1>7 DEF Part
    <2>. QED
      BY <1>7, <2>3, <2>5, <2>6, HeldFields
  <1>9. Escrowed(pending') = Escrowed(pending) + reward
    BY <1>4, <1>6, <1>7, EscrowedSave
  <1>10. /\ Part(config.fee_collector, fee) \in Nat
         /\ config.fee_collector # Controller => Part(config.fee_collector, fee) = 0
    BY <1>7 DEF Part
  <1>. QED
    BY <1>7, <1>8, <1>9, <1>10, HeldFields DEF Kept

\* update_job takes what it adds to the reward.
LEMMA UpdateJobKept ==
  ASSUME StorageInv(Storage), StorageInv(Storage)',
         NEW sender \in Senders, NEW id \in JobIds, NEW added \in Additions,
         UpdateJob(sender, id, added)
  PROVE  Kept
  <1>1. PICK account : account = accounts[sender]
    OBVIOUS
  <1>2. PICK fee : fee = Fee(added, config.creation_fee_percentage)
    OBVIOUS
  <1>3. PICK job : job = AddReward(pending[id], added, config.minimum_reward)
    OBVIOUS
  <1>4. /\ id \in DOMAIN pending /\ sender \in DOMAIN accounts
        /\ pending' = Save(pending, id, job)
        /\ balance' = AfterBoth(balance, Payment(account, Controller, added),
                                         Payment(account, config.fee_collector, fee))
    BY <1>1, <1>2, <1>3 DEF UpdateJob
  <1>5. /\ account \in Addresses /\ account # Controller /\ Controller \in Addresses
        /\ config.fee_collector \in Addresses /\ balance \in [Addresses -> Int]
        /\ Rewarded(pending) /\ config.creation_fee_percentage \in Nat
    BY <1>1, <1>4, OthersThanController DEF Storage
  <1>6. added \in Nat /\ fee \in Nat
    BY <1>2, <1>5, FeeType, InputAssumption
  <1>7. pending[id] \in JobType /\ pending[id].reward \in Nat
    BY <1>4, KnownAddresses
  <1>8. job.reward = pending[id].reward + added /\ job.reward \in Nat
    BY <1>3, <1>6, <1>7 DEF AddReward, JobType
  <1>9. balance'[Controller] = balance[Controller] + added + Part(config.fee_collector, fee)
    <2>1. PICK first : first = Payment(account, Controller, added)
      OBVIOUS
    <2>2. PICK second : second = Payment(account, config.fee_collector, fee)
      OBVIOUS
    <2>3. /\ first \in PaymentType /\ second \in PaymentType
          /\ Gain(first) = Part(Controller, added) - Part(account, added)
          /\ Gain(second) = Part(config.fee_collector, fee) - Part(account, fee)
      BY <1>5, <1>6, <2>1, <2>2, GainOf
    <2>4. balance' = AfterBoth(balance, first, second)
      BY <1>4, <2>1, <2>2, Zenon
    <2>5. balance'[Controller] = balance[Controller] + Gain(first) + Gain(second)
      BY <1>5, <1>6, <2>3, <2>4, GainsAt
    <2>6. /\ Part(account, added) = 0 /\ Part(Controller, added) = added
          /\ Part(account, fee) = 0 /\ Part(config.fee_collector, fee) \in Nat
      BY <1>5, <1>6 DEF Part
    <2>. QED
      BY <1>6, <2>3, <2>5, <2>6, HeldFields
  <1>10. Escrowed(pending') = Escrowed(pending) + job.reward - pending[id].reward
    BY <1>4, <1>5, <1>8, EscrowedSave
  <1>11. /\ Part(config.fee_collector, fee) \in Nat
         /\ config.fee_collector # Controller => Part(config.fee_collector, fee) = 0
    BY <1>6 DEF Part
  <1>. QED
    BY <1>6, <1>7, <1>8, <1>9, <1>10, <1>11, HeldFields DEF Kept

\* evict_job that requeues moves the fee between others.
LEMMA EvictAndRequeueKept ==
  ASSUME StorageInv(Storage), StorageInv(Storage)',
         NEW sender \in Senders, NEW id \in JobIds, EvictAndRequeue(sender, id)
  PROVE  Kept
  <1>1. PICK fee : fee = EvictionFee(config, q)
    OBVIOUS
  <1>2. PICK account : account = accounts[pending[id].owner]
    OBVIOUS
  <1>3. PICK job : job = [pending[id] EXCEPT !.age = 0]
    OBVIOUS
  <1>4. /\ id \in DOMAIN pending /\ pending[id].owner \in DOMAIN accounts
        /\ pending' = Save(pending, id, job)
        /\ balance' = After(balance, Payment(account, sender, fee))
    BY <1>1, <1>2, <1>3 DEF EvictAndRequeue, Evictable, MayRequeue, Requeued, RequeueCharge
  <1>5. /\ account \in Addresses /\ account # Controller
        /\ sender \in Addresses /\ sender # Controller
        /\ balance \in [Addresses -> Int] /\ Rewarded(pending)
        /\ config.a_min \in Nat /\ config.a_max \in Nat
    BY <1>2, <1>4, OthersThanController DEF Storage
  <1>6. fee \in Nat
    BY <1>1, <1>5 DEF EvictionFee
  <1>7. balance'[Controller] = balance[Controller]
    <2>1. PICK charge : charge = Payment(account, sender, fee)
      OBVIOUS
    <2>2. charge \in PaymentType /\ Gain(charge) = Part(sender, fee) - Part(account, fee)
      BY <1>5, <1>6, <2>1, GainOf
    <2>3. balance' = After(balance, charge)
      BY <1>4, <2>1, Zenon
    <2>4. balance'[Controller] = balance[Controller] + Gain(charge)
      BY <1>5, <2>2, <2>3, GainAt
    <2>5. Part(account, fee) = 0 /\ Part(sender, fee) = 0
      BY <1>5 DEF Part
    <2>. QED
      BY <2>2, <2>4, <2>5, HeldFields
  <1>8. pending[id] \in JobType /\ pending[id].reward \in Nat
    BY <1>4, KnownAddresses
  <1>9. job.reward = pending[id].reward
    BY <1>3, <1>8 DEF JobType
  <1>10. Escrowed(pending') = Escrowed(pending) + job.reward - pending[id].reward
    BY <1>4, <1>5, <1>8, <1>9, EscrowedSave
  <1>. QED
    BY <1>7, <1>8, <1>9, <1>10, HeldFields DEF Kept

\* delete_job and evict_job pay the reward out of the escrow, in two parts.
LEMMA PaidInParts ==
  ASSUME StorageInv(Storage), StorageInv(Storage)', NEW id \in DOMAIN pending,
         pending' = WithoutJob(Storage, id),
         NEW fee \in Nat, NEW x \in Addresses, NEW y \in Addresses, x # Controller,
         y # Controller \/ y = config.fee_collector,
         \/ balance' = AfterBoth(balance, Payment(Controller, x, pending[id].reward - fee),
                                          Payment(Controller, y, fee))
         \/ /\ y # Controller
            /\ balance' = AfterBoth(balance, Payment(Controller, y, fee),
                                             Payment(Controller, x, pending[id].reward - fee))
  PROVE  Kept
  <1>1. PICK rest : rest = pending[id].reward - fee
    OBVIOUS
  <1>2. /\ pending[id].reward \in Nat /\ rest \in Int /\ Controller \in Addresses
        /\ Rewarded(pending) /\ balance \in [Addresses -> Int]
    BY <1>1, KnownAddresses, OthersThanController DEF Storage
  <1>3. /\ Part(Controller, rest) = rest /\ Part(Controller, fee) = fee
        /\ Part(x, rest) = 0 /\ Part(y, fee) \in Nat
        /\ y # Controller => Part(y, fee) = 0
    BY DEF Part
  <1>4. balance'[Controller] = balance[Controller] - rest - fee + Part(y, fee)
    <2>1. PICK refund : refund = Payment(Controller, x, rest)
      OBVIOUS
    <2>2. PICK charge : charge = Payment(Controller, y, fee)
      OBVIOUS
    <2>3. /\ refund \in PaymentType /\ charge \in PaymentType
          /\ Gain(refund) = Part(x, rest) - Part(Controller, rest)
          /\ Gain(charge) = Part(y, fee) - Part(Controller, fee)
      BY <1>2, <2>1, <2>2, GainOf
    <2>4. \/ balance' = AfterBoth(balance, refund, charge)
          \/ balance' = AfterBoth(balance, charge, refund)
      BY <1>1, <2>1, <2>2, Zenon
    <2>5. \/ balance'[Controller] = balance[Controller] + Gain(refund) + Gain(charge)
          \/ balance'[Controller] = balance[Controller] + Gain(charge) + Gain(refund)
      BY <1>2, <2>3, <2>4, GainsAt
    <2>. QED
      BY <1>2, <1>3, <2>3, <2>5, HeldFields
  <1>5. Escrowed(pending') = Escrowed(pending) - pending[id].reward
    <2>1. pending' = Remove(pending, id)
      BY DEF WithoutJob, Storage
    <2>. QED
      BY <1>2, <2>1, EscrowedRemove
  <1>6. balance'[Controller] = balance[Controller] - pending[id].reward + Part(y, fee)
    BY <1>1, <1>2, <1>3, <1>4, HeldFields
  <1>. QED
    BY <1>2, <1>3, <1>5, <1>6, HeldFields DEF Kept

\* delete_job refunds the account of its owner.
LEMMA DeleteJobKept ==
  ASSUME StorageInv(Storage), StorageInv(Storage)',
         NEW sender \in Senders, NEW id \in JobIds, DeleteJob(sender, id)
  PROVE  Kept
  <1>1. PICK fee : fee = Fee(pending[id].reward, config.cancellation_fee_percentage)
    OBVIOUS
  <1>2. /\ id \in DOMAIN pending /\ sender \in DOMAIN accounts
        /\ pending' = WithoutJob(Storage, id)
        /\ balance' = AfterBoth(balance,
                          Payment(Controller, accounts[sender], pending[id].reward - fee),
                          Payment(Controller, config.fee_collector, fee))
    BY <1>1 DEF DeleteJob, Settle, Remainder, MayDelete, CancellationFee, Refund, Charge,
                CanLeaveQueue
  <1>3. /\ accounts[sender] \in Addresses /\ accounts[sender] # Controller
        /\ config.fee_collector \in Addresses /\ config.cancellation_fee_percentage \in Nat
    BY <1>2, OthersThanController DEF Storage
  <1>4. pending[id].reward \in Nat
    BY <1>2, KnownAddresses
  <1>5. fee \in Nat
    BY <1>1, <1>3, <1>4, FeeType
  <1>. QED
    BY <1>2, <1>3, <1>5, PaidInParts

\* evict_job pays the evictor and refunds the account of the owner.
LEMMA EvictJobKept ==
  ASSUME StorageInv(Storage), StorageInv(Storage)',
         NEW sender \in Senders, NEW id \in JobIds, EvictJob(sender, id)
  PROVE  Kept
  <1>1. PICK fee : fee = EvictionFee(config, q)
    OBVIOUS
  <1>2. PICK account : account = accounts[pending[id].owner]
    OBVIOUS
  <1>3. /\ id \in DOMAIN pending /\ pending[id].owner \in DOMAIN accounts
        /\ pending' = WithoutJob(Storage, id)
        /\ balance' = AfterBoth(balance, Payment(Controller, sender, fee),
                          Payment(Controller, account, pending[id].reward - fee))
    BY <1>1, <1>2 DEF EvictJob, Evictable, Settle, Remainder, MayEvict, Requeued, Refund,
                      Charge, CanLeaveQueue
  <1>4. /\ account \in Addresses /\ account # Controller
        /\ sender \in Addresses /\ sender # Controller
        /\ config.a_min \in Nat /\ config.a_max \in Nat
    BY <1>2, <1>3, OthersThanController DEF Storage
  <1>5. fee \in Nat
    BY <1>1, <1>4 DEF EvictionFee
  <1>. QED
    BY <1>3, <1>4, <1>5, PaidInParts

\* A job that cannot be evaluated pays its whole reward to the keeper.
LEMMA InvalidJobKept ==
  ASSUME StorageInv(Storage), StorageInv(Storage)',
         NEW keeper \in Senders, NEW id \in JobIds, ExecuteInvalidJob(keeper, id)
  PROVE  Kept
  <1>1. PICK reward : reward = Payment(Controller, accounts[keeper], pending[id].reward)
    OBVIOUS
  <1>2. /\ id \in DOMAIN pending /\ keeper \in DOMAIN accounts
        /\ pending' = WithoutJob(Storage, id)
        /\ balance' = After(balance, reward)
    BY <1>1 DEF ExecuteInvalidJob, CanExecute, Settle, CanLeaveQueue
  <1>3. /\ accounts[keeper] \in Addresses /\ accounts[keeper] # Controller
        /\ Controller \in Addresses /\ balance \in [Addresses -> Int] /\ Rewarded(pending)
    BY <1>2, OthersThanController DEF Storage
  <1>4. pending[id].reward \in Nat
    BY <1>2, KnownAddresses
  <1>5. reward \in PaymentType /\ Gain(reward) = 0 - pending[id].reward
    BY <1>1, <1>3, <1>4, GainOf DEF Part
  <1>6. balance'[Controller] = balance[Controller] + Gain(reward)
    BY <1>2, <1>3, <1>5, GainAt
  <1>7. Escrowed(pending') = Escrowed(pending) - pending[id].reward
    <2>1. pending' = Remove(pending, id)
      BY <1>2 DEF WithoutJob, Storage
    <2>. QED
      BY <1>2, <1>3, <2>1, EscrowedRemove
  <1>. QED
    BY <1>4, <1>5, <1>6, <1>7, HeldFields DEF Kept

\* reply() frees the reward of the job that leaves: the next job of a recurring
\* one brings its own.
LEMMA ReplyHeld ==
  ASSUME NEW s, StorageInv(s), StorageInv(Storage)', NEW i, NEW status, NEW terminates,
         JobReply(i, s, status, terminates)
  PROVE  LET reward == s.pending[stack[i].id].reward IN
         /\ reward \in Nat /\ Held(s) \in Int /\ Held(Storage') \in Int
         /\ Held(Storage') >= Held(s) + reward
         /\ s.config.fee_collector # Controller => Held(Storage') = Held(s) + reward
  <1>1. PICK id : id = stack[i].id
    OBVIOUS
  <1>2. PICK job : job = s.pending[id]
    OBVIOUS
  <1>3. PICK rest : rest = WithoutJob(s, id)
    OBVIOUS
  <1>4. PICK reward : reward = job.reward
    OBVIOUS
  <1>5. /\ id \in DOMAIN s.pending /\ job \in JobType /\ reward \in Nat
        /\ job.owner \in DOMAIN s.accounts
    <2>1. id \in DOMAIN s.pending
      BY <1>1 DEF JobReply
    <2>. QED
      BY <1>2, <1>4, <2>1, StoredTypes DEF StorageInv, StoresPartition
  <1>6. PICK account : account = s.accounts[job.owner]
    OBVIOUS
  <1>7. /\ account \in Addresses /\ account # Controller
        /\ job.owner \in Addresses /\ job.owner # Controller
        /\ Controller \in Addresses /\ s.config.fee_collector \in Addresses
        /\ s.balance \in [Addresses -> Int] /\ s.balance[Controller] \in Nat
        /\ s.config.creation_fee_percentage \in Nat /\ Rewarded(s.pending)
    BY <1>5, <1>6, OthersThanController
  <1>8. PICK fee : fee = Fee(reward, s.config.creation_fee_percentage)
    OBVIOUS
  <1>9. fee \in Nat
    BY <1>5, <1>7, <1>8, FeeType
  <1>10. Rewarded(rest) /\ Escrowed(rest) = Escrowed(s.pending) - reward
    <2>1. rest = Remove(s.pending, id)
      BY <1>3 DEF WithoutJob
    <2>2. s.pending[id].reward = reward
      BY <1>2, <1>4
    <2>. QED
      BY <1>5, <1>7, <2>1, <2>2, EscrowedRemove
  <1>11. Escrowed(s.pending) \in Nat
    BY <1>7, EscrowedParts
  <1>12. /\ Held(s) = s.balance[Controller] - Escrowed(s.pending)
         /\ Held(Storage') = balance'[Controller] - Escrowed(pending')
    <2>1. Storage'.balance = balance' /\ Storage'.pending = pending'
      BY DEF Storage
    <2>. QED
      BY <2>1 DEF Held
  <1>13. /\ Part(s.config.fee_collector, fee) \in Nat
         /\ s.config.fee_collector # Controller => Part(s.config.fee_collector, fee) = 0
    BY <1>9 DEF Part
  <1>14. CASE Recurs(s, job, terminates)
    <2>1. PICK first : first = Payment(account, s.config.fee_collector, fee)
      OBVIOUS
    <2>2. PICK second : second = Payment(account, Controller, reward)
      OBVIOUS
    <2>3. PICK b : b = AfterBoth(s.balance, first, second)
      OBVIOUS
    <2>4. PICK next : next = NewJob(job.owner, job.name, reward, job.kind)
      OBVIOUS
    <2>5. /\ Enqueue(s, rest, next)
          /\ balance' = WithdrawNative(b, job, account)
      BY <1>1, <1>2, <1>3, <1>4, <1>6, <1>8, <1>14, <2>1, <2>2, <2>3, <2>4 DEF JobReply
    <2>6. /\ first \in PaymentType /\ second \in PaymentType
          /\ Gain(first) = Part(s.config.fee_collector, fee)
          /\ Gain(second) = reward
      <3>1. /\ first \in PaymentType /\ second \in PaymentType
            /\ Gain(first) = Part(s.config.fee_collector, fee) - Part(account, fee)
            /\ Gain(second) = Part(Controller, reward) - Part(account, reward)
        BY <1>5, <1>7, <1>9, <2>1, <2>2, GainOf
      <3>2. /\ Part(account, fee) = 0 /\ Part(account, reward) = 0
            /\ Part(Controller, reward) = reward
        BY <1>7 DEF Part
      <3>. QED
        BY <1>5, <1>13, <3>1, <3>2
    <2>7. /\ b \in [Addresses -> Int]
          /\ b[Controller] = s.balance[Controller] + Part(s.config.fee_collector, fee) + reward
      BY <1>7, <2>3, <2>6, GainsAt
    <2>8. balance'[Controller] = b[Controller]
      <3>1. CASE balance' = b
        BY <3>1
      <3>2. CASE balance' = After(b, Payment(account, job.owner, b[account]))
        <4>1. PICK payment : payment = Payment(account, job.owner, b[account])
          OBVIOUS
        <4>2. b[account] \in Int
          BY <1>7, <2>7
        <4>3. payment \in PaymentType /\ Gain(payment) = 0
          <5>1. PICK coins : coins = b[account]
            OBVIOUS
          <5>2. /\ payment \in PaymentType
                /\ Gain(payment) = Part(job.owner, coins) - Part(account, coins)
            BY <1>7, <4>1, <4>2, <5>1, GainOf
          <5>. QED
            BY <1>7, <5>2 DEF Part
        <4>4. balance'[Controller] = b[Controller] + Gain(payment) /\ b[Controller] \in Int
          BY <2>7, <3>2, <4>1, <4>3, GainAt
        <4>. QED
          BY <4>3, <4>4
      <3>. QED
        BY <2>5, <3>1, <3>2 DEF WithdrawNative
    <2>9. Escrowed(pending') = Escrowed(rest) + reward
      <3>1. s.current_job_id \notin DOMAIN rest /\ pending' = Save(rest, s.current_job_id, next)
        BY <2>5 DEF Enqueue
      <3>2. next.reward = reward
        BY <2>4 DEF NewJob
      <3>. QED
        BY <1>5, <1>10, <3>1, <3>2, EscrowedSave
    <2>10. Held(Storage') = Held(s) + reward + Part(s.config.fee_collector, fee)
      BY <1>5, <1>7, <1>10, <1>11, <1>12, <1>13, <2>7, <2>8, <2>9
    <2>11. Held(s) \in Int
      BY <1>7, <1>11, <1>12
    <2>. QED
      BY <1>1, <1>2, <1>4, <1>5, <1>13, <2>10, <2>11
  <1>15. CASE ~Recurs(s, job, terminates)
    <2>1. pending' = rest /\ balance' = s.balance
      BY <1>1, <1>2, <1>3, <1>15 DEF JobReply
    <2>2. Held(Storage') = Held(s) + reward /\ Held(s) \in Int
      BY <1>5, <1>7, <1>10, <1>11, <1>12, <2>1
    <2>. QED
      BY <1>1, <1>2, <1>4, <1>5, <2>2
  <1>. QED
    BY <1>14, <1>15

-----------------------------------------------------------------------------
(* The stack *)

\* The frames and what they owe.
LEMMA Frames ==
  ASSUME IInv, EscrowInv
  PROVE  /\ DOMAIN stack = 1..Len(stack) /\ Len(stack) \in Nat /\ Len(stack) <= MaxDepth
         /\ \A i \in DOMAIN stack : /\ stack[i].reward \in Nat
                                    /\ StorageInv(stack[i].before)
                                    /\ Held(stack[i].before) \in Int
                                    /\ Held(stack[i].before) >= OwedUpTo(stack, i - 1)
         /\ \A n \in 0..Len(stack) : OwedUpTo(stack, n) \in Nat
         /\ StorageInv(Storage) /\ Held(Storage) \in Int
         /\ Held(Storage) >= OwedUpTo(stack, Len(stack))
  <1>1. /\ DOMAIN stack = 1..Len(stack) /\ Len(stack) \in Nat /\ Len(stack) <= MaxDepth
        /\ StorageInv(Storage)
    BY SeqOverRange DEF IInv, StackOK
  <1>2. \A i \in DOMAIN stack : stack[i].reward \in Nat /\ StorageInv(stack[i].before)
    BY DEF IInv, FrameInv, FrameOK
  <1>3. \A n \in 0..Len(stack) : OwedUpTo(stack, n) \in Nat
    <2>1. ASSUME NEW n \in 1..Len(stack)
          PROVE  OwedUpTo(stack, n) \in Nat
      <3>1. /\ n - 1 \in Nat /\ (n - 1) + 1 = n
            /\ \A i \in 1..((n - 1) + 1) : stack[i].reward \in Nat
        BY <1>1, <1>2
      <3>2. /\ OwedUpTo(stack, n - 1) \in Nat
            /\ OwedUpTo(stack, n) = OwedUpTo(stack, n - 1)
                 + (IF stack[n].phase = "replied" THEN stack[n].reward ELSE 0)
        BY <3>1, OwedNext
      <3>. QED
        BY <1>1, <1>2, <3>2
    <2>2. OwedUpTo(stack, 0) \in Nat
      BY OwedNothing
    <2>. QED
      BY <1>1, <2>1, <2>2
  <1>4. ASSUME NEW s, StorageInv(s)
        PROVE  Held(s) \in Int
    BY <1>4, OthersThanController, EscrowedParts DEF Held
  <1>. QED
    BY <1>1, <1>2, <1>3, <1>4 DEF EscrowInv

\* The last frame's part of what is owed.
LEMMA OwedLast ==
  ASSUME NEW frames, NEW n \in Nat \ {0}, \A i \in 1..n : frames[i].reward \in Nat
  PROVE  /\ OwedUpTo(frames, n - 1) \in Nat
         /\ OwedUpTo(frames, n) = OwedUpTo(frames, n - 1)
              + (IF frames[n].phase = "replied" THEN frames[n].reward ELSE 0)
  <1>1. n - 1 \in Nat /\ (n - 1) + 1 = n
    OBVIOUS
  <1>. QED
    BY <1>1, OwedNext

\* The frames that stay are covered as before.
LEMMA BelowCovered ==
  ASSUME IInv, EscrowInv, NEW n \in 0..Len(stack),
         \A k \in 1..n : stack'[k].before = stack[k].before,
         \A k \in 1..n : k < n => stack'[k] = stack[k]
  PROVE  \A i \in 1..n : /\ OwedUpTo(stack', i - 1) = OwedUpTo(stack, i - 1)
                         /\ Held(stack'[i].before) >= OwedUpTo(stack', i - 1)
  <1>1. Len(stack) \in Nat /\ DOMAIN stack = 1..Len(stack)
    BY Frames
  <1>2. ASSUME NEW i \in 1..n
        PROVE  /\ OwedUpTo(stack', i - 1) = OwedUpTo(stack, i - 1)
               /\ Held(stack'[i].before) >= OwedUpTo(stack', i - 1)
    <2>1. i - 1 \in Nat /\ \A k \in 1..(i - 1) : stack'[k] = stack[k]
      BY <1>1
    <2>2. OwedUpTo(stack', i - 1) = OwedUpTo(stack, i - 1)
      BY <2>1, OwedAgree
    <2>3. i \in DOMAIN stack /\ stack'[i].before = stack[i].before
      BY <1>1
    <2>. QED
      BY <2>2, <2>3 DEF EscrowInv
  <1>. QED
    BY <1>2

\* What the controller holds of a storage beyond what the frames owe.
Free(s, frames) == Held(s) - OwedUpTo(frames, Len(frames))

\* The three ways of OnlyRaisesStayBehind.
Raised ==
  \/ Free(Storage', stack') = Free(Storage, stack)
  \/ /\ stack # <<>> /\ Len(stack') = Len(stack) /\ Top.phase = "messages"
     /\ Top.id \in DOMAIN pending \ DOMAIN pending'
     /\ Free(Storage', stack') - Free(Storage, stack) = pending[Top.id].reward - Top.reward
  \/ \E i \in DOMAIN stack :
       /\ Len(stack') <= i
       /\ Free(Storage', stack') = Held(stack[i].before) - OwedUpTo(stack, i - 1)

\* A handler that leaves the stack alone.
LEMMA SameStackEscrow ==
  ASSUME IInv, EscrowInv, StorageInv(Storage)', Kept, stack' = stack
  PROVE  EscrowInv' /\ (config.fee_collector # Controller => Raised)
  <1>1. /\ Held(Storage) \in Int /\ Held(Storage') \in Int
        /\ OwedUpTo(stack, Len(stack)) \in Nat
        /\ Held(Storage) >= OwedUpTo(stack, Len(stack))
    <2>1. StorageInv(Storage) /\ Len(stack) \in 0..Len(stack)
      BY Frames
    <2>. QED
      BY <2>1, Frames, HeldFields
  <1>2. Held(Storage') >= OwedUpTo(stack', Len(stack'))
    BY <1>1 DEF Kept
  <1>3. EscrowInv'
    BY <1>2 DEF EscrowInv
  <1>. QED
    BY <1>3 DEF Kept, Raised, Free

\* execute_job begins a call that owes nothing yet.
LEMMA ExecuteJobEscrow ==
  ASSUME IInv, IInv', EscrowInv, NEW keeper \in Senders, NEW id \in JobIds,
         ExecuteJob(keeper, id)
  PROVE  EscrowInv' /\ Raised
  <1>. DEFINE f == [id |-> id, account |-> accounts[pending[id].owner],
                    keeper |-> accounts[keeper], reward |-> pending[id].reward,
                    phase |-> "messages", callback |-> FALSE, before |-> Storage]
  <1>1. PICK n : n = Len(stack)
    OBVIOUS
  <1>2. /\ stack \in Seq(Range(stack)) /\ n \in Nat /\ n \in 0..Len(stack)
        /\ DOMAIN stack = 1..n /\ StackOK
        /\ StorageInv(Storage) /\ StorageInv(Storage)'
    BY <1>1, SeqOverRange DEF IInv, StackOK
  <1>3. n + 1 <= MaxDepth
    BY <1>1, <1>2, BoundAssumption DEF ExecuteJob
  <1>4. stack' = Append(SubSeq(stack, 1, n), f)
    <2>1. SubSeq(stack, 1, n) = stack
      BY <1>1, <1>2, SubSeqFull
    <2>. QED
      BY <2>1 DEF ExecuteJob
  <1>5. f.before = Storage /\ f.phase = "messages" /\ f.reward \in Nat
    BY <1>2, KnownAddresses DEF ExecuteJob, CanExecute
  <1>. HIDE DEF f
  <1>6. /\ DOMAIN stack' = 1..(n + 1) /\ stack'[n + 1] = f
        /\ \A k \in 1..n : stack'[k] = stack[k]
    BY <1>2, <1>3, <1>4, PushFrame
  <1>7. Len(stack') = n + 1
    <2>1. Len(stack') \in Nat /\ DOMAIN stack' = 1..Len(stack')
      BY SeqOverRange DEF IInv, StackOK
    <2>. QED
      BY <1>2, <1>6, <2>1
  <1>8. Held(Storage') = Held(Storage)
    <2>1. Storage' = Storage
      BY DEF ExecuteJob, Storage
    <2>. QED
      BY <2>1
  <1>9. OwedUpTo(stack', n) = OwedUpTo(stack, n)
    BY <1>2, <1>6, OwedAgree
  <1>10. OwedUpTo(stack', n + 1) = OwedUpTo(stack, n) /\ OwedUpTo(stack, n) \in Nat
    <2>1. \A k \in 1..(n + 1) : k \in 1..n \/ k = n + 1
      BY <1>2
    <2>2. \A k \in 1..(n + 1) : stack'[k].reward \in Nat
      BY <1>2, <1>5, <1>6, <2>1, Frames
    <2>3. /\ OwedUpTo(stack', n) \in Nat
          /\ OwedUpTo(stack', n + 1) = OwedUpTo(stack', n)
               + (IF stack'[n + 1].phase = "replied" THEN stack'[n + 1].reward ELSE 0)
      BY <1>2, <2>2, OwedNext
    <2>. QED
      BY <1>5, <1>6, <1>9, <2>3
  <1>11. Held(Storage) >= OwedUpTo(stack, n) /\ Held(Storage) \in Int
    BY <1>1, Frames
  <1>12. \A i \in 1..(n + 1) : Held(stack'[i].before) >= OwedUpTo(stack', i - 1)
    <2>1. \A i \in 1..n : Held(stack'[i].before) >= OwedUpTo(stack', i - 1)
      BY <1>2, <1>6, BelowCovered
    <2>2. Held(stack'[n + 1].before) >= OwedUpTo(stack', (n + 1) - 1)
      <3>1. (n + 1) - 1 = n
        BY <1>2
      <3>. QED
        BY <1>5, <1>6, <1>9, <1>11, <3>1
    <2>3. \A i \in 1..(n + 1) : i \in 1..n \/ i = n + 1
      BY <1>2
    <2>. QED
      BY <2>1, <2>2, <2>3
  <1>13. EscrowInv'
    BY <1>6, <1>7, <1>8, <1>10, <1>11, <1>12 DEF EscrowInv
  <1>. QED
    BY <1>1, <1>7, <1>8, <1>10, <1>13 DEF Raised, Free

\* reply() of frame i from storage s turns the reward of the job into the one
\* that the keeper is owed, which is no higher.
LEMMA ReplyEscrow ==
  ASSUME IInv, IInv', LifeInv, EscrowInv, NEW i \in DOMAIN stack, NEW s, NEW status,
         NEW terminates, JobReply(i, s, status, terminates),
         stack[i].phase = "messages",
         \/ s = Storage /\ i = Len(stack)
         \/ s = stack[i].before
  PROVE  LET reward == s.pending[stack[i].id].reward IN
         /\ EscrowInv'
         /\ Len(stack') = i
         /\ reward \in Nat /\ stack[i].reward \in Nat /\ reward >= stack[i].reward
         /\ Held(s) \in Int /\ OwedUpTo(stack, i - 1) \in Nat
         /\ s.config.fee_collector # Controller =>
              Free(Storage', stack')
                = Held(s) - OwedUpTo(stack, i - 1) + reward - stack[i].reward
  <1>1. PICK reward : reward = s.pending[stack[i].id].reward
    OBVIOUS
  <1>2. /\ DOMAIN stack = 1..Len(stack) /\ Len(stack) \in Nat /\ Len(stack) <= MaxDepth
        /\ StackOK /\ FrameOK(stack[i]) /\ FrameLife(i)
        /\ i \in 1..Len(stack) /\ i \in Nat \ {0} /\ i - 1 \in 0..Len(stack)
    BY Frames, LifeByFrame DEF IInv, FrameInv
  <1>3. StorageInv(s) /\ StorageInv(Storage)'
    BY Frames DEF IInv
  <1>4. /\ reward \in Nat /\ Held(s) \in Int /\ Held(Storage') \in Int
        /\ Held(Storage') >= Held(s) + reward
        /\ s.config.fee_collector # Controller => Held(Storage') = Held(s) + reward
    BY <1>1, <1>3, ReplyHeld
  <1>5. stack[i].reward \in Nat /\ reward >= stack[i].reward
    <2>1. PICK id : id = stack[i].id
      OBVIOUS
    <2>2. PICK old : old = stack[i].before
      OBVIOUS
    <2>3. id \in DOMAIN s.pending /\ id \notin DOMAIN s.finished
      BY <2>1 DEF JobReply
    <2>4. StorageInv(old) /\ Advances(old, s)
      BY <1>2, <2>2, Frames, AdvancesReflexive DEF FrameLife
    <2>5. id \in DOMAIN old.pending /\ stack[i].reward = old.pending[id].reward
      BY <1>2, <2>1, <2>2 DEF FrameLife, Begun
    <2>6. reward >= stack[i].reward
      BY <1>1, <2>1, <2>3, <2>4, <2>5 DEF Advances
    <2>. QED
      BY <2>6, Frames
  <1>6. PICK b : stack' = Append(SubSeq(stack, 1, i - 1),
                                 [stack[i] EXCEPT !.phase = "replied", !.callback = b])
    BY DEF JobReply
  <1>. DEFINE f == [stack[i] EXCEPT !.phase = "replied", !.callback = b]
  <1>7. f.before = stack[i].before /\ f.reward = stack[i].reward /\ f.phase = "replied"
    BY <1>2 DEF FrameOK
  <1>8. stack' = Append(SubSeq(stack, 1, i - 1), f)
    BY <1>6
  <1>. HIDE DEF f
  <1>9. /\ DOMAIN stack' = 1..i /\ stack'[i] = f
        /\ \A k \in 1..(i - 1) : stack'[k] = stack[k]
    <2>1. (i - 1) + 1 <= MaxDepth /\ (i - 1) + 1 = i
      BY <1>2, BoundAssumption
    <2>. QED
      BY <1>2, <1>8, <2>1, PushFrame
  <1>10. Len(stack') = i
    <2>1. Len(stack') \in Nat /\ DOMAIN stack' = 1..Len(stack')
      BY SeqOverRange DEF IInv, StackOK
    <2>. QED
      BY <1>2, <1>9, <2>1
  <1>11. \A k \in 1..i : Held(stack'[k].before) >= OwedUpTo(stack', k - 1)
    <2>1. \A k \in 1..i : k < i => stack'[k] = stack[k]
      BY <1>2, <1>9
    <2>2. \A k \in 1..i : stack'[k].before = stack[k].before
      BY <1>2, <1>7, <1>9, <2>1
    <2>3. i \in 0..Len(stack)
      BY <1>2
    <2>. QED
      BY <2>1, <2>2, <2>3, BelowCovered
  <1>12. OwedUpTo(stack', i) = OwedUpTo(stack, i - 1) + stack[i].reward
         /\ OwedUpTo(stack, i - 1) \in Nat
    <2>1. OwedUpTo(stack', i - 1) = OwedUpTo(stack, i - 1)
      BY <1>2, <1>9, OwedAgree
    <2>2. \A k \in 1..i : stack'[k].reward \in Nat
      <3>1. \A k \in 1..i : k = i \/ (k \in 1..(i - 1) /\ k \in DOMAIN stack)
        BY <1>2
      <3>. QED
        BY <1>5, <1>7, <1>9, <3>1, Frames
    <2>3. /\ OwedUpTo(stack', i - 1) \in Nat
          /\ OwedUpTo(stack', i) = OwedUpTo(stack', i - 1)
               + (IF stack'[i].phase = "replied" THEN stack'[i].reward ELSE 0)
      BY <1>2, <2>2, OwedLast
    <2>. QED
      BY <1>7, <1>9, <2>1, <2>3
  <1>13. Held(s) >= OwedUpTo(stack, i - 1)
    <2>1. CASE s = Storage /\ i = Len(stack)
      <3>1. \A k \in 1..i : stack[k].reward \in Nat
        BY <1>2, <2>1, Frames
      <3>2. OwedUpTo(stack, i) = OwedUpTo(stack, i - 1)
        <4>1. /\ OwedUpTo(stack, i - 1) \in Nat
              /\ OwedUpTo(stack, i) = OwedUpTo(stack, i - 1)
                   + (IF stack[i].phase = "replied" THEN stack[i].reward ELSE 0)
          BY <1>2, <3>1, OwedLast
        <4>. QED
          BY <4>1
      <3>. QED
        BY <2>1, <3>2, Frames
    <2>2. CASE s = stack[i].before
      BY <2>2, Frames
    <2>. QED
      BY <2>1, <2>2
  <1>14. EscrowInv'
    <2>1. Held(Storage') >= OwedUpTo(stack', i)
      BY <1>4, <1>5, <1>12, <1>13
    <2>. QED
      BY <1>9, <1>10, <1>11, <2>1 DEF EscrowInv
  <1>15. s.config.fee_collector # Controller =>
           Free(Storage', stack') = Held(s) - OwedUpTo(stack, i - 1) + reward - stack[i].reward
    BY <1>4, <1>5, <1>10, <1>12 DEF Free
  <1>. QED
    BY <1>1, <1>4, <1>5, <1>10, <1>12, <1>14, <1>15

\* The two ways in which reply() runs.
LEMMA JobSucceedsEscrow ==
  ASSUME IInv, IInv', LifeInv, EscrowInv, NEW terminates \in BOOLEAN, JobSucceeds(terminates)
  PROVE  EscrowInv' /\ (config.fee_collector # Controller => Raised)
  <1>1. PICK i : i = Len(stack)
    OBVIOUS
  <1>2. i \in DOMAIN stack /\ stack[i].phase = "messages" /\ Top = stack[i] /\ stack # <<>>
    BY <1>1, SeqOverRange, EmptySeq DEF IInv, StackOK, JobSucceeds, Top
  <1>3. JobReply(i, Storage, "Executed", terminates)
    BY <1>1 DEF JobSucceeds
  <1>4. PICK reward : reward = pending[Top.id].reward
    OBVIOUS
  <1>5. Storage.config = config /\ Storage.pending = pending
    BY DEF Storage
  <1>6. /\ EscrowInv' /\ Len(stack') = Len(stack)
        /\ reward \in Nat /\ Top.reward \in Nat
        /\ Held(Storage) \in Int /\ OwedUpTo(stack, i - 1) \in Nat
        /\ config.fee_collector # Controller =>
             Free(Storage', stack')
               = Held(Storage) - OwedUpTo(stack, i - 1) + reward - Top.reward
    BY <1>1, <1>2, <1>3, <1>4, <1>5, ReplyEscrow
  <1>7. OwedUpTo(stack, i) = OwedUpTo(stack, i - 1)
    <2>1. i \in Nat \ {0} /\ \A k \in 1..i : stack[k].reward \in Nat
      BY <1>1, <1>2, Frames
    <2>2. /\ OwedUpTo(stack, i - 1) \in Nat
          /\ OwedUpTo(stack, i) = OwedUpTo(stack, i - 1)
               + (IF stack[i].phase = "replied" THEN stack[i].reward ELSE 0)
      BY <2>1, OwedLast
    <2>. QED
      BY <1>2, <2>2
  <1>8. Free(Storage, stack) = Held(Storage) - OwedUpTo(stack, i - 1)
    BY <1>1, <1>7 DEF Free
  <1>9. Top.id \in DOMAIN pending \ DOMAIN pending'
    <2>1. PICK id : id = Top.id
      OBVIOUS
    <2>2. id \in DOMAIN pending /\ id \in DOMAIN finished'
      BY <1>2, <1>3, <1>5, <2>1 DEF JobReply, Save
    <2>3. DOMAIN pending' \cap DOMAIN finished' = {}
      <3>1. StorageInv(Storage')
        BY DEF IInv
      <3>2. DOMAIN Storage'.pending \cap DOMAIN Storage'.finished = {}
        BY <3>1, StoredTypes
      <3>3. Storage'.pending = pending' /\ Storage'.finished = finished'
        BY DEF Storage
      <3>. QED
        BY <3>2, <3>3
    <2>. QED
      BY <2>1, <2>2, <2>3
  <1>10. ASSUME config.fee_collector # Controller
         PROVE  Raised
    <2>1. Free(Storage', stack') - Free(Storage, stack) = reward - Top.reward
      <3>1. PICK gone : gone = Free(Storage', stack')
        OBVIOUS
      <3>2. PICK held : held = Held(Storage) - OwedUpTo(stack, i - 1)
        OBVIOUS
      <3>3. held \in Int /\ gone = held + reward - Top.reward
        BY <1>6, <1>10, <3>1, <3>2
      <3>4. gone - held = reward - Top.reward
        BY <1>6, <3>3
      <3>. QED
        BY <1>8, <3>1, <3>2, <3>4
    <2>. QED
      BY <1>2, <1>4, <1>6, <1>9, <2>1 DEF Raised
  <1>. QED
    BY <1>6, <1>10

LEMMA JobFailsEscrow ==
  ASSUME IInv, IInv', LifeInv, EscrowInv, NEW i \in DOMAIN stack, NEW terminates \in BOOLEAN,
         JobFails(i, terminates)
  PROVE  EscrowInv' /\ (stack[i].before.config.fee_collector # Controller => Raised)
  <1>1. PICK s : s = stack[i].before
    OBVIOUS
  <1>2. PICK reward : reward = s.pending[stack[i].id].reward
    OBVIOUS
  <1>3. stack[i].phase = "messages" /\ JobReply(i, s, "Failed", terminates)
    BY <1>1 DEF JobFails
  <1>4. reward = stack[i].reward
    <2>1. FrameLife(i)
      BY LifeByFrame
    <2>. QED
      BY <1>1, <1>2, <2>1 DEF FrameLife, Begun
  <1>5. /\ EscrowInv' /\ Len(stack') = i
        /\ reward \in Nat /\ Held(s) \in Int /\ OwedUpTo(stack, i - 1) \in Nat
        /\ s.config.fee_collector # Controller =>
             Free(Storage', stack')
               = Held(s) - OwedUpTo(stack, i - 1) + reward - stack[i].reward
    BY <1>1, <1>2, <1>3, ReplyEscrow
  <1>6. i <= i
    BY Frames
  <1>7. ASSUME s.config.fee_collector # Controller
        PROVE  Free(Storage', stack') = Held(s) - OwedUpTo(stack, i - 1)
    BY <1>4, <1>5, <1>7
  <1>. QED
    BY <1>1, <1>5, <1>6, <1>7 DEF Raised

\* The keeper gets what the last frame owes.
LEMMA PayKeeperEscrow ==
  ASSUME IInv, IInv', EscrowInv, PayKeeper
  PROVE  EscrowInv' /\ Raised
  <1>1. PICK n : n = Len(stack) - 1
    OBVIOUS
  <1>2. /\ DOMAIN stack = 1..Len(stack) /\ n \in Nat /\ n \in 0..Len(stack) /\ n + 1 = Len(stack)
        /\ n + 1 \in DOMAIN stack /\ Top = stack[n + 1] /\ Top.phase = "replied"
        /\ FrameOK(Top) /\ StackOK
        /\ StorageInv(Storage) /\ StorageInv(Storage)'
    <2>1. /\ DOMAIN stack = 1..Len(stack) /\ Len(stack) \in Nat /\ Len(stack) # 0
      BY SeqOverRange, EmptySeq DEF IInv, StackOK, PayKeeper
    <2>2. /\ n \in Nat /\ n \in 0..Len(stack) /\ n + 1 = Len(stack)
          /\ n + 1 \in DOMAIN stack /\ Top = stack[n + 1]
      BY <1>1, <2>1 DEF Top
    <2>. QED
      BY <2>1, <2>2 DEF IInv, FrameInv, PayKeeper
  <1>3. stack' = SubSeq(stack, 1, n)
    BY <1>1 DEF PayKeeper
  <1>4. DOMAIN stack' = 1..n /\ \A k \in 1..n : stack'[k] = stack[k]
    BY <1>2, <1>3, CutStack
  <1>5. Len(stack') = n
    <2>1. Len(stack') \in Nat /\ DOMAIN stack' = 1..Len(stack')
      BY SeqOverRange DEF IInv, StackOK
    <2>. QED
      BY <1>2, <1>4, <2>1
  <1>6. Held(Storage') = Held(Storage) - Top.reward /\ Top.reward \in Nat
    <2>1. PICK reward : reward = Payment(Controller, Top.keeper, Top.reward)
      OBVIOUS
    <2>2. /\ Top.reward \in Nat /\ Top.keeper \in Addresses /\ Top.keeper # Controller
          /\ Controller \in Addresses /\ balance \in [Addresses -> Int]
      <3>1. Top.reward \in Nat /\ Top.keeper \in AccountAddrs
        BY <1>2 DEF FrameOK
      <3>2. Controller \in Addresses /\ balance \in [Addresses -> Int]
        BY <1>2, OthersThanController DEF Storage
      <3>. QED
        BY <3>1, <3>2, AddressAssumption DEF Addresses
    <2>3. reward \in PaymentType /\ Gain(reward) = 0 - Top.reward
      <3>1. /\ reward \in PaymentType
            /\ Gain(reward) = Part(Top.keeper, Top.reward) - Part(Controller, Top.reward)
        BY <2>1, <2>2, GainOf
      <3>. QED
        BY <2>2, <3>1 DEF Part
    <2>4. balance' = After(balance, reward) /\ pending' = pending
      BY <2>1 DEF PayKeeper
    <2>5. balance'[Controller] = balance[Controller] + Gain(reward)
      BY <2>2, <2>3, <2>4, GainAt
    <2>. QED
      BY <1>2, <2>2, <2>3, <2>4, <2>5, HeldFields
  <1>7. OwedUpTo(stack', n) = OwedUpTo(stack, n)
    BY <1>2, <1>4, OwedAgree
  <1>8. /\ OwedUpTo(stack, n) \in Nat
        /\ OwedUpTo(stack, n + 1) = OwedUpTo(stack, n) + Top.reward
    <2>1. \A k \in 1..(n + 1) : stack[k].reward \in Nat
      BY <1>2, Frames
    <2>2. /\ OwedUpTo(stack, n) \in Nat
          /\ OwedUpTo(stack, n + 1) = OwedUpTo(stack, n)
               + (IF stack[n + 1].phase = "replied" THEN stack[n + 1].reward ELSE 0)
      BY <1>2, <2>1, OwedNext
    <2>. QED
      BY <1>2, <2>2
  <1>9. Held(Storage) >= OwedUpTo(stack, n + 1) /\ Held(Storage) \in Int
    BY <1>2, Frames
  <1>10. \A i \in 1..n : Held(stack'[i].before) >= OwedUpTo(stack', i - 1)
    BY <1>2, <1>4, BelowCovered
  <1>11. EscrowInv'
    <2>1. Held(Storage') >= OwedUpTo(stack', n)
      BY <1>6, <1>7, <1>8, <1>9
    <2>. QED
      BY <1>4, <1>5, <1>10, <2>1 DEF EscrowInv
  <1>12. Free(Storage', stack') = Free(Storage, stack)
    BY <1>2, <1>5, <1>6, <1>7, <1>8, <1>9 DEF Free
  <1>. QED
    BY <1>11, <1>12 DEF Raised

\* A call that fails gives back what was there before it.
LEMMA CallFailsEscrow ==
  ASSUME IInv, IInv', EscrowInv, NEW i \in DOMAIN stack, CallFails(i)
  PROVE  EscrowInv' /\ Raised
  <1>1. PICK n : n = i - 1
    OBVIOUS
  <1>2. /\ DOMAIN stack = 1..Len(stack) /\ Len(stack) \in Nat /\ n \in Nat /\ n \in 0..Len(stack)
        /\ n + 1 = i /\ n <= i /\ StackOK
    BY <1>1, Frames DEF IInv
  <1>3. stack' = SubSeq(stack, 1, n)
    BY <1>1 DEF CallFails
  <1>4. DOMAIN stack' = 1..n /\ \A k \in 1..n : stack'[k] = stack[k]
    BY <1>2, <1>3, CutStack
  <1>5. Len(stack') = n
    <2>1. Len(stack') \in Nat /\ DOMAIN stack' = 1..Len(stack')
      BY SeqOverRange DEF IInv, StackOK
    <2>. QED
      BY <1>2, <1>4, <2>1
  <1>6. Held(Storage') = Held(stack[i].before)
    <2>1. Storage'.balance = stack[i].before.balance /\ Storage'.pending = stack[i].before.pending
      BY DEF CallFails, Restore, Storage
    <2>. QED
      BY <2>1 DEF Held
  <1>7. OwedUpTo(stack', n) = OwedUpTo(stack, n)
    BY <1>2, <1>4, OwedAgree
  <1>8. \A k \in 1..n : Held(stack'[k].before) >= OwedUpTo(stack', k - 1)
    BY <1>2, <1>4, BelowCovered
  <1>9. Held(Storage') >= OwedUpTo(stack', n)
    BY <1>1, <1>6, <1>7 DEF EscrowInv
  <1>10. EscrowInv'
    BY <1>4, <1>5, <1>8, <1>9 DEF EscrowInv
  <1>11. Free(Storage', stack') = Held(stack[i].before) - OwedUpTo(stack, i - 1)
    BY <1>1, <1>5, <1>6, <1>7 DEF Free
  <1>. QED
    BY <1>2, <1>5, <1>10, <1>11 DEF Raised

-----------------------------------------------------------------------------
(* The invariant *)

LEMMA InitEscrow == ASSUME Init PROVE EscrowInv
  <1>1. DOMAIN stack = {} /\ Len(stack) = 0 /\ DOMAIN pending = {}
    BY DEF Init, EmptyMap
  <1>2. balance[Controller] = 0
    BY AddressAssumption DEF Init, Addresses
  <1>3. Escrowed(pending) = 0
    <2>1. PICK f : f = [id \in DOMAIN pending |-> pending[id].reward]
      OBVIOUS
    <2>2. Escrowed(pending) = SumFunctionOnSet(f, {})
      BY <1>1, <2>1, Zenon DEF Escrowed
    <2>. QED
      BY <2>2, FS_EmptySet, SumUnfold
  <1>4. Held(Storage) = 0
    BY <1>2, <1>3 DEF Held, Storage
  <1>5. OwedUpTo(stack, Len(stack)) = 0
    BY <1>1, OwedNothing
  <1>. QED
    BY <1>1, <1>4, <1>5 DEF EscrowInv

\* No fee of this storage is the controller's.
Apart(s) == s.config.fee_collector # Controller

\* Every step keeps the invariant and, unless fees go to the controller itself,
\* takes in more than it keeps in escrow only by a raise.
LEMMA NextEscrow ==
  ASSUME IInv, IInv', LifeInv, EscrowInv, [Next]_vars
  PROVE  /\ EscrowInv'
         /\ Apart(Storage) /\ (\A i \in DOMAIN stack : Apart(stack[i].before)) => Raised
  <1>1. StorageInv(Storage) /\ StorageInv(Storage)' /\ Storage.config = config
    BY DEF IInv, Storage
  <1>2. ASSUME stack' = stack, Kept
        PROVE  EscrowInv' /\ (Apart(Storage) => Raised)
    BY <1>1, <1>2, SameStackEscrow DEF Apart
  <1>3. CASE AccountStep \/ SpendStep \/ ConfigStep \/ Tick \/ UNCHANGED vars
    <2>1. stack' = stack
      BY <1>3 DEF AccountStep, OpenAccount, FundAccount, SpendStep, SpendFromAccount,
                  ConfigStep, UpdateConfig, Tick, vars
    <2>. QED
      BY <1>1, <1>2, <1>3, <2>1, EscrowUntouched
  <1>4. CASE JobStep
    <2>1. stack' = stack
      BY <1>4 DEF JobStep, CreateJob, DeleteJob, UpdateJob, MayDelete, CancellationFee, Refund,
                  Charge
    <2>2. Kept
      BY <1>1, <1>4, CreateJobKept, DeleteJobKept, UpdateJobKept DEF JobStep
    <2>. QED
      BY <1>2, <2>1, <2>2
  <1>5. CASE EvictStep
    <2>1. stack' = stack
      BY <1>5 DEF EvictStep, EvictAndRequeue, EvictJob, MayRequeue, Requeued, RequeueCharge,
                  MayEvict, Refund, Charge
    <2>2. Kept
      BY <1>1, <1>5, EvictAndRequeueKept, EvictJobKept DEF EvictStep
    <2>. QED
      BY <1>2, <2>1, <2>2
  <1>6. CASE ExecuteStep
    <2>1. ASSUME NEW keeper \in Senders, NEW id \in JobIds, ExecuteInvalidJob(keeper, id)
          PROVE  EscrowInv' /\ (Apart(Storage) => Raised)
      <3>1. stack' = stack
        BY <2>1 DEF ExecuteInvalidJob
      <3>. QED
        BY <1>1, <1>2, <2>1, <3>1, InvalidJobKept
    <2>2. ASSUME NEW keeper \in Senders, NEW id \in JobIds, ExecuteJob(keeper, id)
          PROVE  EscrowInv' /\ Raised
      BY <2>2, ExecuteJobEscrow
    <2>3. ASSUME NEW terminates \in BOOLEAN, JobSucceeds(terminates)
          PROVE  EscrowInv' /\ (Apart(Storage) => Raised)
      BY <1>1, <2>3, JobSucceedsEscrow DEF Apart
    <2>4. ASSUME NEW terminates \in BOOLEAN, NEW i \in DOMAIN stack, JobFails(i, terminates)
          PROVE  EscrowInv' /\ (Apart(stack[i].before) => Raised)
      BY <2>4, JobFailsEscrow DEF Apart
    <2>5. ASSUME PayKeeper
          PROVE  EscrowInv' /\ Raised
      BY <2>5, PayKeeperEscrow
    <2>6. ASSUME NEW i \in DOMAIN stack, CallFails(i)
          PROVE  EscrowInv' /\ Raised
      BY <2>6, CallFailsEscrow
    <2>. QED
      BY <1>6, <2>1, <2>2, <2>3, <2>4, <2>5, <2>6 DEF ExecuteStep
  <1>. QED
    BY <1>3, <1>4, <1>5, <1>6 DEF Next

LEMMA EscrowInvariance == Spec => []EscrowInv
  BY InitEscrow, NextEscrow, Invariance, LifeInvariance, PTL DEF Spec

-----------------------------------------------------------------------------
(* What follows *)

\* OwedBy, frame by frame.
LEMMA OwedByFrames ==
  ASSUME NEW frames, DOMAIN frames = 1..Len(frames)
  PROVE  OwedBy(frames) = OwedUpTo(frames, Len(frames))
  BY Zenon DEF OwedBy, OwedUpTo

\* The escrow: the controller always holds the rewards of all pending jobs and
\* of all keepers still to be paid, also between the steps of a transaction in
\* which the messages of a job call back into the controller, and whatever the
\* configuration is changed to.
THEOREM EscrowCovered == Spec => []EscrowCovers
  <1>1. ASSUME IInv, EscrowInv
        PROVE  EscrowCovers
    <2>1. /\ DOMAIN stack = 1..Len(stack) /\ Held(Storage) \in Int
          /\ OwedUpTo(stack, Len(stack)) \in Nat
          /\ Held(Storage) >= OwedUpTo(stack, Len(stack)) /\ StorageInv(Storage)
      <3>1. Len(stack) \in 0..Len(stack)
        BY <1>1, Frames
      <3>. QED
        BY <1>1, <3>1, Frames
    <2>2. Owed = OwedUpTo(stack, Len(stack))
      BY <2>1, OwedByFrames DEF Owed
    <2>3. Held(Storage) = balance[Controller] - Escrowed(pending)
      BY DEF Held, Storage
    <2>4. balance[Controller] \in Nat /\ Escrowed(pending) \in Nat
      BY <2>1, OthersThanController, EscrowedParts DEF Storage
    <2>. QED
      BY <2>1, <2>2, <2>3, <2>4 DEF EscrowCovers
  <1>. QED
    BY <1>1, Invariance, EscrowInvariance, PTL
-----------------------------------------------------------------------------
(* What nobody can keep from the owner and the evictors *)

\* The controller can split m + n coins that it holds in two payments.
LEMMA PaysTwice ==
  ASSUME NEW b \in [Addresses -> Nat], NEW x \in Addresses, x # Controller, NEW y \in Addresses,
         NEW m \in Nat \ {0}, NEW n \in Nat \ {0}, b[Controller] >= m + n
  PROVE  AffordsBoth(b, Payment(Controller, x, m), Payment(Controller, y, n))
  <1>1. Controller \in Addresses /\ b \in [Addresses -> Int] /\ b[Controller] \in Nat
    BY DEF Addresses
  <1>2. PICK c : c = After(b, Payment(Controller, x, m))
    OBVIOUS
  <1>3. c[Controller] = b[Controller] - Part(Controller, m) + Part(x, m)
    BY <1>1, <1>2, PaymentAt
  <1>4. c[Controller] >= n
    BY <1>1, <1>3 DEF Part
  <1>5. Affords(b, Payment(Controller, x, m)) /\ Affords(c, Payment(Controller, y, n))
    BY <1>1, <1>4 DEF Affords, Payment
  <1>. QED
    BY <1>2, <1>5, Zenon DEF AffordsBoth

\* A pending job can leave the queue: the counter and the maps let it go, and
\* the controller holds its reward.
LEMMA LetsGo ==
  ASSUME IInv, EscrowInv, NEW id \in DOMAIN pending
  PROVE  /\ CanLeaveQueue /\ id \notin DOMAIN finished
         /\ balance[Controller] \in Nat /\ pending[id].reward \in Nat
         /\ balance[Controller] >= pending[id].reward
  <1>1. StorageInv(Storage) /\ Stores
    BY StoresIsStorageInv DEF IInv
  <1>2. CanLeaveQueue /\ id \notin DOMAIN finished
    <2>1. IsFiniteSet(DOMAIN pending) /\ Cardinality(DOMAIN pending) \in Nat
      BY <1>1, FiniteStores DEF StorageInv, Storage
    <2>2. Cardinality(DOMAIN pending) # 0
      BY <2>1, FS_EmptySet
    <2>. QED
      BY <1>1, <2>1, <2>2 DEF Stores, CanLeaveQueue
  <1>3. Rewarded(pending) /\ balance[Controller] \in Nat
    BY <1>1, OthersThanController DEF Storage
  <1>4. Held(Storage) >= 0 /\ Held(Storage) = balance[Controller] - Escrowed(pending)
    <2>1. Len(stack) \in 0..Len(stack)
      BY Frames
    <2>2. OwedUpTo(stack, Len(stack)) \in Nat /\ Held(Storage) \in Int
      BY <2>1, Frames
    <2>. QED
      BY <2>2 DEF EscrowInv, Held, Storage
  <1>5. PICK rest : rest = Remove(pending, id)
    OBVIOUS
  <1>6. Rewarded(rest) /\ Escrowed(rest) = Escrowed(pending) - pending[id].reward
    BY <1>3, <1>5, EscrowedRemove
  <1>7. Escrowed(rest) \in Nat /\ Escrowed(pending) \in Nat /\ pending[id].reward \in Nat
    BY <1>3, <1>6, EscrowedParts DEF Rewarded
  <1>. QED
    BY <1>2, <1>3, <1>4, <1>6, <1>7

\* Between transactions nothing that keepers, evictors, configurations or jobs
\* that called back have done stands between the owner and the escrowed reward:
\* delete_job succeeds, unless one of its payments would be of zero coins.
THEOREM OwnerCanAlwaysCancel == Spec => []AlwaysCancellable
  <1>1. ASSUME IInv, EscrowInv, stack = <<>>, NEW id \in DOMAIN pending,
               CancellationFee(id) \in 1..(pending[id].reward - 1)
        PROVE  MayDelete(pending[id].owner, id)
    <2>1. PICK job, fee, o : job = pending[id] /\ fee = CancellationFee(id) /\ o = job.owner
      OBVIOUS
    <2>2. /\ o \in DOMAIN accounts /\ o \in Users /\ config.fee_collector \in Addresses
          /\ balance \in [Addresses -> Nat] /\ job.status = "Pending"
      BY <1>1, <2>1, KnownAddresses, StoresIsStorageInv DEF IInv, Stores
    <2>3. accounts[o] \in Addresses /\ accounts[o] # Controller
      BY <1>1, <2>2, OthersThanController DEF IInv, Storage
    <2>4. MayAct(o)
      BY <1>1, <2>2 DEF MayAct
    <2>5. /\ CanLeaveQueue /\ id \notin DOMAIN finished /\ job.reward \in Nat
          /\ balance[Controller] \in Nat /\ balance[Controller] >= job.reward
      BY <1>1, <2>1, LetsGo
    <2>6. /\ fee \in Nat \ {0} /\ job.reward - fee \in Nat \ {0}
          /\ balance[Controller] >= (job.reward - fee) + fee
      BY <1>1, <2>1, <2>5
    <2>7. AffordsBoth(balance, Payment(Controller, accounts[o], job.reward - fee),
                      Payment(Controller, config.fee_collector, fee))
      BY <2>2, <2>3, <2>6, PaysTwice
    <2>8. /\ Refund(o, job, fee) = Payment(Controller, accounts[o], job.reward - fee)
          /\ Charge(config.fee_collector, fee) = Payment(Controller, config.fee_collector, fee)
      BY DEF Refund, Charge, Remainder
    <2>. QED
      BY <2>1, <2>2, <2>4, <2>5, <2>7, <2>8 DEF MayDelete
  <1>2. IInv /\ EscrowInv => AlwaysCancellable
    BY <1>1 DEF AlwaysCancellable
  <1>. QED
    BY <1>2, Invariance, EscrowInvariance, PTL

\* Between transactions any user can evict a job that has waited for t_max, or
\* have it requeued, whatever t_max has been changed to and however long the
\* queue is, unless a payment would be of zero coins or the fee exceeds the
\* reward.
THEOREM AnyoneCanAlwaysEvict == Spec => []AlwaysEvictable
  <1>1. ASSUME IInv, SoundInv, EscrowInv, stack = <<>>,
               NEW id \in DOMAIN pending, NEW sender \in Users,
               pending[id].age >= config.t_max,
               EvictionFee(config, q) \in 1..(pending[id].reward - 1)
        PROVE  MayRequeue(sender, id) \/ MayEvict(sender, id)
    <2>1. PICK job, fee, o : /\ job = pending[id] /\ fee = EvictionFee(config, q)
                             /\ o = job.owner
      OBVIOUS
    <2>2. /\ o \in DOMAIN accounts /\ balance \in [Addresses -> Nat] /\ job.status = "Pending"
          /\ config \in ConfigType /\ q \in Nat /\ job \in JobType
      BY <1>1, <2>1, KnownAddresses, StoresIsStorageInv DEF IInv, Stores
    <2>3. /\ accounts[o] \in Addresses /\ accounts[o] # Controller
          /\ sender \in Addresses /\ sender # Controller
      BY <1>1, <2>2, OthersThanController DEF IInv, Storage, Senders
    <2>4. MayAct(sender)
      BY <1>1 DEF MayAct
    <2>5. Evictable(id)
      <3>1. ValidConfig(config)
        BY <1>1 DEF SoundInv, Sound, Storage
      <3>2. PeriodOK(config, q)
        BY <2>2, <3>1, PeriodBounded
      <3>3. PICK n : n = q
        OBVIOUS
      <3>4. EvictionPeriod(config, n) \in Int /\ EvictionPeriod(config, n) <= config.t_max
        <4>1. config.q_max \in Nat /\ config.t_max \in Nat /\ config.t_min \in Nat
              /\ config.t_max - config.t_min \in Nat
          BY <2>2, <3>1 DEF ConfigType, ValidConfig
        <4>2. n < config.q_max => (n * (config.t_max - config.t_min)) \div config.q_max \in Int
          BY <2>2, <3>3, <4>1, Fraction
        <4>. QED
          BY <3>2, <3>3, <4>1, <4>2 DEF PeriodOK, EvictionPeriod
      <3>5. job.age \in Int /\ config.t_max \in Int
        BY <2>2, BoundAssumption DEF JobType, ConfigType
      <3>. QED
        BY <1>1, <2>1, <2>2, <3>3, <3>4, <3>5 DEF Evictable
    <2>6. /\ CanLeaveQueue /\ id \notin DOMAIN finished /\ job.reward \in Nat
          /\ balance[Controller] \in Nat /\ balance[Controller] >= job.reward
      BY <1>1, <2>1, LetsGo
    <2>7. /\ fee \in Nat \ {0} /\ job.reward - fee \in Nat \ {0}
          /\ balance[Controller] >= fee + (job.reward - fee)
      BY <1>1, <2>1, <2>6
    <2>8. CASE Requeued(id)
      <3>1. balance[accounts[o]] >= fee
        BY <2>1, <2>8 DEF Requeued
      <3>2. RequeueCharge(sender, id) = Payment(accounts[o], sender, fee)
        BY <2>1 DEF RequeueCharge
      <3>3. Affords(balance, Payment(accounts[o], sender, fee))
        BY <2>7, <3>1 DEF Affords, Payment
      <3>. QED
        BY <2>4, <2>5, <2>8, <3>2, <3>3 DEF MayRequeue
    <2>9. CASE ~Requeued(id)
      <3>1. AffordsBoth(balance, Payment(Controller, sender, fee),
                        Payment(Controller, accounts[o], job.reward - fee))
        BY <2>2, <2>3, <2>7, PaysTwice
      <3>2. /\ Refund(o, job, fee) = Payment(Controller, accounts[o], job.reward - fee)
            /\ Charge(sender, fee) = Payment(Controller, sender, fee)
        BY DEF Refund, Charge, Remainder
      <3>. QED
        BY <2>1, <2>4, <2>5, <2>6, <2>9, <3>1, <3>2 DEF MayEvict
    <2>. QED
      BY <2>8, <2>9
  <1>2. IInv /\ SoundInv /\ EscrowInv => AlwaysEvictable
    BY <1>1 DEF AlwaysEvictable
  <1>. QED
    BY <1>2, Invariance, SoundInvariance, EscrowInvariance, PTL

-----------------------------------------------------------------------------
(* Where the controller is nobody's collector of fees *)

\* Neither a configuration in force nor one that a failing call would put back
\* makes the controller the collector of fees.
ApartInv == Apart(Storage) /\ \A i \in DOMAIN stack : Apart(stack[i].before)

LEMMA InitApart ==
  ASSUME \A c \in Configs : c.fee_collector # Controller, Init
  PROVE  ApartInv
  <1>1. DOMAIN stack = {} /\ config \in Configs
    BY DEF Init
  <1>. QED
    BY <1>1 DEF ApartInv, Apart, Storage

LEMMA NextApart ==
  ASSUME \A c \in Configs : c.fee_collector # Controller, IInv, IInv', ApartInv, [Next]_vars
  PROVE  ApartInv'
  <1>1. /\ StackOK /\ DOMAIN stack = 1..Len(stack) /\ Len(stack) \in Nat /\ Len(stack) <= MaxDepth
        /\ config.fee_collector # Controller
        /\ \A i \in DOMAIN stack : Apart(stack[i].before) /\ FrameOK(stack[i])
    BY SeqOverRange DEF IInv, StackOK, FrameInv, ApartInv, Apart, Storage
  <1>2. Apart(Storage)' <=> config'.fee_collector # Controller
    BY DEF Apart, Storage
  <1>3. ASSUME config' \in Configs \/ config' = config, stack' = stack
        PROVE  ApartInv'
    BY <1>1, <1>2, <1>3 DEF ApartInv
  <1>4. CASE \/ AccountStep \/ SpendStep \/ JobStep \/ EvictStep
             \/ ConfigStep \/ Tick \/ UNCHANGED vars
    <2>1. stack' = stack
      BY <1>4 DEF AccountStep, OpenAccount, FundAccount, SpendStep, SpendFromAccount, JobStep,
                  CreateJob, DeleteJob, UpdateJob, EvictStep, EvictAndRequeue, EvictJob,
                  ConfigStep, UpdateConfig, Tick, vars, MayDelete, CancellationFee, Refund,
                  Charge, MayRequeue, Requeued, RequeueCharge, MayEvict
    <2>2. config' \in Configs \/ config' = config
      BY <1>4 DEF AccountStep, OpenAccount, FundAccount, SpendStep, SpendFromAccount, JobStep,
                  CreateJob, DeleteJob, UpdateJob, EvictStep, EvictAndRequeue, EvictJob,
                  ConfigStep, UpdateConfig, Tick, vars, MayDelete, CancellationFee, Refund,
                  Charge, MayRequeue, Requeued, RequeueCharge, MayEvict
    <2>. QED
      BY <1>3, <2>1, <2>2
  <1>5. ASSUME NEW n \in 0..Len(stack), stack' = SubSeq(stack, 1, n), Apart(Storage)'
        PROVE  ApartInv'
    <2>1. DOMAIN stack' = 1..n /\ \A k \in 1..n : stack'[k] = stack[k]
      BY <1>1, <1>5, CutStack
    <2>2. \A k \in 1..n : k \in DOMAIN stack
      BY <1>1
    <2>. QED
      BY <1>1, <1>5, <2>1, <2>2 DEF ApartInv
  <1>6. ASSUME NEW n \in 0..Len(stack), n + 1 <= MaxDepth, NEW f,
               stack' = Append(SubSeq(stack, 1, n), f), Apart(f.before), Apart(Storage)'
        PROVE  ApartInv'
    <2>1. /\ DOMAIN stack' = 1..(n + 1) /\ stack'[n + 1] = f
          /\ \A k \in 1..n : stack'[k] = stack[k]
      BY <1>1, <1>6, PushFrame
    <2>2. \A k \in 1..(n + 1) : k = n + 1 \/ (k \in 1..n /\ k \in DOMAIN stack)
      BY <1>1
    <2>. QED
      BY <1>1, <1>6, <2>1, <2>2 DEF ApartInv
  <1>7. ASSUME NEW i \in DOMAIN stack, NEW s, NEW status, NEW terminates, Apart(s),
               JobReply(i, s, status, terminates)
        PROVE  ApartInv'
    <2>1. PICK b : stack' = Append(SubSeq(stack, 1, i - 1),
                                   [stack[i] EXCEPT !.phase = "replied", !.callback = b])
      BY <1>7 DEF JobReply
    <2>2. PICK f : f = [stack[i] EXCEPT !.phase = "replied", !.callback = b]
      OBVIOUS
    <2>3. Apart(f.before)
      BY <1>1, <2>2 DEF FrameOK
    <2>4. Apart(Storage)'
      BY <1>2, <1>7 DEF JobReply, Apart
    <2>5. i - 1 \in 0..Len(stack) /\ (i - 1) + 1 <= MaxDepth
      BY <1>1, BoundAssumption
    <2>. QED
      BY <1>6, <2>1, <2>2, <2>3, <2>4, <2>5
  <1>8. CASE ExecuteStep
    <2>1. ASSUME NEW keeper \in Senders, NEW id \in JobIds, ExecuteInvalidJob(keeper, id)
          PROVE  ApartInv'
      BY <1>3, <2>1 DEF ExecuteInvalidJob
    <2>2. ASSUME NEW keeper \in Senders, NEW id \in JobIds, ExecuteJob(keeper, id)
          PROVE  ApartInv'
      <3>1. PICK n : n = Len(stack)
        OBVIOUS
      <3>2. PICK f : f = [id |-> id, account |-> accounts[pending[id].owner],
                    keeper |-> accounts[keeper], reward |-> pending[id].reward,
                    phase |-> "messages", callback |-> FALSE, before |-> Storage]
        OBVIOUS
      <3>3. SubSeq(stack, 1, n) = stack
        BY <1>1, <3>1, SubSeqFull DEF StackOK
      <3>4. stack' = Append(SubSeq(stack, 1, n), f)
        BY <2>2, <3>2, <3>3 DEF ExecuteJob
      <3>5. Apart(f.before) /\ Apart(Storage)'
        BY <1>1, <1>2, <2>2, <3>2 DEF ExecuteJob, Apart, Storage
      <3>6. n \in 0..Len(stack) /\ n + 1 <= MaxDepth
        BY <1>1, <2>2, <3>1, BoundAssumption DEF ExecuteJob
      <3>. QED
        BY <1>6, <3>4, <3>5, <3>6
    <2>3. ASSUME NEW terminates \in BOOLEAN, JobSucceeds(terminates)
          PROVE  ApartInv'
      <3>1. Len(stack) \in DOMAIN stack
        BY <2>3, SeqOverRange, EmptySeq DEF IInv, StackOK, JobSucceeds
      <3>. QED
        BY <1>7, <2>3, <3>1 DEF JobSucceeds, ApartInv
    <2>4. ASSUME NEW terminates \in BOOLEAN, NEW i \in DOMAIN stack, JobFails(i, terminates)
          PROVE  ApartInv'
      BY <1>1, <1>7, <2>4 DEF JobFails
    <2>5. ASSUME PayKeeper
          PROVE  ApartInv'
      <3>1. Len(stack) - 1 \in 0..Len(stack)
        BY <1>1, <2>5, EmptySeq DEF PayKeeper, StackOK
      <3>. QED
        BY <1>1, <1>2, <1>5, <2>5, <3>1 DEF PayKeeper
    <2>6. ASSUME NEW i \in DOMAIN stack, CallFails(i)
          PROVE  ApartInv'
      <3>1. i - 1 \in 0..Len(stack)
        BY <1>1
      <3>2. Apart(Storage)'
        BY <1>1, <1>2, <2>6 DEF CallFails, Restore, Apart
      <3>. QED
        BY <1>5, <2>6, <3>1, <3>2 DEF CallFails
    <2>. QED
      BY <1>8, <2>1, <2>2, <2>3, <2>4, <2>5, <2>6 DEF ExecuteStep
  <1>. QED
    BY <1>4, <1>8 DEF Next

\* The surplus of a storage under the first n frames.
LEMMA SurplusOfFrames ==
  ASSUME NEW s, NEW frames, DOMAIN frames = 1..Len(frames)
  PROVE  Surplus(s, frames) = Free(s, frames)
  BY OwedByFrames DEF Surplus, Free, Held

\* Coins stay behind in the controller only when the reward of a job is raised
\* while the job is executed, as long as no configuration makes the controller
\* the collector of fees.
THEOREM SurplusOnlyFromRaises ==
  ASSUME \A c \in Configs : c.fee_collector # Controller
  PROVE  Spec => OnlyRaisesStayBehind
  <1>1. Init => ApartInv
    BY InitApart
  <1>2. IInv /\ IInv' /\ ApartInv /\ [Next]_vars => ApartInv'
    BY NextApart
  <1>3. Spec => []ApartInv
    BY <1>1, <1>2, Invariance, PTL DEF Spec
  <1>4. ASSUME IInv, IInv', LifeInv, EscrowInv, ApartInv, [Next]_vars
        PROVE  LET now == Surplus(Storage, stack)
                   next == Surplus(Storage', stack')
               IN \/ next = now
                  \/ /\ stack # <<>> /\ Len(stack') = Len(stack)
                     /\ Top.id \in DOMAIN pending \ DOMAIN pending'
                     /\ next - now = pending[Top.id].reward - Top.reward
                  \/ \E i \in DOMAIN stack :
                       /\ Len(stack') <= i
                       /\ next = Surplus(stack[i].before, SubSeq(stack, 1, i - 1))
    <2>1. Raised
      BY <1>4, NextEscrow DEF ApartInv
    <2>2. /\ stack \in Seq(Range(stack)) /\ DOMAIN stack = 1..Len(stack) /\ Len(stack) \in Nat
          /\ DOMAIN stack' = 1..Len(stack')
      BY <1>4, SeqOverRange DEF IInv, StackOK
    <2>3. /\ Surplus(Storage, stack) = Free(Storage, stack)
          /\ Surplus(Storage', stack') = Free(Storage', stack')
      BY <2>2, SurplusOfFrames
    <2>4. ASSUME NEW i \in DOMAIN stack
          PROVE  Surplus(stack[i].before, SubSeq(stack, 1, i - 1))
                   = Held(stack[i].before) - OwedUpTo(stack, i - 1)
      <3>1. PICK n : n = i - 1
        OBVIOUS
      <3>2. PICK t : t = SubSeq(stack, 1, n)
        OBVIOUS
      <3>3. n \in Nat /\ n <= Len(stack) /\ \A k \in 1..n : stack[k] \in Range(stack)
        BY <2>2, <3>1 DEF Range
      <3>4. t \in Seq(Range(stack)) /\ Len(t) = n /\ \A k \in 1..n : t[k] = stack[k]
        <4>1. /\ SubSeq(stack, 1, n) \in Seq(Range(stack))
              /\ Len(SubSeq(stack, 1, n)) = IF 1 <= n THEN n - 1 + 1 ELSE 0
              /\ \A k \in 1..(n - 1 + 1) : SubSeq(stack, 1, n)[k] = stack[1 + k - 1]
          BY <2>2, <3>3, SubSeqProperties
        <4>. QED
          BY <2>2, <3>2, <3>3, <4>1
      <3>5. DOMAIN t = 1..Len(t)
        BY <3>4, SeqOverRange
      <3>6. Surplus(stack[i].before, t) = Held(stack[i].before) - OwedUpTo(t, n)
        BY <3>4, <3>5, SurplusOfFrames DEF Free
      <3>7. OwedUpTo(t, n) = OwedUpTo(stack, n)
        BY <3>3, <3>4, OwedAgree
      <3>. QED
        BY <3>1, <3>2, <3>6, <3>7
    <2>. QED
      BY <2>1, <2>3, <2>4, Zenon DEF Raised
  <1>. QED
    BY <1>3, <1>4, Invariance, LifeInvariance, EscrowInvariance, PTL
      DEF Spec, OnlyRaisesStayBehind

-----------------------------------------------------------------------------
(* Where no job can call a contract *)

\* Then only the account of the owner can call back, which can neither begin a
\* nested execution nor raise a reward: the reward read before the messages is
\* the one in escrow after them, and the escrow is exact.
ExactInv ==
  /\ Free(Storage, stack) = 0
  /\ Len(stack) <= 1
  /\ \A i \in DOMAIN stack :
       /\ Held(stack[i].before) = 0
       /\ stack[i].phase = "messages" /\ stack[i].id \in DOMAIN pending
            => stack[i].reward = pending[stack[i].id].reward

\* Inside a transaction no owner of an account can act.
LEMMA NoOwnerActs ==
  ASSUME IInv, Contracts = {}, stack # <<>>, NEW x, MayAct(x)
  PROVE  x \notin DOMAIN accounts
  <1>1. Len(stack) \in DOMAIN stack
    BY SeqOverRange, EmptySeq DEF IInv, StackOK
  <1>2. x = Top.account /\ Top.account \in AccountAddrs
    BY <1>1 DEF IInv, FrameInv, FrameOK, Top, MayAct
  <1>3. DOMAIN accounts \subseteq Users
    BY DEF IInv, StorageInv, StorageOK, Storage, IsMap
  <1>. QED
    BY <1>2, <1>3, AddressAssumption

\* So rewards stay, and the ids of new jobs are new.
LEMMA RewardsStay ==
  ASSUME IInv, Contracts = {}, stack # <<>>, stack' = stack, [Next]_vars
  PROVE  \A id \in DOMAIN pending' :
           \/ id = current_job_id
           \/ id \in DOMAIN pending /\ pending'[id].reward = pending[id].reward
  <1>1. \A id \in DOMAIN pending : pending[id] \in JobType
    BY KnownAddresses DEF IInv
  <1>2. stack \in Seq(Range(stack)) /\ DOMAIN stack = 1..Len(stack) /\ Len(stack) \in Nat
    BY SeqOverRange DEF IInv, StackOK
  <1>3. ASSUME NEW id, NEW status, Settle(id, status)
        PROVE  \A x \in DOMAIN pending' :
                 x \in DOMAIN pending /\ pending'[x].reward = pending[x].reward
    BY <1>3 DEF Settle, WithoutJob, Remove, Storage, CanLeaveQueue
  <1>4. CASE AccountStep \/ SpendStep \/ ConfigStep \/ UNCHANGED vars
    <2>1. pending' = pending
      BY <1>4 DEF AccountStep, OpenAccount, FundAccount, SpendStep, SpendFromAccount,
                  ConfigStep, UpdateConfig, vars
    <2>. QED
      BY <2>1
  <1>5. CASE JobStep
    <2>1. ASSUME NEW sender \in Senders, NEW reward \in Rewards, NEW kind \in JobKinds,
                 CreateJob(sender, reward, kind)
          PROVE  \A x \in DOMAIN pending' : x = current_job_id \/
                    (x \in DOMAIN pending /\ pending'[x].reward = pending[x].reward)
      BY <2>1 DEF CreateJob, Enqueue, Save, Storage
    <2>2. ASSUME NEW sender \in Senders, NEW id \in JobIds,
                 DeleteJob(sender, id) \/ \E added \in Additions : UpdateJob(sender, id, added)
          PROVE  FALSE
      BY <2>2, NoOwnerActs DEF DeleteJob, UpdateJob, MayDelete, CancellationFee, Refund, Charge
    <2>. QED
      BY <1>5, <2>1, <2>2 DEF JobStep
  <1>6. CASE EvictStep
    <2>1. ASSUME NEW sender \in Senders, NEW id \in JobIds, EvictJob(sender, id)
          PROVE  \A x \in DOMAIN pending' :
                   x \in DOMAIN pending /\ pending'[x].reward = pending[x].reward
      BY <1>3, <2>1 DEF EvictJob, MayEvict, Requeued, Refund, Charge
    <2>2. ASSUME NEW sender \in Senders, NEW id \in JobIds, EvictAndRequeue(sender, id)
          PROVE  \A x \in DOMAIN pending' :
                   x \in DOMAIN pending /\ pending'[x].reward = pending[x].reward
      <3>1. PICK job : job = [pending[id] EXCEPT !.age = 0]
        OBVIOUS
      <3>2. id \in DOMAIN pending /\ pending' = Save(pending, id, job)
        BY <2>2, <3>1 DEF EvictAndRequeue, Evictable, MayRequeue, Requeued, RequeueCharge
      <3>3. job.reward = pending[id].reward
        BY <1>1, <3>1, <3>2 DEF JobType
      <3>. QED
        BY <3>2, <3>3 DEF Save
    <2>. QED
      BY <1>6, <2>1, <2>2 DEF EvictStep
  <1>7. CASE Tick
    BY <1>7 DEF Tick
  <1>8. CASE ExecuteStep
    <2>1. ASSUME NEW keeper \in Senders, NEW id \in JobIds,
                 ExecuteInvalidJob(keeper, id) \/ ExecuteJob(keeper, id)
          PROVE  FALSE
      BY <2>1, NoOwnerActs DEF ExecuteInvalidJob, ExecuteJob, CanExecute
    <2>2. Len(stack) # 0
      BY <1>2, EmptySeq
    <2>3. ASSUME NEW i \in DOMAIN stack, NEW s, NEW status, NEW terminates,
                 JobReply(i, s, status, terminates), stack[i].phase = "messages"
          PROVE  FALSE
      <3>1. PICK b : stack' = Append(SubSeq(stack, 1, i - 1),
                                     [stack[i] EXCEPT !.phase = "replied", !.callback = b])
        BY <2>3 DEF JobReply
      <3>2. PICK f : f = [stack[i] EXCEPT !.phase = "replied", !.callback = b]
        OBVIOUS
      <3>3. f.phase = "replied"
        <4>1. FrameOK(stack[i])
          BY DEF IInv, FrameInv
        <4>. QED
          BY <3>2, <4>1 DEF FrameOK
      <3>4. i - 1 \in 0..Len(stack) /\ (i - 1) + 1 <= MaxDepth /\ StackOK /\ (i - 1) + 1 = i
        BY <1>2, BoundAssumption DEF IInv, StackOK
      <3>5. stack'[i] = f
        BY <3>1, <3>2, <3>4, PushFrame
      <3>. QED
        BY <2>3, <3>3, <3>5
    <2>4. ASSUME NEW n \in 0..Len(stack), n # Len(stack), stack' = SubSeq(stack, 1, n)
          PROVE  FALSE
      BY <1>2, <2>4, CutStack DEF IInv
    <2>5. ASSUME PayKeeper
          PROVE  FALSE
      <3>1. Len(stack) - 1 \in 0..Len(stack) /\ Len(stack) - 1 # Len(stack)
        <4>1. PICK n : n = Len(stack)
          OBVIOUS
        <4>2. n \in Nat /\ n # 0
          BY <1>2, <2>2, <4>1
        <4>3. n - 1 \in 0..n /\ n - 1 # n
          BY <4>2
        <4>. QED
          BY <4>1, <4>3
      <3>. QED
        BY <2>4, <2>5, <3>1 DEF PayKeeper
    <2>6. ASSUME NEW i \in DOMAIN stack, CallFails(i)
          PROVE  FALSE
      <3>1. i - 1 \in 0..Len(stack) /\ i - 1 # Len(stack)
        BY <1>2
      <3>. QED
        BY <2>4, <2>6, <3>1 DEF CallFails
    <2>7. ASSUME NEW terminates \in BOOLEAN, JobSucceeds(terminates)
          PROVE  FALSE
      <3>1. Len(stack) \in DOMAIN stack
        BY <1>2, <2>2
      <3>. QED
        BY <2>3, <2>7, <3>1 DEF JobSucceeds, Top
    <2>8. ASSUME NEW terminates \in BOOLEAN, NEW i \in DOMAIN stack, JobFails(i, terminates)
          PROVE  FALSE
      BY <2>3, <2>8 DEF JobFails
    <2>. QED
      BY <1>8, <2>1, <2>5, <2>6, <2>7, <2>8 DEF ExecuteStep
  <1>. QED
    BY <1>4, <1>5, <1>6, <1>7, <1>8 DEF Next

\* What becomes of the only frame, if no execution is nested.
LEMMA OneFrame ==
  ASSUME IInv, IInv', Contracts = {}, Len(stack) <= 1, [Next]_vars
  PROVE  \/ stack' = stack
         \/ DOMAIN stack' = {} /\ Len(stack') = 0
         \/ /\ stack = <<>>
            /\ \E keeper \in Senders, id \in JobIds : ExecuteJob(keeper, id)
         \/ /\ 1 \in DOMAIN stack /\ DOMAIN stack' = {1} /\ Len(stack') = 1
            /\ stack'[1].phase = "replied" /\ stack'[1].before = stack[1].before
  <1>0. /\ stack \in Seq(Range(stack)) /\ DOMAIN stack = 1..Len(stack) /\ Len(stack) \in Nat
        /\ StackOK /\ Len(stack') \in Nat /\ DOMAIN stack' = 1..Len(stack')
    BY SeqOverRange DEF IInv, StackOK
  <1>1. /\ stack \in Seq(Range(stack)) /\ DOMAIN stack = 1..Len(stack) /\ Len(stack) \in {0, 1}
        /\ StackOK /\ Len(stack') \in Nat /\ DOMAIN stack' = 1..Len(stack')
    <2>1. \A n \in Nat : n <= 1 => n \in {0, 1}
      OBVIOUS
    <2>. QED
      BY <1>0, <2>1, Zenon
  <1>2. CASE stack' = stack
    BY <1>2
  <1>3. CASE stack' # stack
    <2>1. ExecuteStep
      BY <1>3 DEF Next, AccountStep, OpenAccount, FundAccount, SpendStep, SpendFromAccount, JobStep,
                  CreateJob, DeleteJob, UpdateJob, EvictStep, EvictAndRequeue, EvictJob,
                  ConfigStep, UpdateConfig, Tick, vars, MayDelete, CancellationFee, Refund,
                  Charge, MayRequeue, Requeued, RequeueCharge, MayEvict
    <2>2. ASSUME NEW keeper \in Senders, NEW id \in JobIds, ExecuteJob(keeper, id)
          PROVE  stack = <<>>
      BY <2>2, NoOwnerActs DEF ExecuteJob, CanExecute
    <2>3. ASSUME NEW i \in DOMAIN stack, NEW s, NEW status, NEW terminates,
                 JobReply(i, s, status, terminates)
          PROVE  /\ 1 \in DOMAIN stack /\ DOMAIN stack' = {1} /\ Len(stack') = 1
                 /\ stack'[1].phase = "replied" /\ stack'[1].before = stack[1].before
      <3>1. PICK b : stack' = Append(SubSeq(stack, 1, i - 1),
                                     [stack[i] EXCEPT !.phase = "replied", !.callback = b])
        BY <2>3 DEF JobReply
      <3>2. PICK f : f = [stack[i] EXCEPT !.phase = "replied", !.callback = b]
        OBVIOUS
      <3>3. f.phase = "replied" /\ f.before = stack[i].before
        <4>1. FrameOK(stack[i])
          BY DEF IInv, FrameInv
        <4>. QED
          BY <3>2, <4>1 DEF FrameOK
      <3>4. /\ i = 1 /\ i - 1 \in 0..Len(stack) /\ (i - 1) + 1 <= MaxDepth
            /\ (i - 1) + 1 = i
        BY <1>1, BoundAssumption DEF StackOK
      <3>5. stack'[1] = f /\ DOMAIN stack' = 1..1
        BY <1>1, <3>1, <3>2, <3>4, PushFrame
      <3>6. Len(stack') = 1
        BY <1>1, <3>5
      <3>. QED
        BY <3>3, <3>4, <3>5, <3>6
    <2>4. ASSUME stack' = SubSeq(stack, 1, 0)
          PROVE  DOMAIN stack' = {} /\ Len(stack') = 0
      <3>1. 0 \in 0..Len(stack)
        BY <1>1
      <3>2. DOMAIN stack' = 1..0
        BY <1>1, <2>4, <3>1, CutStack
      <3>. QED
        BY <1>1, <3>2
    <2>5. CASE PayKeeper
      <3>1. Len(stack) = 1
        BY <1>1, <2>5, EmptySeq DEF PayKeeper
      <3>2. stack' = SubSeq(stack, 1, 0)
        BY <2>5, <3>1 DEF PayKeeper
      <3>. QED
        BY <2>4, <3>2
    <2>6. ASSUME NEW i \in DOMAIN stack, CallFails(i)
          PROVE  DOMAIN stack' = {} /\ Len(stack') = 0
      <3>1. i - 1 = 0
        BY <1>1
      <3>. QED
        BY <2>4, <2>6, <3>1 DEF CallFails
    <2>7. ASSUME NEW terminates \in BOOLEAN, JobSucceeds(terminates)
          PROVE  \E i \in DOMAIN stack : JobReply(i, Storage, "Executed", terminates)
      <3>1. Len(stack) \in DOMAIN stack
        BY <1>1, <2>7, EmptySeq DEF JobSucceeds
      <3>. QED
        BY <2>7, <3>1 DEF JobSucceeds
    <2>8. ASSUME NEW keeper \in Senders, NEW id \in JobIds, ExecuteInvalidJob(keeper, id)
          PROVE  FALSE
      BY <1>3, <2>8 DEF ExecuteInvalidJob
    <2>. QED
      BY <2>1, <2>2, <2>3, <2>5, <2>6, <2>7, <2>8 DEF ExecuteStep, JobFails
  <1>. QED
    BY <1>2, <1>3

LEMMA NextExact ==
  ASSUME IInv, IInv', LifeInv, LifeInv', EscrowInv, ApartInv, ExactInv, Contracts = {}, [Next]_vars
  PROVE  ExactInv'
  <1>1. /\ DOMAIN stack = 1..Len(stack) /\ Len(stack) \in {0, 1}
        /\ Held(Storage) \in Int /\ stack \in Seq(Range(stack))
    <2>1. \A n \in Nat : n <= 1 => n \in {0, 1}
      OBVIOUS
    <2>2. Len(stack) <= 1 /\ Len(stack) \in Nat
      BY Frames DEF ExactInv
    <2>3. Len(stack) \in {0, 1}
      BY <2>1, <2>2, Zenon
    <2>. QED
      BY <2>3, Frames DEF IInv, StackOK
  <1>2. Free(Storage', stack') = 0
    <2>1. Raised
      BY NextEscrow DEF ApartInv
    <2>2. CASE Free(Storage', stack') = Free(Storage, stack)
      BY <2>2 DEF ExactInv
    <2>3. CASE /\ stack # <<>> /\ Top.phase = "messages" /\ Top.id \in DOMAIN pending
               /\ Free(Storage', stack') - Free(Storage, stack)
                     = pending[Top.id].reward - Top.reward
      <3>1. Len(stack) \in DOMAIN stack
        BY <1>1, <2>3, EmptySeq
      <3>2. Top.reward = pending[Top.id].reward /\ Top.reward \in Nat
        BY <2>3, <3>1, Frames DEF ExactInv, Top
      <3>3. PICK free : free = Free(Storage', stack')
        OBVIOUS
      <3>4. free - 0 = 0
        <4>1. PICK reward : reward = Top.reward
          OBVIOUS
        <4>2. free - 0 = reward - reward
          BY <2>3, <3>2, <3>3, <4>1, Zenon DEF ExactInv
        <4>3. reward \in Nat
          BY <3>2, <4>1
        <4>. QED
          BY <4>2, <4>3
      <3>5. free \in Int
        <4>1. StorageInv(Storage') /\ EscrowInv'
          BY NextEscrow DEF IInv
        <4>2. Held(Storage') \in Int /\ OwedUpTo(stack', Len(stack')) \in Nat
          <5>1. Held(Storage') \in Int
            BY <4>1, OthersThanController, EscrowedParts DEF Held
          <5>2. OwedUpTo(stack', Len(stack')) \in Nat
            <6>1. /\ DOMAIN stack' = 1..Len(stack') /\ Len(stack') \in Nat
                  /\ \A i \in DOMAIN stack' : stack'[i].reward \in Nat
              BY SeqOverRange DEF IInv, StackOK, FrameInv, FrameOK
            <6>2. CASE Len(stack') = 0
              BY <6>2, OwedNothing
            <6>3. CASE Len(stack') # 0
              <7>1. PICK n : n = Len(stack')
                OBVIOUS
              <7>2. /\ OwedUpTo(stack', n - 1) \in Nat
                    /\ OwedUpTo(stack', n) = OwedUpTo(stack', n - 1)
                         + (IF stack'[n].phase = "replied" THEN stack'[n].reward ELSE 0)
                BY <6>1, <6>3, <7>1, OwedLast
              <7>3. stack'[n].reward \in Nat
                BY <6>1, <6>3, <7>1
              <7>. QED
                BY <7>1, <7>2, <7>3
            <6>. QED
              BY <6>2, <6>3
          <5>. QED
            BY <5>1, <5>2
        <4>. QED
          BY <3>3, <4>2 DEF Free
      <3>. QED
        BY <3>3, <3>4, <3>5
    <2>4. CASE \E i \in DOMAIN stack :
                 Free(Storage', stack') = Held(stack[i].before) - OwedUpTo(stack, i - 1)
      <3>1. PICK i \in DOMAIN stack :
              Free(Storage', stack') = Held(stack[i].before) - OwedUpTo(stack, i - 1)
        BY <2>4
      <3>2. i - 1 = 0
        BY <1>1
      <3>3. OwedUpTo(stack, i - 1) = 0
        BY <3>2, OwedNothing
      <3>. QED
        BY <3>1, <3>3 DEF ExactInv
    <2>. QED
      BY <2>1, <2>2, <2>3, <2>4 DEF Raised
  <1>3. CASE stack' = stack
    <2>1. CASE stack = <<>>
      BY <1>1, <1>2, <1>3, <2>1 DEF ExactInv
    <2>2. CASE stack # <<>>
      <3>1. ASSUME NEW i \in DOMAIN stack, stack[i].phase = "messages",
                   stack[i].id \in DOMAIN pending'
            PROVE  stack[i].reward = pending'[stack[i].id].reward
        <4>1. PICK id : id = stack[i].id
          OBVIOUS
        <4>2. id # current_job_id
          <5>1. FrameLife(i) /\ StorageInv(Storage)
            BY LifeByFrame DEF IInv
          <5>2. id \in DOMAIN pending \/ id \in DOMAIN finished
            BY <4>1, <5>1 DEF FrameLife, Begun, Advances, Storage
          <5>3. /\ current_job_id \in Nat
                /\ DOMAIN pending \cup DOMAIN finished = 1..(current_job_id - 1)
            BY <5>1, StoredTypes DEF Storage
          <5>. QED
            BY <5>2, <5>3
        <4>3. id \in DOMAIN pending /\ pending'[id].reward = pending[id].reward
          BY <1>3, <2>2, <3>1, <4>1, <4>2, RewardsStay
        <4>. QED
          BY <3>1, <4>1, <4>3 DEF ExactInv
      <3>. QED
        BY <1>2, <1>3, <3>1 DEF ExactInv
    <2>. QED
      BY <2>1, <2>2
  <1>4. CASE DOMAIN stack' = {} /\ Len(stack') = 0
    BY <1>2, <1>4 DEF ExactInv
  <1>5. ASSUME stack = <<>>, NEW keeper \in Senders, NEW id \in JobIds, ExecuteJob(keeper, id)
        PROVE  ExactInv'
    <2>1. PICK f : f = [id |-> id, account |-> accounts[pending[id].owner],
                    keeper |-> accounts[keeper], reward |-> pending[id].reward,
                    phase |-> "messages", callback |-> FALSE, before |-> Storage]
      OBVIOUS
    <2>2. stack' = <<f>> /\ pending' = pending
      BY <1>5, <2>1 DEF ExecuteJob
    <2>3. DOMAIN stack' = {1} /\ Len(stack') = 1 /\ stack'[1] = f
      BY <2>2
    <2>4. Held(Storage) = 0
      <3>1. Len(stack) = 0
        BY <1>5
      <3>2. OwedUpTo(stack, Len(stack)) = 0
        BY <3>1, OwedNothing
      <3>. QED
        BY <1>1, <3>2 DEF ExactInv, Free
    <2>5. f.before = Storage /\ f.id = id /\ f.reward = pending[id].reward
      BY <2>1
    <2>. QED
      BY <1>2, <2>2, <2>3, <2>4, <2>5 DEF ExactInv
  <1>6. CASE /\ 1 \in DOMAIN stack /\ DOMAIN stack' = {1} /\ Len(stack') = 1
             /\ stack'[1].phase = "replied" /\ stack'[1].before = stack[1].before
    BY <1>2, <1>6 DEF ExactInv
  <1>. QED
    BY <1>3, <1>4, <1>5, <1>6, OneFrame DEF ExactInv

LEMMA InitExact ==
  ASSUME Init
  PROVE  ExactInv
  <1>1. DOMAIN stack = {} /\ Len(stack) = 0 /\ DOMAIN pending = {}
    BY DEF Init, EmptyMap
  <1>2. balance[Controller] = 0
    BY AddressAssumption DEF Init, Addresses
  <1>3. Escrowed(pending) = 0
    <2>1. PICK f : f = [id \in DOMAIN pending |-> pending[id].reward]
      OBVIOUS
    <2>2. Escrowed(pending) = SumFunctionOnSet(f, {})
      BY <1>1, <2>1, Zenon DEF Escrowed
    <2>. QED
      BY <2>2, FS_EmptySet, SumUnfold
  <1>4. Free(Storage, stack) = 0
    BY <1>1, <1>2, <1>3, OwedNothing DEF Free, Held, Storage
  <1>. QED
    BY <1>1, <1>4 DEF ExactInv

\* What is held is what is owed.
LEMMA ExactEscrow ==
  ASSUME IInv, EscrowInv, ExactInv
  PROVE  balance[Controller] = Escrowed(pending) + Owed
  <1>1. /\ DOMAIN stack = 1..Len(stack) /\ Held(Storage) \in Int
        /\ OwedUpTo(stack, Len(stack)) \in Nat /\ StorageInv(Storage)
    <2>1. Len(stack) \in 0..Len(stack)
      BY Frames
    <2>. QED
      BY <2>1, Frames
  <1>2. Owed = OwedUpTo(stack, Len(stack))
    BY <1>1, OwedByFrames DEF Owed
  <1>3. Held(Storage) = balance[Controller] - Escrowed(pending)
    BY DEF Held, Storage
  <1>4. balance[Controller] \in Nat /\ Escrowed(pending) \in Nat
    BY <1>1, OthersThanController, EscrowedParts DEF Storage
  <1>. QED
    BY <1>1, <1>2, <1>3, <1>4 DEF ExactInv, Free

\* Where no job can call a contract, and no fee is the controller's own, the
\* controller holds the rewards of the pending jobs and of the keepers to be
\* paid to the coin: what create_job, update_job and recurrence bring in is what
\* delete_job, execute_job and evict_job pay out.
THEOREM EscrowToTheCoin ==
  ASSUME \A c \in Configs : c.fee_collector # Controller
  PROVE  Spec => []EscrowExact
  <1>1. Init => ApartInv
    BY InitApart
  <1>2. IInv /\ IInv' /\ ApartInv /\ [Next]_vars => ApartInv'
    BY NextApart
  <1>3. Spec => []ApartInv
    BY <1>1, <1>2, Invariance, PTL DEF Spec
  <1>. DEFINE Quiet == Contracts = {} => ExactInv
  <1>4. Init => Quiet
    BY InitExact
  <1>5. ASSUME IInv, IInv', LifeInv, LifeInv', EscrowInv, ApartInv, Quiet, [Next]_vars
        PROVE  Quiet'
    BY <1>5, NextExact
  <1>6. IInv /\ EscrowInv /\ Quiet => EscrowExact
    BY ExactEscrow DEF EscrowExact
  <1>. HIDE DEF Quiet
  <1>. QED
    BY <1>3, <1>4, <1>5, <1>6, Invariance, LifeInvariance, EscrowInvariance, PTL DEF Spec
=============================================================================
