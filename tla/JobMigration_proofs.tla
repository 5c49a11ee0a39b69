------------------------- MODULE JobMigration_proofs -------------------------
(***************************************************************************)
(* Proofs about JobMigration, for every old state, every size of the pages *)
(* and every order of pages and handlers.                                  *)
(*                                                                         *)
(* The argument is a refinement: with the jobs that wait for their page    *)
(* taken in, a page changes nothing and a handler is the handler of a      *)
(* controller that had all its jobs from the start.  So what is proved of  *)
(* WarpController step by step holds of the whole, and only the storing of *)
(* the waiting jobs apart from the copied ones is left to prove here.      *)
(***************************************************************************)
EXTENDS JobMigration, SetTheorems, SequenceTheorems

W == INSTANCE WarpEscrow_proofs WITH
  pending <- AllPending, finished <- AllFinished, stack <- AllStack

\* Storages and frames are records of their fields.
IsStorage(s) ==
  s = [config |-> s.config, current_job_id |-> s.current_job_id, q |-> s.q,
       pending |-> s.pending, finished |-> s.finished,
       accounts |-> s.accounts, balance |-> s.balance]

IsFrame(f) ==
  /\ f = [id |-> f.id, account |-> f.account, keeper |-> f.keeper, reward |-> f.reward,
          phase |-> f.phase, callback |-> f.callback, before |-> f.before]
  /\ IsStorage(f.before)

IsFcn(f) == f = [x \in DOMAIN f |-> f[x]]

\* No job that waits is in the new maps, and an account whose page has not come
\* is beyond the cursor.
Apart(s) ==
  /\ IsFcn(s.pending) /\ IsFcn(s.finished)
  /\ DOMAIN s.pending \cap Waiting(OldPending, "pending") = {}
  /\ DOMAIN s.finished \cap Waiting(OldFinished, "finished") = {}
  /\ Range(OldAccounts) \subseteq Range(s.accounts) /\ IsFiniteSet(DOMAIN s.accounts)
  /\ \A o \in DOMAIN s.accounts :
       \/ code[s.accounts[o]] = "new"
       \/ Rank[o] > cursor["accounts"] /\ "accounts" \notin done

MTypeOK ==
  /\ cursor \in [Stores -> Nat]
  /\ done \subseteq Stores
  /\ code \in [AccountAddrs -> {"old", "new"}]
  /\ \A addr \in AccountAddrs \ Range(OldAccounts) : code[addr] = "new"

MInv ==
  /\ W!IInv
  /\ stack \in Seq(Range(stack))
  /\ \A i \in DOMAIN stack : IsFrame(stack[i]) /\ Apart(stack[i].before)
  /\ Apart(Storage)
  /\ MTypeOK

-----------------------------------------------------------------------------
(* The operators of WarpController that read no variable *)

LEMMA SameTypes ==
  /\ W!Addresses = Addresses /\ W!Terminal = Terminal /\ W!Kinds = Kinds
  /\ W!ConfigType = ConfigType /\ W!JobIds = JobIds /\ W!JobType = JobType
  /\ W!Senders = Senders /\ W!EmptyMap = EmptyMap
  BY DEF W!Addresses, Addresses, W!Terminal, Terminal, W!Kinds, Kinds, W!ConfigType,
         ConfigType, W!JobIds, JobIds, W!JobType, JobType, W!Senders, Senders,
         W!EmptyMap, EmptyMap

LEMMA SamePayments ==
  /\ \A from, to, amount : W!Payment(from, to, amount) = Payment(from, to, amount)
  /\ \A b, p : (W!Affords(b, p) <=> Affords(b, p)) /\ W!After(b, p) = After(b, p)
  /\ \A b, p1, p2 : W!AffordsBoth(b, p1, p2) <=> AffordsBoth(b, p1, p2)
  /\ \A b, p1, p2 : W!AfterBoth(b, p1, p2) = AfterBoth(b, p1, p2)
  /\ \A amount, percentage : W!Fee(amount, percentage) = Fee(amount, percentage)
  <1>1. \A from, to, amount : W!Payment(from, to, amount) = Payment(from, to, amount)
    BY DEF W!Payment, Payment
  <1>2. \A b, p : W!Affords(b, p) <=> Affords(b, p)
    BY Zenon DEF W!Affords, Affords
  <1>3. \A b, p : W!After(b, p) = After(b, p)
    BY Zenon DEF W!After, After
  <1>4. \A b, p1, p2 : W!AffordsBoth(b, p1, p2) <=> AffordsBoth(b, p1, p2)
    BY <1>2, <1>3, Zenon DEF W!AffordsBoth, AffordsBoth
  <1>5. \A b, p1, p2 : W!AfterBoth(b, p1, p2) = AfterBoth(b, p1, p2)
    BY <1>3, Zenon DEF W!AfterBoth, AfterBoth
  <1>6. \A amount, percentage : W!Fee(amount, percentage) = Fee(amount, percentage)
    BY Zenon DEF W!Fee, Fee
  <1>. QED
    BY <1>1, <1>2, <1>3, <1>4, <1>5, <1>6

LEMMA SameMaps ==
  /\ \A m, k, v : W!Save(m, k, v) = Save(m, k, v)
  /\ \A m, k : W!Remove(m, k) = Remove(m, k)
  /\ \A m, K, V : W!IsMap(m, K, V) <=> IsMap(m, K, V)
  /\ \A f : W!Range(f) = Range(f)
  /\ \A f : W!IsInjective(f) <=> IsInjective(f)
  BY Zenon DEF W!Save, Save, W!Remove, Remove, W!IsMap, IsMap, W!Range, Range,
               W!IsInjective, IsInjective

LEMMA SameSizes == \A S : W!Cardinality(S) = Cardinality(S)
  BY Zenon DEF W!Cardinality, Cardinality

LEMMA SameJobs ==
  /\ \A owner, name, reward, kind :
       W!NewJob(owner, name, reward, kind) = NewJob(owner, name, reward, kind)
  /\ \A job, status : W!Finish(job, status) = Finish(job, status)
  /\ \A job, fee : W!Remainder(job, fee) = Remainder(job, fee)
  /\ \A job, added, minimum : W!AddReward(job, added, minimum) = AddReward(job, added, minimum)
  /\ \A job : W!Older(job) = Older(job)
  BY Zenon DEF W!NewJob, NewJob, W!Finish, Finish, W!Remainder, Remainder, W!AddReward,
               AddReward, W!Older, Older

LEMMA SameRules ==
  /\ \A c : W!ValidConfig(c) <=> ValidConfig(c)
  /\ \A c, n : W!EvictionPeriod(c, n) = EvictionPeriod(c, n)
  /\ \A c, n : W!EvictionFee(c, n) = EvictionFee(c, n)
  /\ \A f : W!CallsOut(f) <=> CallsOut(f)
  /\ \A b, job, account : W!WithdrawNative(b, job, account) = WithdrawNative(b, job, account)
  <1>1. \A b, job, account : W!WithdrawNative(b, job, account) = WithdrawNative(b, job, account)
    BY SamePayments, Zenon DEF W!WithdrawNative, WithdrawNative
  <1>2. \A f : W!CallsOut(f) <=> CallsOut(f)
    BY Zenon DEF W!CallsOut, CallsOut
  <1>3. \A c : W!ValidConfig(c) <=> ValidConfig(c)
    BY Zenon DEF W!ValidConfig, ValidConfig
  <1>4. \A c, n : W!EvictionPeriod(c, n) = EvictionPeriod(c, n)
    BY Zenon DEF W!EvictionPeriod, EvictionPeriod
  <1>5. \A c, n : W!EvictionFee(c, n) = EvictionFee(c, n)
    BY Zenon DEF W!EvictionFee, EvictionFee
  <1>. QED
    BY <1>1, <1>2, <1>3, <1>4, <1>5

\* What is proved of a controller's step, of the whole.
LEMMA WholeStep ==
  ASSUME W!IInv, [W!Next]_(W!vars)
  PROVE  W!IInv'
  BY W!NextInv, SameTypes, AddressAssumption, InputAssumption, BoundAssumption

-----------------------------------------------------------------------------
(* The whole of a store, a storage and a stack *)

LEMMA WaitingIds ==
  ASSUME MTypeOK
  PROVE  /\ Waiting(OldPending, "pending") \subseteq DOMAIN OldPending
         /\ Waiting(OldFinished, "finished") \subseteq DOMAIN OldFinished
         /\ DOMAIN OldPending \subseteq JobIds /\ DOMAIN OldFinished \subseteq JobIds
  BY OldStoresAssumption DEF Waiting, IsMap

\* Which jobs a whole store has.
LEMMA WholeJobs ==
  /\ \A jobs : /\ DOMAIN WholePending(jobs) = DOMAIN jobs \cup Waiting(OldPending, "pending")
               /\ \A id \in DOMAIN jobs : WholePending(jobs)[id] = jobs[id]
               /\ \A id \in Waiting(OldPending, "pending") \ DOMAIN jobs :
                    WholePending(jobs)[id] = Converted(OldPending[id])
  /\ \A jobs : /\ DOMAIN WholeFinished(jobs) = DOMAIN jobs \cup Waiting(OldFinished, "finished")
               /\ \A id \in DOMAIN jobs : WholeFinished(jobs)[id] = jobs[id]
               /\ \A id \in Waiting(OldFinished, "finished") \ DOMAIN jobs :
                    WholeFinished(jobs)[id] = Converted(OldFinished[id])
  BY DEF WholePending, WholeFinished, WithWaiting

\* What handlers make of a map is a map.
LEMMA SavedMaps ==
  /\ \A f, k, v : IsFcn(Save(f, k, v))
  /\ \A f, k : IsFcn(Remove(f, k))
  <1>1. \A f, k, v : IsFcn(Save(f, k, v))
    BY DEF IsFcn, Save
  <1>2. \A f, k : IsFcn(Remove(f, k))
    BY DEF IsFcn, Remove
  <1>. QED
    BY <1>1, <1>2

\* What is saved in a store is saved in the whole.
LEMMA WholeSave ==
  /\ \A jobs, id, job : WholePending(Save(jobs, id, job)) = Save(WholePending(jobs), id, job)
  /\ \A jobs, id, job : WholeFinished(Save(jobs, id, job)) = Save(WholeFinished(jobs), id, job)
  <1>1. ASSUME NEW jobs, NEW id, NEW job, NEW old, NEW store
        PROVE  WithWaiting(Save(jobs, id, job), old, store)
                 = Save(WithWaiting(jobs, old, store), id, job)
    BY DEF WithWaiting, Save
  <1>. QED
    BY <1>1 DEF WholePending, WholeFinished

\* What is removed from a store, and does not wait, is removed from the whole.
LEMMA WholeRemove ==
  ASSUME NEW jobs, NEW id, id \notin Waiting(OldPending, "pending")
  PROVE  WholePending(Remove(jobs, id)) = Remove(WholePending(jobs), id)
  BY DEF AllPending, WholePending, WithWaiting, Remove

\* The fields of a whole storage and a whole frame.
LEMMA WholeFields ==
  ASSUME NEW s, IsStorage(s)
  PROVE  WholeStorage(s) = [config |-> s.config, current_job_id |-> s.current_job_id, q |-> s.q,
                            pending |-> WholePending(s.pending),
                            finished |-> WholeFinished(s.finished),
                            accounts |-> s.accounts, balance |-> s.balance]
  <1>1. PICK t : t = [s EXCEPT !.pending = WholePending(s.pending)]
    OBVIOUS
  <1>2. t = [config |-> s.config, current_job_id |-> s.current_job_id, q |-> s.q,
             pending |-> WholePending(s.pending), finished |-> s.finished,
             accounts |-> s.accounts, balance |-> s.balance]
    BY <1>1 DEF IsStorage
  <1>3. WholeStorage(s) = [t EXCEPT !.finished = WholeFinished(t.finished)]
    BY <1>1, Zenon DEF WholeStorage
  <1>. QED
    BY <1>2, <1>3

LEMMA FrameFields ==
  ASSUME NEW f, IsFrame(f)
  PROVE  WholeFrame(f) = [id |-> f.id, account |-> f.account, keeper |-> f.keeper,
                          reward |-> f.reward, phase |-> f.phase, callback |-> f.callback,
                          before |-> WholeStorage(f.before)]
  BY DEF WholeFrame, IsFrame

LEMMA StorageIsWhole ==
  /\ IsStorage(Storage)
  /\ W!Storage = WholeStorage(Storage)
  <1>1. IsStorage(Storage)
    BY DEF IsStorage, Storage
  <1>. QED
    BY <1>1, WholeFields DEF W!Storage, Storage, AllPending, AllFinished

\* Stacks: nothing, a part and a frame more.
LEMMA WholeNothing == WholeStack(<<>>) = <<>>
  BY DEF WholeStack

LEMMA WholeLength ==
  ASSUME NEW S, NEW frames \in Seq(S)
  PROVE  /\ WholeStack(frames) \in Seq(Range(WholeStack(frames)))
         /\ Len(WholeStack(frames)) = Len(frames) /\ Len(frames) \in Nat
         /\ DOMAIN frames = 1..Len(frames)
         /\ DOMAIN WholeStack(frames) = 1..Len(frames)
         /\ \A i \in DOMAIN frames : WholeStack(frames)[i] = WholeFrame(frames[i])
  <1>1. PICK n \in Nat : n = Len(frames)
    OBVIOUS
  <1>2. DOMAIN frames = 1..n
    BY <1>1
  <1>3. WholeStack(frames) = [i \in 1..n |-> WholeFrame(frames[i])]
    BY <1>2 DEF WholeStack
  <1>4. \A i \in 1..n : WholeFrame(frames[i]) \in Range(WholeStack(frames))
    BY <1>3 DEF Range
  <1>5. WholeStack(frames) \in Seq(Range(WholeStack(frames)))
    BY <1>3, <1>4
  <1>6. Len(WholeStack(frames)) = n
    BY <1>1, <1>3, <1>5
  <1>. QED
    BY <1>1, <1>2, <1>3, <1>5, <1>6

LEMMA WholeCut ==
  ASSUME NEW S, NEW frames \in Seq(S), NEW n \in 0..Len(frames)
  PROVE  WholeStack(SubSeq(frames, 1, n)) = SubSeq(WholeStack(frames), 1, n)
  <1>1. /\ WholeStack(frames) \in Seq(Range(WholeStack(frames))) /\ n \in Nat
        /\ Len(WholeStack(frames)) = Len(frames) /\ Len(frames) \in Nat
        /\ \A i \in 1..Len(frames) : WholeStack(frames)[i] = WholeFrame(frames[i])
    BY WholeLength
  <1>2. /\ DOMAIN SubSeq(frames, 1, n) = 1..n
        /\ \A i \in 1..n : SubSeq(frames, 1, n)[i] = frames[i]
    BY <1>1
  <1>3. SubSeq(WholeStack(frames), 1, n) = [i \in 1..n |-> WholeStack(frames)[i]]
    BY <1>1
  <1>4. WholeStack(SubSeq(frames, 1, n)) = [i \in 1..n |-> WholeFrame(frames[i])]
    BY <1>2 DEF WholeStack
  <1>5. \A i \in 1..n : WholeStack(frames)[i] = WholeFrame(frames[i])
    BY <1>1
  <1>. QED
    BY <1>3, <1>4, <1>5

LEMMA WholePush ==
  ASSUME NEW S, NEW frames \in Seq(S), NEW f
  PROVE  WholeStack(Append(frames, f)) = Append(WholeStack(frames), WholeFrame(f))
  <1>1. PICK T : T = S \cup {f} \cup Range(WholeStack(frames)) \cup {WholeFrame(f)}
    OBVIOUS
  <1>2. PICK n \in Nat : n = Len(frames)
    OBVIOUS
  <1>3. /\ WholeStack(frames) \in Seq(Range(WholeStack(frames)))
        /\ Len(WholeStack(frames)) = n /\ DOMAIN frames = 1..n
        /\ \A i \in 1..n : WholeStack(frames)[i] = WholeFrame(frames[i])
    BY <1>2, WholeLength
  <1>4. /\ frames \in Seq(T) /\ WholeStack(frames) \in Seq(T)
        /\ f \in T /\ WholeFrame(f) \in T
    <2>1. S \subseteq T /\ Range(WholeStack(frames)) \subseteq T /\ f \in T /\ WholeFrame(f) \in T
      BY <1>1
    <2>2. \A i \in 1..n : frames[i] \in T
      BY <1>3, <2>1
    <2>3. \A i \in 1..n : WholeStack(frames)[i] \in T
      BY <1>3, <2>1
    <2>. QED
      BY <1>2, <1>3, <2>1, <2>2, <2>3
  <1>5. PICK more : more = Append(frames, f)
    OBVIOUS
  <1>6. PICK whole : whole = Append(WholeStack(frames), WholeFrame(f))
    OBVIOUS
  <1>7. /\ more \in Seq(T) /\ Len(more) = n + 1 /\ more[n + 1] = f
        /\ \A i \in 1..n : more[i] = frames[i]
    BY <1>2, <1>4, <1>5, AppendProperties
  <1>8. /\ whole \in Seq(T) /\ Len(whole) = n + 1 /\ whole[n + 1] = WholeFrame(f)
        /\ \A i \in 1..n : whole[i] = WholeStack(frames)[i]
    BY <1>3, <1>4, <1>6, AppendProperties
  <1>9. /\ DOMAIN whole = 1..(n + 1) /\ whole = [i \in 1..(n + 1) |-> whole[i]]
        /\ DOMAIN more = 1..(n + 1)
    BY <1>7, <1>8
  <1>10. \A i \in 1..(n + 1) : whole[i] = WholeFrame(more[i])
    <2>1. \A i \in 1..(n + 1) : i = n + 1 \/ i \in 1..n
      OBVIOUS
    <2>. QED
      BY <1>3, <1>7, <1>8, <2>1
  <1>11. WholeStack(more) = [i \in 1..(n + 1) |-> WholeFrame(more[i])]
    BY <1>9 DEF WholeStack
  <1>. QED
    BY <1>5, <1>6, <1>9, <1>10, <1>11

\* While the cursors stand still so does what waits.
LEMMA SameCursors ==
  ASSUME cursor' = cursor
  PROVE  /\ AllPending = WholePending(pending) /\ AllPending' = WholePending(pending')
         /\ AllFinished = WholeFinished(finished) /\ AllFinished' = WholeFinished(finished')
         /\ AllStack = WholeStack(stack) /\ AllStack' = WholeStack(stack')
         /\ Waiting(OldPending, "pending")' = Waiting(OldPending, "pending")
         /\ Waiting(OldFinished, "finished")' = Waiting(OldFinished, "finished")
  BY DEF AllPending, AllFinished, AllStack, WholePending, WholeFinished, WholeStack, WholeFrame,
         WholeStorage, WithWaiting, Waiting

\* Who can call the controller does not depend on what waits.
LEMMA SameActors ==
  ASSUME MInv
  PROVE  /\ AllStack = <<>> <=> stack = <<>>
         /\ stack # <<>> => W!Top = WholeFrame(Top) /\ IsFrame(Top)
         /\ \A x : W!MayAct(x) <=> MayAct(x)
         /\ \A x : W!IsAccount(x) <=> IsAccount(x)
         /\ \A x : W!HasAccount(x) <=> HasAccount(x)
         /\ \A x : W!OwnerOf(x) = OwnerOf(x)
  <1>1. /\ stack \in Seq(Range(stack))
        /\ \A i \in DOMAIN stack : IsFrame(stack[i])
    BY DEF MInv
  <1>2. /\ Len(AllStack) = Len(stack) /\ Len(stack) \in Nat
        /\ DOMAIN stack = 1..Len(stack) /\ DOMAIN AllStack = 1..Len(stack)
        /\ \A i \in DOMAIN stack : AllStack[i] = WholeFrame(stack[i])
    BY <1>1, WholeLength DEF AllStack
  <1>3. AllStack = <<>> <=> stack = <<>>
    BY <1>1, <1>2, WholeLength
  <1>4. stack # <<>> => W!Top = WholeFrame(Top) /\ IsFrame(Top)
    <2>1. SUFFICES ASSUME stack # <<>> PROVE Len(stack) \in DOMAIN stack
      BY <1>1, <1>2 DEF W!Top, Top
    <2>. QED
      BY <1>1, <1>2, <2>1
  <1>5. stack # <<>> => /\ W!Top.phase = Top.phase /\ W!Top.account = Top.account
                        /\ W!Top.callback = Top.callback
    BY <1>4, FrameFields
  <1>6. \A x : W!MayAct(x) <=> MayAct(x)
    BY <1>3, <1>5, SameMaps DEF W!MayAct, MayAct, W!CallsOut, CallsOut
  <1>7. \A x : W!IsAccount(x) <=> IsAccount(x)
    BY SameMaps DEF W!IsAccount, IsAccount
  <1>8. \A x : (W!HasAccount(x) <=> HasAccount(x)) /\ W!OwnerOf(x) = OwnerOf(x)
    BY <1>7 DEF W!HasAccount, HasAccount, W!OwnerOf, OwnerOf
  <1>. QED
    BY <1>3, <1>4, <1>6, <1>7, <1>8

-----------------------------------------------------------------------------
(* A page leaves the whole as it is *)

\* What is left after a page is what was left before, without the page, and
\* nothing after one that is not full.
LEMMA LeftAfterPage ==
  ASSUME MTypeOK, NEW keys \in SUBSET Nat, IsFiniteSet(keys), NEW limit \in Limits,
         NEW store \in Stores, NEW page, page = Page(keys, cursor[store], limit),
         Turn(store, page, limit)
  PROVE  /\ cursor' \in [Stores -> Nat] /\ done' \subseteq Stores
         /\ \A s \in Stores \ {store} : cursor'[s] = cursor[s] /\ (s \in done' <=> s \in done)
         /\ cursor'[store] >= cursor[store]
         /\ {k \in keys : k > cursor'[store]} = {k \in keys : k > cursor[store]} \ page
         /\ page \subseteq {k \in keys : k > cursor[store]}
         /\ store \in done' => \/ store \in done
                               \/ {k \in keys : k > cursor'[store]} = {}
  <1>1. cursor[store] \in Nat /\ limit \in Nat /\ limit > 0 /\ \A k \in keys : k \in Nat
    BY OldStoresAssumption DEF MTypeOK
  <1>2. PICK rest : rest = {k \in keys : k > cursor[store]}
    OBVIOUS
  <1>3. page = PageOf(rest, limit)
    BY <1>2 DEF Page, PageOf
  <1>4. /\ rest \in SUBSET Int /\ IsFiniteSet(rest)
        /\ page \in SUBSET rest /\ page \in SUBSET Int /\ IsFiniteSet(page)
    <2>1. rest \in SUBSET keys /\ page \in SUBSET rest
      BY <1>2, <1>3 DEF PageOf
    <2>2. IsFiniteSet(rest)
      BY <2>1, FS_Subset
    <2>3. IsFiniteSet(page)
      BY <2>1, <2>2, FS_Subset
    <2>4. \A k \in keys : k \in Int
      BY <1>1
    <2>5. rest \in SUBSET Int /\ page \in SUBSET Int
      BY <2>1, <2>4, Zenon
    <2>. QED
      BY <2>1, <2>2, <2>3, <2>5
  <1>5. PICK last : last = IF page = {} THEN cursor[store]
                           ELSE CHOOSE k \in page : \A j \in page : j <= k
    OBVIOUS
  <1>6. /\ cursor' = [cursor EXCEPT ![store] = last]
        /\ done' = IF Cardinality(page) < limit THEN done \cup {store} ELSE done
    BY <1>5 DEF Turn
  <1>7. /\ last \in Nat /\ last >= cursor[store] /\ \A k \in page : k <= last
        /\ last = cursor[store] \/ last \in page
    <2>1. CASE page = {}
      BY <1>1, <1>5, <2>1
    <2>2. CASE page # {}
      <3>1. \E k \in page : \A j \in page : j <= k
        BY <1>4, <2>2, GreatestKey
      <3>2. last \in page /\ \A j \in page : j <= last
        BY <1>5, <2>2, <3>1
      <3>3. last \in keys /\ last > cursor[store]
        BY <1>2, <1>4, <3>2
      <3>. QED
        BY <1>1, <3>2, <3>3
    <2>. QED
      BY <2>1, <2>2
  <1>8. ASSUME NEW k \in keys
        PROVE  k > last <=> k > cursor[store] /\ k \notin page
    <2>1. k \in Nat /\ (k \in rest <=> k > cursor[store])
      BY <1>1, <1>2
    <2>2. k > last => k > cursor[store] /\ k \notin page
      BY <1>1, <1>7, <2>1
    <2>3. ASSUME k \in rest, k \notin page
          PROVE  k > last
      <3>1. CASE last = cursor[store]
        BY <1>1, <2>1, <2>3, <3>1
      <3>2. CASE last \in page
        <4>1. ~(k < last)
          BY <1>1, <1>3, <1>4, <2>3, <3>2, PageHasNoGap
        <4>. QED
          BY <1>7, <2>1, <2>3, <3>2, <4>1
      <3>. QED
        BY <1>7, <3>1, <3>2
    <2>. QED
      BY <2>1, <2>2, <2>3
  <1>9. cursor' \in [Stores -> Nat] /\ done' \subseteq Stores /\ cursor'[store] = last
        /\ \A s \in Stores \ {store} : cursor'[s] = cursor[s] /\ (s \in done' <=> s \in done)
    BY <1>6, <1>7 DEF MTypeOK
  <1>10. {k \in keys : k > cursor'[store]} = rest \ page
    BY <1>2, <1>8, <1>9
  <1>11. store \in done' => store \in done \/ rest \ page = {}
    <2>1. Cardinality(page) < limit => page = rest
      BY <1>1, <1>3, <1>4, ShortPageIsLast
    <2>. QED
      BY <1>6, <2>1
  <1>. QED
    BY <1>2, <1>4, <1>7, <1>9, <1>10, <1>11

\* What the migrating controller keeps apart while no transaction is under way.
LEMMA QuietInv ==
  ASSUME MInv, stack = <<>>, stack' = stack, Apart(Storage)', MTypeOK',
         UNCHANGED W!vars
  PROVE  MInv'
  <1>1. W!IInv'
    BY WholeStep DEF MInv
  <1>2. stack' \in Seq(Range(stack')) /\ DOMAIN stack' = {}
    BY DEF MInv
  <1>. QED
    BY <1>1, <1>2 DEF MInv

LEMMA OldKeys ==
  /\ DOMAIN OldPending \in SUBSET Nat /\ IsFiniteSet(DOMAIN OldPending)
  /\ DOMAIN OldFinished \in SUBSET Nat /\ IsFiniteSet(DOMAIN OldFinished)
  <1>1. IsFiniteSet(JobIds) /\ JobIds \subseteq Nat
    BY BoundAssumption, FS_Interval DEF JobIds
  <1>. QED
    BY <1>1, OldStoresAssumption, FS_Subset DEF IsMap

LEMMA PendingPage ==
  ASSUME MInv, NEW sender \in Users, NEW limit \in Limits, MigratePendingJobs(sender, limit)
  PROVE  MInv' /\ UNCHANGED W!vars
  <1>1. PICK page : page = Page(DOMAIN OldPending, cursor["pending"], limit)
    OBVIOUS
  <1>2. /\ stack = <<>> /\ stack' = stack /\ Turn("pending", page, limit)
        /\ pending' = Copied(pending, OldPending, page)
        /\ UNCHANGED <<config, current_job_id, q, finished, accounts, balance, code>>
    BY <1>1 DEF MigratePendingJobs, MayMigrate
  <1>3. "pending" \in Stores /\ "finished" \in Stores /\ "accounts" \in Stores
    BY DEF Stores
  <1>4. PICK waits : waits = {k \in DOMAIN OldPending : k > cursor["pending"]}
    OBVIOUS
  <1>5. /\ cursor' \in [Stores -> Nat] /\ done' \subseteq Stores
        /\ \A s \in Stores \ {"pending"} : cursor'[s] = cursor[s] /\ (s \in done' <=> s \in done)
        /\ {k \in DOMAIN OldPending : k > cursor'["pending"]} = waits \ page
        /\ page \subseteq waits
    BY <1>1, <1>2, <1>3, <1>4, OldKeys, LeftAfterPage DEF MInv
  <1>6. DOMAIN pending \cap waits = {}
    BY <1>4 DEF MInv, Apart, Storage, Waiting
  <1>7. AllPending' = AllPending /\ DOMAIN pending' \cap (waits \ page) = {}
    <2>1. /\ Waiting(OldPending, "pending") = waits
          /\ Waiting(OldPending, "pending")' = waits \ page
      BY <1>4, <1>5 DEF Waiting
    <2>2. AllPending =
            [id \in DOMAIN pending \cup waits |->
               IF id \in DOMAIN pending THEN pending[id] ELSE Converted(OldPending[id])]
      BY <2>1 DEF AllPending, WholePending, WithWaiting
    <2>3. AllPending' =
            [id \in DOMAIN pending' \cup (waits \ page) |->
               IF id \in DOMAIN pending' THEN pending'[id] ELSE Converted(OldPending[id])]
      BY <2>1 DEF AllPending, WholePending, WithWaiting
    <2>4. /\ DOMAIN pending' = DOMAIN pending \cup page
          /\ \A id \in DOMAIN pending' :
               pending'[id] = IF id \in page THEN Converted(OldPending[id]) ELSE pending[id]
      BY <1>2 DEF Copied
    <2>5. DOMAIN pending \cup waits = DOMAIN pending' \cup (waits \ page)
      BY <1>5, <2>4
    <2>6. ASSUME NEW id \in DOMAIN pending \cup waits
          PROVE  (IF id \in DOMAIN pending THEN pending[id] ELSE Converted(OldPending[id]))
                   = IF id \in DOMAIN pending' THEN pending'[id] ELSE Converted(OldPending[id])
      BY <1>5, <1>6, <2>4
    <2>7. AllPending' = AllPending
      BY <2>2, <2>3, <2>5, <2>6
    <2>. QED
      BY <1>5, <1>6, <2>4, <2>7
  <1>8. AllFinished' = AllFinished
    BY <1>2, <1>3, <1>5 DEF AllFinished, WholeFinished, WithWaiting, Waiting
  <1>9. AllStack' = AllStack
    BY <1>2 DEF AllStack, WholeStack
  <1>10. Apart(Storage)'
    <2>1. IsFcn(pending')
      BY <1>2 DEF Copied, IsFcn
    <2>. QED
      BY <1>2, <1>3, <1>5, <1>7, <2>1 DEF MInv, Apart, Storage, Waiting
  <1>11. UNCHANGED W!vars /\ MTypeOK'
    BY <1>2, <1>5, <1>7, <1>8, <1>9 DEF W!vars, MInv, MTypeOK
  <1>. QED
    BY <1>2, <1>10, <1>11, QuietInv

LEMMA FinishedPage ==
  ASSUME MInv, NEW sender \in Users, NEW limit \in Limits, MigrateFinishedJobs(sender, limit)
  PROVE  MInv' /\ UNCHANGED W!vars
  <1>1. PICK page : page = Page(DOMAIN OldFinished, cursor["finished"], limit)
    OBVIOUS
  <1>2. /\ stack = <<>> /\ stack' = stack /\ Turn("finished", page, limit)
        /\ finished' = Copied(finished, OldFinished, page)
        /\ UNCHANGED <<config, current_job_id, q, pending, accounts, balance, code>>
    BY <1>1 DEF MigrateFinishedJobs, MayMigrate
  <1>3. "pending" \in Stores /\ "finished" \in Stores /\ "accounts" \in Stores
    BY DEF Stores
  <1>4. PICK waits : waits = {k \in DOMAIN OldFinished : k > cursor["finished"]}
    OBVIOUS
  <1>5. /\ cursor' \in [Stores -> Nat] /\ done' \subseteq Stores
        /\ \A s \in Stores \ {"finished"} : cursor'[s] = cursor[s] /\ (s \in done' <=> s \in done)
        /\ {k \in DOMAIN OldFinished : k > cursor'["finished"]} = waits \ page
        /\ page \subseteq waits
    BY <1>1, <1>2, <1>3, <1>4, OldKeys, LeftAfterPage DEF MInv
  <1>6. DOMAIN finished \cap waits = {}
    BY <1>4 DEF MInv, Apart, Storage, Waiting
  <1>7. /\ AllFinished' = AllFinished
        /\ DOMAIN finished' \cap (waits \ page) = {}
    <2>1. /\ Waiting(OldFinished, "finished") = waits
          /\ Waiting(OldFinished, "finished")' = waits \ page
      BY <1>4, <1>5 DEF Waiting
    <2>2. AllFinished =
            [id \in DOMAIN finished \cup waits |->
               IF id \in DOMAIN finished THEN finished[id] ELSE Converted(OldFinished[id])]
      BY <2>1 DEF AllFinished, WholeFinished, WithWaiting
    <2>3. AllFinished' =
            [id \in DOMAIN finished' \cup (waits \ page) |->
               IF id \in DOMAIN finished' THEN finished'[id] ELSE Converted(OldFinished[id])]
      BY <2>1 DEF AllFinished, WholeFinished, WithWaiting
    <2>4. /\ DOMAIN finished' = DOMAIN finished \cup page
          /\ \A id \in DOMAIN finished' :
               finished'[id] = IF id \in page THEN Converted(OldFinished[id]) ELSE finished[id]
      BY <1>2 DEF Copied
    <2>5. DOMAIN finished \cup waits = DOMAIN finished' \cup (waits \ page)
      BY <1>5, <2>4
    <2>6. ASSUME NEW id \in DOMAIN finished \cup waits
          PROVE  (IF id \in DOMAIN finished THEN finished[id] ELSE Converted(OldFinished[id]))
                   = IF id \in DOMAIN finished' THEN finished'[id] ELSE Converted(OldFinished[id])
      BY <1>5, <1>6, <2>4
    <2>7. AllFinished' = AllFinished
      BY <2>2, <2>3, <2>5, <2>6
    <2>. QED
      BY <1>5, <1>6, <2>4, <2>7
  <1>8. AllPending' = AllPending
    BY <1>2, <1>3, <1>5 DEF AllPending, WholePending, WithWaiting, Waiting
  <1>9. AllStack' = AllStack
    BY <1>2 DEF AllStack, WholeStack
  <1>10. Apart(Storage)'
    <2>1. IsFcn(finished')
      BY <1>2 DEF Copied, IsFcn
    <2>. QED
      BY <1>2, <1>3, <1>5, <1>7, <2>1 DEF MInv, Apart, Storage, Waiting
  <1>11. UNCHANGED W!vars /\ MTypeOK'
    BY <1>2, <1>5, <1>7, <1>8, <1>9 DEF W!vars, MInv, MTypeOK
  <1>. QED
    BY <1>2, <1>10, <1>11, QuietInv

\* The accounts as the storage has them.
LEMMA KnownAccounts ==
  ASSUME MInv
  PROVE  IsMap(accounts, Users, AccountAddrs)
  <1>1. W!StorageOK(W!Storage)
    BY DEF MInv, W!IInv, W!StorageInv
  <1>. QED
    BY <1>1, SameMaps DEF W!StorageOK, W!Storage

LEMMA AccountsPage ==
  ASSUME MInv, NEW sender \in Users, NEW limit \in Limits, MigrateAccounts(sender, limit)
  PROVE  MInv' /\ UNCHANGED W!vars
  <1>1. PICK keys : keys = {Rank[o] : o \in DOMAIN accounts}
    OBVIOUS
  <1>2. PICK page : page = Page(keys, cursor["accounts"], limit)
    OBVIOUS
  <1>3. PICK migrated : migrated = {accounts[o] : o \in {o \in DOMAIN accounts : Rank[o] \in page}}
    OBVIOUS
  <1>4. /\ stack = <<>> /\ Turn("accounts", page, limit) /\ UNCHANGED vars
        /\ "accounts" \notin done
        /\ code' = [addr \in AccountAddrs |-> IF addr \in migrated THEN "new" ELSE code[addr]]
    BY <1>1, <1>2, <1>3 DEF MigrateAccounts, MayMigrate
  <1>5. "pending" \in Stores /\ "finished" \in Stores /\ "accounts" \in Stores
    BY DEF Stores
  <1>6. /\ IsMap(accounts, Users, AccountAddrs) /\ Rank \in [Users -> Nat \ {0}]
        /\ DOMAIN accounts \subseteq Users
    BY KnownAccounts, OldStoresAssumption DEF IsMap
  <1>7. keys \in SUBSET Nat /\ IsFiniteSet(keys)
    <2>1. PICK f : f = [o \in DOMAIN accounts |-> Rank[o]]
      OBVIOUS
    <2>2. f \in Surjection(DOMAIN accounts, keys)
      BY <1>1, <2>1 DEF Surjection
    <2>3. IsFiniteSet(DOMAIN accounts)
      BY DEF MInv, Apart, Storage
    <2>4. IsFiniteSet(keys)
      BY <2>2, <2>3, FS_Surjection
    <2>. QED
      BY <1>1, <1>6, <2>4
  <1>8. /\ cursor' \in [Stores -> Nat] /\ done' \subseteq Stores
        /\ \A s \in Stores \ {"accounts"} : cursor'[s] = cursor[s] /\ (s \in done' <=> s \in done)
        /\ {k \in keys : k > cursor'["accounts"]} = {k \in keys : k > cursor["accounts"]} \ page
        /\ "accounts" \in done' => {k \in keys : k > cursor'["accounts"]} = {}
    BY <1>2, <1>4, <1>5, <1>7, LeftAfterPage DEF MInv
  <1>9. /\ AllPending' = AllPending
        /\ AllFinished' = AllFinished
        /\ AllStack' = AllStack
    BY <1>4, <1>5, <1>8 DEF AllPending, AllFinished, AllStack, WholePending, WholeFinished,
                            WholeStack, WithWaiting, Waiting, vars
  \* An account is migrated with its page or beyond it.
  <1>10. ASSUME NEW o \in DOMAIN accounts
         PROVE  \/ code'[accounts[o]] = "new"
                \/ Rank[o] > cursor'["accounts"] /\ "accounts" \notin done'
    <2>1. accounts[o] \in AccountAddrs /\ Rank[o] \in keys
      BY <1>1, <1>6 DEF IsMap
    <2>2. CASE code[accounts[o]] = "new"
      BY <1>4, <2>1, <2>2
    <2>3. CASE Rank[o] \in page
      BY <1>3, <1>4, <2>1, <2>3
    <2>4. CASE Rank[o] > cursor["accounts"] /\ Rank[o] \notin page
      <3>1. Rank[o] \in {k \in keys : k > cursor'["accounts"]}
        BY <1>8, <2>1, <2>4
      <3>. QED
        BY <1>8, <3>1
    <2>. QED
      BY <2>2, <2>3, <2>4 DEF MInv, Apart, Storage
  <1>11. Apart(Storage)'
    BY <1>4, <1>5, <1>8, <1>10 DEF MInv, Apart, Storage, Waiting, vars
  <1>12. MTypeOK'
    BY <1>4, <1>8 DEF MInv, MTypeOK
  <1>13. UNCHANGED W!vars /\ stack' = stack
    BY <1>4, <1>9 DEF W!vars, vars
  <1>. QED
    BY <1>4, <1>11, <1>12, <1>13, QuietInv
-----------------------------------------------------------------------------
(* A handler is the handler of the whole *)

\* No job of a store waits, and the id a storage gives out next is nowhere.
LEMMA WholeIds ==
  ASSUME NEW s, IsStorage(s), W!StorageInv(WholeStorage(s)), Apart(s)
  PROVE  /\ s.current_job_id \in Nat
         /\ s.current_job_id \notin DOMAIN WholePending(s.pending)
         /\ s.current_job_id \notin Waiting(OldPending, "pending")
         /\ s.current_job_id \notin DOMAIN s.pending
         /\ \A id \in DOMAIN s.pending :
              /\ id \notin Waiting(OldPending, "pending")
              /\ id \notin Waiting(OldFinished, "finished")
              /\ id \in DOMAIN WholePending(s.pending)
              /\ id \notin DOMAIN WholeFinished(s.finished)
              /\ id \notin DOMAIN s.finished
              /\ WholePending(s.pending)[id] = s.pending[id]
  <1>1. PICK whole : whole = WholeStorage(s)
    OBVIOUS
  <1>2. /\ whole.pending = WholePending(s.pending) /\ whole.finished = WholeFinished(s.finished)
        /\ whole.current_job_id = s.current_job_id
    BY <1>1, WholeFields
  <1>3. W!StorageOK(whole) /\ W!StoresPartition(whole)
    BY <1>1 DEF W!StorageInv
  <1>4. /\ DOMAIN WholePending(s.pending) \cap DOMAIN WholeFinished(s.finished) = {}
        /\ DOMAIN WholePending(s.pending) \cup DOMAIN WholeFinished(s.finished)
             = 1..(s.current_job_id - 1)
    BY <1>2, <1>3 DEF W!StoresPartition
  <1>5. s.current_job_id \in Nat
    BY <1>2, <1>3, BoundAssumption DEF W!StorageOK
  <1>6. s.current_job_id \notin 1..(s.current_job_id - 1)
    BY <1>5
  <1>7. DOMAIN WholePending(s.pending) = DOMAIN s.pending \cup Waiting(OldPending, "pending")
    BY WholeJobs
  <1>8. DOMAIN WholeFinished(s.finished) = DOMAIN s.finished \cup Waiting(OldFinished, "finished")
    BY WholeJobs
  <1>9. \A id \in DOMAIN s.pending : WholePending(s.pending)[id] = s.pending[id]
    BY WholeJobs
  <1>10. DOMAIN s.pending \cap Waiting(OldPending, "pending") = {}
    BY DEF Apart
  <1>. QED
    BY <1>4, <1>5, <1>6, <1>7, <1>8, <1>9, <1>10

\* The stores and those of the whole, side by side.
Ids ==
  /\ current_job_id \in Nat
  /\ current_job_id \notin DOMAIN AllPending
  /\ current_job_id \notin Waiting(OldPending, "pending")
  /\ \A id \in DOMAIN pending :
       /\ id \notin Waiting(OldPending, "pending")
       /\ id \notin Waiting(OldFinished, "finished")
       /\ id \in DOMAIN AllPending
       /\ id \notin DOMAIN AllFinished
       /\ AllPending[id] = pending[id]

\* The stores are maps, and no job of theirs waits.
StoresApart ==
  /\ IsFcn(pending) /\ IsFcn(finished)
  /\ DOMAIN pending \cap Waiting(OldPending, "pending") = {}
  /\ DOMAIN finished \cap Waiting(OldFinished, "finished") = {}

LEMMA NowIds ==
  ASSUME MInv
  PROVE  Ids /\ StoresApart
  <1>1. IsStorage(Storage) /\ W!StorageInv(WholeStorage(Storage)) /\ Apart(Storage)
    BY StorageIsWhole DEF MInv, W!IInv
  <1>. QED
    BY <1>1, WholeIds DEF Storage, Ids, StoresApart, Apart, AllPending, AllFinished

\* The payments out of a reward, and the guards that are named apart.
LEMMA SameCharges ==
  /\ \A o, job, fee : W!Refund(o, job, fee) = Refund(o, job, fee)
  /\ \A c, fee : W!Charge(c, fee) = Charge(c, fee)
  /\ W!CanLeaveQueue <=> CanLeaveQueue
  /\ \A id : id \in DOMAIN AllPending /\ AllPending[id] = pending[id] =>
       /\ W!CancellationFee(id) = CancellationFee(id)
       /\ W!Requeued(id) <=> Requeued(id)
       /\ \A x : W!RequeueCharge(x, id) = RequeueCharge(x, id)
  <1>1. \A o, job, fee : W!Refund(o, job, fee) = Refund(o, job, fee)
    BY SamePayments, SameJobs, Zenon DEF W!Refund, Refund
  <1>2. \A c, fee : W!Charge(c, fee) = Charge(c, fee)
    BY SamePayments, Zenon DEF W!Charge, Charge
  <1>3. W!CanLeaveQueue <=> CanLeaveQueue
    BY DEF W!CanLeaveQueue, CanLeaveQueue
  <1>4. ASSUME NEW id, AllPending[id] = pending[id]
        PROVE  /\ W!CancellationFee(id) = CancellationFee(id)
               /\ W!Requeued(id) <=> Requeued(id)
               /\ \A x : W!RequeueCharge(x, id) = RequeueCharge(x, id)
    <2>1. W!CancellationFee(id) = CancellationFee(id)
      BY <1>4, SamePayments DEF W!CancellationFee, CancellationFee
    <2>2. W!Requeued(id) <=> Requeued(id)
      BY <1>4, SameRules DEF W!Requeued, Requeued
    <2>3. \A x : W!RequeueCharge(x, id) = RequeueCharge(x, id)
      BY <1>4, SameRules, SamePayments DEF W!RequeueCharge, RequeueCharge
    <2>. QED
      BY <2>1, <2>2, <2>3
  <1>. QED
    BY <1>1, <1>2, <1>3, <1>4

LEMMA SettleWhole ==
  ASSUME Ids, StoresApart, cursor' = cursor, NEW id \in DOMAIN pending, NEW status,
         Settle(id, status)
  PROVE  W!Settle(id, status) /\ StoresApart'
  <1>1. /\ pending' = Remove(pending, id)
        /\ finished' = Save(finished, id, Finish(pending[id], status))
        /\ q >= 1 /\ q' = q - 1
    BY DEF Settle, WithoutJob, Storage, CanLeaveQueue
  <1>2. /\ id \notin Waiting(OldPending, "pending") /\ id \notin Waiting(OldFinished, "finished")
        /\ AllPending[id] = pending[id]
    BY DEF Ids
  <1>3. AllPending' = Remove(AllPending, id)
    BY <1>1, <1>2, SameCursors, WholeRemove
  <1>4. AllFinished' = Save(AllFinished, id, Finish(pending[id], status))
    BY <1>1, SameCursors, WholeSave
  <1>5. W!WithoutJob(W!Storage, id) = Remove(AllPending, id)
    BY SameMaps DEF W!WithoutJob, W!Storage
  <1>6. W!Settle(id, status)
    BY <1>1, <1>2, <1>3, <1>4, <1>5, SameMaps, SameJobs DEF W!Settle, W!CanLeaveQueue
  <1>7. DOMAIN pending' = DOMAIN pending \ {id} /\ DOMAIN finished' = DOMAIN finished \cup {id}
    BY <1>1 DEF Remove, Save
  <1>8. IsFcn(pending') /\ IsFcn(finished')
    BY <1>1, SavedMaps
  <1>. QED
    BY <1>2, <1>6, <1>7, <1>8, SameCursors DEF StoresApart

LEMMA OpenAccountWhole ==
  ASSUME MInv, cursor' = cursor, NEW sender, NEW amount, NEW addr,
         OpenAccount(sender, amount, addr)
  PROVE  W!OpenAccount(sender, amount, addr) /\ StoresApart'
  <1>1. UNCHANGED <<config, current_job_id, q, pending, finished, stack>>
    BY DEF OpenAccount
  <1>2. /\ UNCHANGED <<AllPending, AllFinished, AllStack>>
        /\ StoresApart'
    BY <1>1, SameCursors, NowIds DEF StoresApart
  <1>. QED
    BY <1>2, SameActors, SamePayments, SameMaps DEF OpenAccount, W!OpenAccount

LEMMA FundAccountWhole ==
  ASSUME MInv, cursor' = cursor, NEW sender, NEW amount, FundAccount(sender, amount)
  PROVE  W!FundAccount(sender, amount) /\ StoresApart'
  <1>1. UNCHANGED <<config, current_job_id, q, pending, finished, accounts, stack>>
    BY DEF FundAccount
  <1>2. /\ UNCHANGED <<AllPending, AllFinished, AllStack>>
        /\ StoresApart'
    BY <1>1, SameCursors, NowIds DEF StoresApart
  <1>. QED
    BY <1>2, SameActors, SamePayments DEF FundAccount, W!FundAccount

LEMMA SpendWhole ==
  ASSUME MInv, cursor' = cursor, NEW owner, NEW to, NEW amount,
         SpendFromAccount(owner, to, amount)
  PROVE  W!SpendFromAccount(owner, to, amount) /\ StoresApart'
  <1>1. UNCHANGED <<config, current_job_id, q, pending, finished, accounts, stack>>
    BY DEF SpendFromAccount
  <1>2. /\ UNCHANGED <<AllPending, AllFinished, AllStack>>
        /\ StoresApart'
    BY <1>1, SameCursors, NowIds DEF StoresApart
  <1>. QED
    BY <1>2, SameActors, SamePayments DEF SpendFromAccount, W!SpendFromAccount

LEMMA UpdateConfigWhole ==
  ASSUME MInv, cursor' = cursor, NEW sender, NEW new, UpdateConfig(sender, new)
  PROVE  W!UpdateConfig(sender, new) /\ StoresApart'
  <1>1. UNCHANGED <<current_job_id, q, pending, finished, accounts, balance, stack>>
    BY DEF UpdateConfig
  <1>2. /\ UNCHANGED <<AllPending, AllFinished, AllStack>>
        /\ StoresApart'
    BY <1>1, SameCursors, NowIds DEF StoresApart
  <1>. QED
    BY <1>1, <1>2, SameActors, SameRules DEF UpdateConfig, W!UpdateConfig

\* A job that is saved over itself, or under the next id.
LEMMA SavedWhole ==
  ASSUME Ids, StoresApart, cursor' = cursor, NEW id, NEW job,
         id \in DOMAIN pending \/ id = current_job_id,
         pending' = Save(pending, id, job)
  PROVE  /\ AllPending' = Save(AllPending, id, job)
         /\ DOMAIN pending' \cap Waiting(OldPending, "pending")' = {} /\ IsFcn(pending')
  <1>1. id \notin Waiting(OldPending, "pending") /\ DOMAIN pending' = DOMAIN pending \cup {id}
    BY DEF Ids, Save
  <1>. QED
    BY <1>1, SameCursors, SavedMaps, WholeSave DEF StoresApart

LEMMA CreateJobWhole ==
  ASSUME MInv, cursor' = cursor, NEW sender, NEW reward, NEW kind,
         CreateJob(sender, reward, kind)
  PROVE  W!CreateJob(sender, reward, kind) /\ StoresApart'
  <1>1. Ids /\ StoresApart
    BY NowIds
  <1>2. UNCHANGED <<config, finished, accounts, stack>>
    BY DEF CreateJob
  <1>3. PICK job : job = NewJob(OwnerOf(sender), current_job_id, reward, kind)
    OBVIOUS
  <1>4. Enqueue(Storage, pending, job)
    BY <1>3 DEF CreateJob
  <1>5. /\ current_job_id <= MaxJobs
        /\ pending' = Save(pending, current_job_id, job)
        /\ current_job_id' = current_job_id + 1 /\ q' = q + 1
    BY <1>4 DEF Enqueue, Storage
  <1>6. /\ AllPending' = Save(AllPending, current_job_id, job)
        /\ DOMAIN pending' \cap Waiting(OldPending, "pending")' = {} /\ IsFcn(pending')
    BY <1>1, <1>5, SavedWhole
  <1>7. W!Enqueue(W!Storage, AllPending, job)
    BY <1>1, <1>5, <1>6, SameMaps DEF W!Enqueue, W!Storage, Ids
  <1>8. /\ UNCHANGED <<AllFinished, AllStack>>
        /\ StoresApart'
    BY <1>1, <1>2, <1>6, SameCursors DEF StoresApart
  <1>9. job = W!NewJob(W!OwnerOf(sender), current_job_id, reward, kind)
    BY <1>3, SameJobs, SameActors
  <1>10. /\ MayAct(sender) /\ HasAccount(sender)
         /\ reward >= config.minimum_reward /\ reward # 0
         /\ AffordsBoth(balance, Payment(accounts[OwnerOf(sender)], Controller, reward),
              Payment(accounts[OwnerOf(sender)], config.fee_collector,
                      Fee(reward, config.creation_fee_percentage)))
         /\ balance' =
              AfterBoth(balance, Payment(accounts[OwnerOf(sender)], Controller, reward),
                Payment(accounts[OwnerOf(sender)], config.fee_collector,
                        Fee(reward, config.creation_fee_percentage)))
    BY DEF CreateJob
  <1>. QED
    BY <1>2, <1>7, <1>8, <1>9, <1>10, SameActors, SamePayments DEF W!CreateJob

LEMMA DeleteJobWhole ==
  ASSUME MInv, cursor' = cursor, NEW sender, NEW id, DeleteJob(sender, id)
  PROVE  W!DeleteJob(sender, id) /\ StoresApart'
  <1>1. Ids /\ StoresApart /\ id \in DOMAIN pending
    BY NowIds DEF DeleteJob, MayDelete
  <1>2. UNCHANGED <<config, current_job_id, accounts, stack>> /\ Settle(id, "Cancelled")
    BY DEF DeleteJob, MayDelete
  <1>3. W!Settle(id, "Cancelled") /\ StoresApart'
    BY <1>1, <1>2, SettleWhole
  <1>4. AllStack' = AllStack
    BY <1>2, SameCursors
  <1>5. PICK job : job = pending[id] /\ job = AllPending[id]
    BY <1>1 DEF Ids
  <1>6. id \in DOMAIN AllPending /\ id \notin DOMAIN AllFinished
    BY <1>1 DEF Ids
  <1>7. MayDelete(sender, id)
    BY DEF DeleteJob
  <1>8. /\ W!CancellationFee(id) = CancellationFee(id)
        /\ \A fee : W!Refund(sender, AllPending[id], fee) = Refund(sender, pending[id], fee)
        /\ \A fee : W!Charge(config.fee_collector, fee) = Charge(config.fee_collector, fee)
    BY <1>5, <1>6, SameCharges
  <1>9. W!MayDelete(sender, id)
    BY <1>5, <1>6, <1>7, <1>8, SameActors, SameCharges, SamePayments DEF MayDelete, W!MayDelete
  <1>10. balance' = AfterBoth(balance, Refund(sender, pending[id], CancellationFee(id)),
                              Charge(config.fee_collector, CancellationFee(id)))
    BY DEF DeleteJob
  <1>11. balance' = W!AfterBoth(balance,
                      W!Refund(sender, AllPending[id], W!CancellationFee(id)),
                      W!Charge(config.fee_collector, W!CancellationFee(id)))
    BY <1>8, <1>10, SamePayments
  <1>. QED
    BY <1>2, <1>3, <1>4, <1>9, <1>11 DEF W!DeleteJob

LEMMA UpdateJobWhole ==
  ASSUME MInv, cursor' = cursor, NEW sender, NEW id, NEW added, UpdateJob(sender, id, added)
  PROVE  W!UpdateJob(sender, id, added) /\ StoresApart'
  <1>1. Ids /\ StoresApart /\ id \in DOMAIN pending
    BY NowIds DEF UpdateJob
  <1>2. UNCHANGED <<config, current_job_id, q, finished, accounts, stack>>
    BY DEF UpdateJob
  <1>3. PICK job : job = pending[id] /\ job = AllPending[id]
    BY <1>1 DEF Ids
  <1>4. pending' = Save(pending, id, AddReward(job, added, config.minimum_reward))
    BY <1>3 DEF UpdateJob
  <1>5. /\ AllPending' =
             Save(AllPending, id, AddReward(job, added, config.minimum_reward))
        /\ DOMAIN pending' \cap Waiting(OldPending, "pending")' = {} /\ IsFcn(pending')
    BY <1>1, <1>4, SavedWhole
  <1>6. /\ UNCHANGED <<AllFinished, AllStack>>
        /\ StoresApart'
    BY <1>1, <1>2, <1>5, SameCursors DEF StoresApart
  <1>7. id \in DOMAIN AllPending
    BY <1>1 DEF Ids
  <1>. QED
    BY <1>2, <1>3, <1>5, <1>6, <1>7, SameActors, SamePayments, SameJobs, SameMaps
       DEF UpdateJob, W!UpdateJob

\* A keeper can execute a job of the whole if it can execute it.
LEMMA CanExecuteWhole ==
  ASSUME MInv, NEW keeper, NEW id, CanExecute(keeper, id)
  PROVE  W!CanExecute(keeper, id) /\ id \in DOMAIN pending /\ AllPending[id] = pending[id]
  <1>1. Ids /\ id \in DOMAIN pending
    BY NowIds DEF CanExecute
  <1>2. id \in DOMAIN AllPending /\ AllPending[id] = pending[id]
    BY <1>1 DEF Ids
  <1>. QED
    BY <1>1, <1>2, SameActors DEF CanExecute, W!CanExecute

LEMMA ExecuteInvalidJobWhole ==
  ASSUME MInv, cursor' = cursor, NEW keeper, NEW id, ExecuteInvalidJob(keeper, id)
  PROVE  W!ExecuteInvalidJob(keeper, id) /\ StoresApart'
  <1>1. /\ CanExecute(keeper, id) /\ Settle(id, "Failed")
        /\ UNCHANGED <<config, current_job_id, accounts, stack>>
    BY DEF ExecuteInvalidJob
  <1>2. /\ W!CanExecute(keeper, id) /\ id \in DOMAIN pending /\ AllPending[id] = pending[id]
    BY <1>1, CanExecuteWhole
  <1>3. W!Settle(id, "Failed") /\ StoresApart'
    BY <1>1, <1>2, NowIds, SettleWhole
  <1>4. AllStack' = AllStack
    BY <1>1, SameCursors
  <1>. QED
    BY <1>1, <1>2, <1>3, <1>4, SamePayments DEF ExecuteInvalidJob, W!ExecuteInvalidJob

LEMMA EvictableWhole ==
  ASSUME MInv, NEW id, Evictable(id)
  PROVE  W!Evictable(id) /\ id \in DOMAIN pending /\ AllPending[id] = pending[id]
  <1>1. Ids /\ id \in DOMAIN pending
    BY NowIds DEF Evictable
  <1>2. id \in DOMAIN AllPending /\ AllPending[id] = pending[id]
    BY <1>1 DEF Ids
  <1>. QED
    BY <1>1, <1>2, SameRules DEF Evictable, W!Evictable

LEMMA EvictAndRequeueWhole ==
  ASSUME MInv, cursor' = cursor, NEW sender, NEW id, EvictAndRequeue(sender, id)
  PROVE  W!EvictAndRequeue(sender, id) /\ StoresApart'
  <1>1. /\ Evictable(id) /\ UNCHANGED <<config, current_job_id, q, finished, accounts, stack>>
        /\ pending' = Save(pending, id, [pending[id] EXCEPT !.age = 0])
    BY DEF EvictAndRequeue, MayRequeue
  <1>2. W!Evictable(id) /\ id \in DOMAIN pending /\ AllPending[id] = pending[id]
    BY <1>1, EvictableWhole
  <1>3. /\ AllPending' = Save(AllPending, id, [AllPending[id] EXCEPT !.age = 0])
        /\ DOMAIN pending' \cap Waiting(OldPending, "pending")' = {} /\ IsFcn(pending')
    BY <1>1, <1>2, NowIds, SavedWhole
  <1>4. AllStack' = AllStack /\ AllFinished' = AllFinished /\ StoresApart'
    BY <1>1, <1>3, NowIds, SameCursors DEF StoresApart
  <1>5. AllPending[id] = pending[id] /\ id \in DOMAIN AllPending
    BY <1>2 DEF W!Evictable
  <1>6. PICK charge : charge = RequeueCharge(sender, id) /\ charge = W!RequeueCharge(sender, id)
    BY <1>5, SameCharges
  <1>7. W!MayRequeue(sender, id)
    BY <1>2, <1>5, <1>6, SameActors, SameCharges, SamePayments
       DEF EvictAndRequeue, MayRequeue, W!MayRequeue
  <1>8. balance' = W!After(balance, charge)
    BY <1>6, SamePayments DEF EvictAndRequeue
  <1>. QED
    BY <1>1, <1>3, <1>4, <1>6, <1>7, <1>8, SameMaps DEF W!EvictAndRequeue

LEMMA EvictJobWhole ==
  ASSUME MInv, cursor' = cursor, NEW sender, NEW id, EvictJob(sender, id)
  PROVE  W!EvictJob(sender, id) /\ StoresApart'
  <1>1. /\ Evictable(id) /\ UNCHANGED <<config, current_job_id, accounts, stack>>
        /\ Settle(id, "Evicted")
    BY DEF EvictJob, MayEvict
  <1>2. W!Evictable(id) /\ id \in DOMAIN pending /\ AllPending[id] = pending[id]
    BY <1>1, EvictableWhole
  <1>3. W!Settle(id, "Evicted") /\ StoresApart' /\ id \notin DOMAIN AllFinished
    BY <1>1, <1>2, NowIds, SettleWhole DEF Ids
  <1>4. AllStack' = AllStack
    BY <1>1, SameCursors
  <1>5. AllPending[id] = pending[id] /\ id \in DOMAIN AllPending
    BY <1>2 DEF W!Evictable
  <1>6. PICK job, fee : /\ job = pending[id] /\ fee = EvictionFee(config, q)
                        /\ job = AllPending[id] /\ fee = W!EvictionFee(config, q)
    BY <1>5, SameRules
  <1>7. /\ MayAct(sender) /\ ~Requeued(id) /\ CanLeaveQueue
        /\ AffordsBoth(balance, Charge(sender, fee), Refund(job.owner, job, fee))
        /\ balance' = AfterBoth(balance, Charge(sender, fee), Refund(job.owner, job, fee))
    BY <1>6 DEF EvictJob, MayEvict
  <1>8. /\ ~W!Requeued(id) /\ W!CanLeaveQueue
        /\ W!Charge(sender, fee) = Charge(sender, fee)
        /\ W!Refund(job.owner, job, fee) = Refund(job.owner, job, fee)
    BY <1>5, <1>7, SameCharges
  <1>9. /\ W!AffordsBoth(balance, W!Charge(sender, fee), W!Refund(job.owner, job, fee))
        /\ balance' = W!AfterBoth(balance, W!Charge(sender, fee), W!Refund(job.owner, job, fee))
    BY <1>7, <1>8, SamePayments
  <1>10. W!MayEvict(sender, id)
    BY <1>2, <1>3, <1>6, <1>7, <1>8, <1>9, SameActors DEF W!MayEvict
  <1>. QED
    BY <1>1, <1>3, <1>4, <1>6, <1>9, <1>10 DEF W!EvictJob

\* The jobs that wait have been waiting as long as can be told.
LEMMA TickWhole ==
  ASSUME MInv, cursor' = cursor, Tick
  PROVE  W!Tick /\ StoresApart'
  <1>1. /\ stack = <<>>
        /\ UNCHANGED <<config, current_job_id, q, finished, accounts, balance, stack>>
        /\ pending' = [id \in DOMAIN pending |-> Older(pending[id])]
    BY DEF Tick
  <1>2. AllStack' = AllStack /\ AllFinished' = AllFinished /\ StoresApart' /\ AllStack = <<>>
    <2>1. IsFcn(pending')
      BY <1>1 DEF IsFcn
    <2>. QED
      BY <1>1, <2>1, NowIds, SameActors, SameCursors DEF StoresApart
  <1>3. PICK waits : waits = Waiting(OldPending, "pending")
    OBVIOUS
  <1>4. /\ DOMAIN AllPending = DOMAIN pending \cup waits
        /\ \A id \in DOMAIN pending : AllPending[id] = pending[id]
        /\ \A id \in waits \ DOMAIN pending : AllPending[id] = Converted(OldPending[id])
    BY <1>3, WholeJobs DEF AllPending
  <1>5. AllPending' = [id \in DOMAIN pending \cup waits |->
                         IF id \in DOMAIN pending THEN Older(pending[id])
                         ELSE Converted(OldPending[id])]
    BY <1>1, <1>3, SameCursors DEF WholePending, WithWaiting
  <1>6. ASSUME NEW id \in waits
        PROVE  Older(Converted(OldPending[id])) = Converted(OldPending[id])
    <2>1. id \in DOMAIN OldPending
      BY <1>3 DEF Waiting
    <2>2. OldPending[id] \in JobType /\ OldPending[id].age = MaxAge /\ MaxAge \in Nat
      BY <2>1, OldStoresAssumption, BoundAssumption DEF IsMap
    <2>3. /\ Converted(OldPending[id]) =
               [Converted(OldPending[id]) EXCEPT !.age = Converted(OldPending[id]).age]
          /\ Converted(OldPending[id]).age = MaxAge
      BY <2>2 DEF Converted, JobType
    <2>. QED
      BY <2>2, <2>3 DEF Older
  <1>7. AllPending' = [id \in DOMAIN AllPending |-> Older(AllPending[id])]
    BY <1>4, <1>5, <1>6
  <1>. QED
    BY <1>1, <1>2, <1>7, SameJobs DEF W!Tick

-----------------------------------------------------------------------------
(* The steps of an execution *)

\* A part of the stack, and a frame more, keep what the invariant says of frames.
FramesApart(frames) ==
  /\ frames \in Seq(Range(frames))
  /\ \A i \in DOMAIN frames : IsFrame(frames[i]) /\ Apart(frames[i].before)

LEMMA CutApart ==
  ASSUME NEW frames, FramesApart(frames), NEW n \in 0..Len(frames)
  PROVE  FramesApart(SubSeq(frames, 1, n))
  <1>1. PICK S : S = Range(frames)
    OBVIOUS
  <1>2. PICK cut : cut = SubSeq(frames, 1, n)
    OBVIOUS
  <1>3. frames \in Seq(S) /\ n \in Nat /\ Len(frames) \in Nat
    BY <1>1 DEF FramesApart
  <1>4. cut = [i \in 1..n |-> frames[i]] /\ \A i \in 1..n : i \in DOMAIN frames
    BY <1>2, <1>3
  <1>5. cut \in Seq(Range(cut))
    BY <1>3, <1>4 DEF Range
  <1>6. \A i \in DOMAIN cut : cut[i] = frames[i] /\ i \in DOMAIN frames
    BY <1>4
  <1>. QED
    BY <1>2, <1>5, <1>6 DEF FramesApart

LEMMA PushApart ==
  ASSUME NEW frames, FramesApart(frames), NEW f, IsFrame(f), Apart(f.before)
  PROVE  FramesApart(Append(frames, f))
  <1>1. PICK S : S = Range(frames) \cup {f}
    OBVIOUS
  <1>2. PICK more : more = Append(frames, f)
    OBVIOUS
  <1>3. PICK n : n = Len(frames)
    OBVIOUS
  <1>4. frames \in Seq(S) /\ n \in Nat /\ DOMAIN frames = 1..n /\ f \in S
    <2>1. frames \in Seq(Range(frames))
      BY DEF FramesApart
    <2>2. n \in Nat /\ DOMAIN frames = 1..n
      BY <1>3, <2>1
    <2>3. \A i \in 1..n : frames[i] \in S
      BY <1>1, <2>2 DEF Range
    <2>. QED
      BY <1>1, <1>3, <2>1, <2>2, <2>3
  <1>5. /\ more \in Seq(S) /\ Len(more) = n + 1 /\ more[n + 1] = f
        /\ \A i \in 1..n : more[i] = frames[i]
    BY <1>2, <1>3, <1>4, AppendProperties
  <1>6. DOMAIN more = 1..(n + 1) /\ more = [i \in 1..(n + 1) |-> more[i]]
    BY <1>4, <1>5
  <1>7. more \in Seq(Range(more))
    BY <1>4, <1>6 DEF Range
  <1>8. \A i \in 1..(n + 1) : i = n + 1 \/ i \in 1..n
    BY <1>4
  <1>9. \A i \in 1..n : IsFrame(frames[i]) /\ Apart(frames[i].before)
    BY <1>4 DEF FramesApart
  <1>10. \A i \in 1..(n + 1) : IsFrame(more[i]) /\ Apart(more[i].before)
    BY <1>5, <1>8, <1>9
  <1>. QED
    BY <1>2, <1>6, <1>7, <1>10 DEF FramesApart

LEMMA ExecuteJobWhole ==
  ASSUME MInv, cursor' = cursor, NEW keeper, NEW id, ExecuteJob(keeper, id)
  PROVE  W!ExecuteJob(keeper, id) /\ StoresApart' /\ FramesApart(stack')
  <1>1. PICK f : f = [id |-> id, account |-> accounts[pending[id].owner],
                      keeper |-> accounts[keeper], reward |-> pending[id].reward,
                      phase |-> "messages", callback |-> FALSE, before |-> Storage]
    OBVIOUS
  <1>2. /\ CanExecute(keeper, id) /\ Len(stack) < MaxDepth /\ stack' = Append(stack, f)
        /\ UNCHANGED <<config, current_job_id, q, pending, finished, accounts, balance>>
    BY <1>1 DEF ExecuteJob
  <1>3. W!CanExecute(keeper, id) /\ id \in DOMAIN pending /\ AllPending[id] = pending[id]
    BY <1>2, CanExecuteWhole
  <1>4. IsFrame(f) /\ Apart(f.before)
    BY <1>1, StorageIsWhole DEF IsFrame, MInv
  <1>5. PICK w : w = WholeFrame(f)
    OBVIOUS
  <1>6. w = [id |-> id, account |-> accounts[AllPending[id].owner],
             keeper |-> accounts[keeper], reward |-> AllPending[id].reward,
             phase |-> "messages", callback |-> FALSE, before |-> W!Storage]
    <2>1. w = [id |-> f.id, account |-> f.account, keeper |-> f.keeper, reward |-> f.reward,
               phase |-> f.phase, callback |-> f.callback, before |-> WholeStorage(f.before)]
      BY <1>4, <1>5, FrameFields
    <2>2. /\ f.id = id /\ f.account = accounts[pending[id].owner] /\ f.keeper = accounts[keeper]
          /\ f.reward = pending[id].reward /\ f.phase = "messages" /\ f.callback = FALSE
          /\ f.before = Storage
      BY <1>1
    <2>3. W!Storage = WholeStorage(f.before)
      BY <2>2, StorageIsWhole
    <2>. QED
      BY <1>3, <2>1, <2>2, <2>3
  <1>7. FramesApart(stack)
    BY DEF MInv, FramesApart
  <1>8. FramesApart(stack')
    BY <1>2, <1>4, <1>7, PushApart
  <1>9. AllStack' = Append(AllStack, w) /\ Len(AllStack) = Len(stack)
    BY <1>2, <1>5, <1>7, SameCursors, WholePush, WholeLength DEF FramesApart
  <1>10. AllPending' = AllPending /\ AllFinished' = AllFinished /\ StoresApart'
    BY <1>2, NowIds, SameCursors DEF StoresApart
  <1>. QED
    BY <1>2, <1>3, <1>6, <1>8, <1>9, <1>10 DEF W!ExecuteJob

LEMMA PayKeeperWhole ==
  ASSUME MInv, cursor' = cursor, PayKeeper
  PROVE  W!PayKeeper /\ StoresApart' /\ FramesApart(stack')
  <1>1. PICK n : n = Len(stack) - 1
    OBVIOUS
  <1>2. /\ stack # <<>> /\ Top.phase = "replied"
        /\ Affords(balance, Payment(Controller, Top.keeper, Top.reward))
        /\ balance' = After(balance, Payment(Controller, Top.keeper, Top.reward))
        /\ stack' = SubSeq(stack, 1, n)
        /\ UNCHANGED <<config, current_job_id, q, pending, finished, accounts>>
    BY <1>1 DEF PayKeeper
  <1>3. FramesApart(stack)
    BY DEF MInv, FramesApart
  <1>4. /\ Len(stack) \in Nat /\ n \in 0..Len(stack) /\ Len(AllStack) = Len(stack)
    <2>1. stack \in Seq(Range(stack))
      BY <1>3 DEF FramesApart
    <2>2. Len(stack) \in Nat /\ Len(stack) # 0
      BY <1>2, <2>1, EmptySeq
    <2>. QED
      BY <1>1, <2>1, <2>2, WholeLength DEF AllStack
  <1>5. /\ W!Top.phase = Top.phase /\ W!Top.keeper = Top.keeper /\ W!Top.reward = Top.reward
        /\ AllStack # <<>>
    BY <1>2, SameActors, FrameFields
  <1>6. AllStack' = SubSeq(AllStack, 1, n)
    BY <1>2, <1>3, <1>4, SameCursors, WholeCut DEF FramesApart
  <1>7. FramesApart(stack')
    BY <1>2, <1>3, <1>4, CutApart
  <1>8. AllPending' = AllPending /\ AllFinished' = AllFinished /\ StoresApart'
    BY <1>2, NowIds, SameCursors DEF StoresApart
  <1>. QED
    BY <1>1, <1>2, <1>4, <1>5, <1>6, <1>7, <1>8, SamePayments DEF W!PayKeeper

\* The reply for a frame keeps every field but two.
LEMMA RepliedFrame ==
  ASSUME NEW f, IsFrame(f), NEW callback
  PROVE  /\ IsFrame([f EXCEPT !.phase = "replied", !.callback = callback])
         /\ [f EXCEPT !.phase = "replied", !.callback = callback].before = f.before
         /\ WholeFrame([f EXCEPT !.phase = "replied", !.callback = callback])
              = [WholeFrame(f) EXCEPT !.phase = "replied", !.callback = callback]
  <1>1. PICK g : g = [id |-> f.id, account |-> f.account, keeper |-> f.keeper,
                      reward |-> f.reward, phase |-> "replied", callback |-> callback,
                      before |-> f.before]
    OBVIOUS
  <1>2. [f EXCEPT !.phase = "replied", !.callback = callback] = g
    <2>1. PICK h : h = [f EXCEPT !.phase = "replied"]
      OBVIOUS
    <2>2. h = [id |-> f.id, account |-> f.account, keeper |-> f.keeper, reward |-> f.reward,
               phase |-> "replied", callback |-> f.callback, before |-> f.before]
      BY <2>1 DEF IsFrame
    <2>3. [f EXCEPT !.phase = "replied", !.callback = callback] = [h EXCEPT !.callback = callback]
      BY <2>1, Zenon
    <2>. QED
      BY <1>1, <2>2, <2>3
  <1>3. IsFrame(g) /\ g.before = f.before
    BY <1>1 DEF IsFrame
  <1>4. PICK w : w = WholeFrame(f)
    OBVIOUS
  <1>5. w = [id |-> f.id, account |-> f.account, keeper |-> f.keeper, reward |-> f.reward,
             phase |-> f.phase, callback |-> f.callback, before |-> WholeStorage(f.before)]
    BY <1>4, FrameFields
  <1>6. [w EXCEPT !.phase = "replied", !.callback = callback]
          = [id |-> f.id, account |-> f.account, keeper |-> f.keeper, reward |-> f.reward,
             phase |-> "replied", callback |-> callback, before |-> WholeStorage(f.before)]
    <2>1. PICK h : h = [w EXCEPT !.phase = "replied"]
      OBVIOUS
    <2>2. h = [id |-> f.id, account |-> f.account, keeper |-> f.keeper, reward |-> f.reward,
               phase |-> "replied", callback |-> f.callback, before |-> WholeStorage(f.before)]
      BY <1>5, <2>1
    <2>3. [w EXCEPT !.phase = "replied", !.callback = callback] = [h EXCEPT !.callback = callback]
      BY <2>1, Zenon
    <2>. QED
      BY <2>2, <2>3
  <1>7. WholeFrame(g) = [id |-> g.id, account |-> g.account, keeper |-> g.keeper,
                         reward |-> g.reward, phase |-> g.phase, callback |-> g.callback,
                         before |-> WholeStorage(g.before)]
    BY <1>3, FrameFields
  <1>8. WholeFrame(g) = [w EXCEPT !.phase = "replied", !.callback = callback]
    BY <1>1, <1>6, <1>7
  <1>. QED
    BY <1>2, <1>3, <1>4, <1>8

\* The stack that a reply leaves.
LEMMA RepliedStack ==
  ASSUME MInv, NEW i \in DOMAIN stack, NEW callback, NEW frames,
         frames = Append(SubSeq(stack, 1, i - 1),
                         [stack[i] EXCEPT !.phase = "replied", !.callback = callback])
  PROVE  /\ FramesApart(frames)
         /\ WholeStack(frames) = Append(SubSeq(AllStack, 1, i - 1),
              [AllStack[i] EXCEPT !.phase = "replied", !.callback = callback])
  <1>1. PICK g : g = [stack[i] EXCEPT !.phase = "replied", !.callback = callback]
    OBVIOUS
  <1>2. PICK cut : cut = SubSeq(stack, 1, i - 1)
    OBVIOUS
  <1>3. FramesApart(stack) /\ stack \in Seq(Range(stack))
    BY DEF MInv, FramesApart
  <1>4. i \in 1..Len(stack) /\ Len(stack) \in Nat /\ i - 1 \in 0..Len(stack)
    BY <1>3
  <1>5. FramesApart(cut) /\ cut \in Seq(Range(cut))
    BY <1>2, <1>3, <1>4, CutApart DEF FramesApart
  <1>6. IsFrame(stack[i]) /\ Apart(stack[i].before)
    BY DEF MInv
  <1>7. IsFrame(g) /\ Apart(g.before)
    BY <1>1, <1>6, RepliedFrame
  <1>8. FramesApart(frames)
    BY <1>1, <1>2, <1>5, <1>7, PushApart
  <1>9. WholeStack(cut) = SubSeq(AllStack, 1, i - 1)
    BY <1>2, <1>3, <1>4, WholeCut DEF AllStack
  <1>10. AllStack[i] = WholeFrame(stack[i])
    BY <1>3, WholeLength DEF AllStack
  <1>11. WholeFrame(g) = [AllStack[i] EXCEPT !.phase = "replied", !.callback = callback]
    <2>1. WholeFrame(g) = [WholeFrame(stack[i]) EXCEPT !.phase = "replied", !.callback = callback]
      BY <1>1, <1>6, RepliedFrame, Zenon
    <2>. QED
      BY <1>10, <2>1, Zenon
  <1>12. WholeStack(frames) = Append(WholeStack(cut), WholeFrame(g))
    BY <1>1, <1>2, <1>5, WholePush
  <1>. QED
    BY <1>8, <1>9, <1>11, <1>12

LEMMA CallFailsWhole ==
  ASSUME MInv, cursor' = cursor, NEW i, CallFails(i)
  PROVE  /\ W!CallFails(i) /\ StoresApart' /\ FramesApart(stack')
         /\ accounts' = stack[i].before.accounts
  <1>1. i \in DOMAIN stack /\ Restore(stack[i].before) /\ stack' = SubSeq(stack, 1, i - 1)
    BY DEF CallFails
  <1>2. FramesApart(stack) /\ stack \in Seq(Range(stack))
    BY DEF MInv, FramesApart
  <1>3. i \in 1..Len(stack) /\ Len(stack) \in Nat /\ i - 1 \in 0..Len(stack)
    BY <1>1, <1>2
  <1>4. FramesApart(stack')
    BY <1>1, <1>2, <1>3, CutApart
  <1>5. /\ AllStack[i] = WholeFrame(stack[i]) /\ i \in DOMAIN AllStack
        /\ AllStack' = SubSeq(AllStack, 1, i - 1)
    BY <1>1, <1>2, <1>3, SameCursors, WholeLength, WholeCut
  <1>6. PICK s : s = stack[i].before
    OBVIOUS
  <1>7. IsFrame(stack[i]) /\ IsStorage(s) /\ Apart(s)
    BY <1>1, <1>6 DEF MInv, IsFrame
  <1>8. AllStack[i].before = WholeStorage(s)
    BY <1>5, <1>6, <1>7, FrameFields
  <1>9. PICK whole : whole = WholeStorage(s)
    OBVIOUS
  <1>10. /\ whole.config = s.config /\ whole.current_job_id = s.current_job_id /\ whole.q = s.q
         /\ whole.pending = WholePending(s.pending) /\ whole.finished = WholeFinished(s.finished)
         /\ whole.accounts = s.accounts /\ whole.balance = s.balance
    BY <1>7, <1>9, WholeFields
  <1>11. /\ config' = s.config /\ current_job_id' = s.current_job_id /\ q' = s.q
         /\ pending' = s.pending /\ finished' = s.finished
         /\ accounts' = s.accounts /\ balance' = s.balance
    BY <1>1, <1>6 DEF Restore
  <1>12. W!Restore(whole)
    BY <1>10, <1>11, SameCursors DEF W!Restore
  <1>13. StoresApart'
    BY <1>7, <1>11, SameCursors DEF Apart, StoresApart
  <1>. QED
    BY <1>4, <1>5, <1>6, <1>8, <1>9, <1>11, <1>12, <1>13 DEF W!CallFails

\* reply() from a storage that is the current one or one that a failure restores.
LEMMA ReplyWhole ==
  ASSUME MInv, cursor' = cursor, NEW i \in DOMAIN stack,
         NEW s, IsStorage(s), W!StorageInv(WholeStorage(s)), Apart(s),
         NEW status, NEW terminates, JobReply(i, s, status, terminates)
  PROVE  /\ W!JobReply(i, WholeStorage(s), status, terminates)
         /\ StoresApart' /\ FramesApart(stack') /\ accounts' = s.accounts
  <1>1. PICK whole : whole = WholeStorage(s)
    OBVIOUS
  <1>2. /\ whole.config = s.config /\ whole.current_job_id = s.current_job_id /\ whole.q = s.q
        /\ whole.pending = WholePending(s.pending) /\ whole.finished = WholeFinished(s.finished)
        /\ whole.accounts = s.accounts /\ whole.balance = s.balance
    BY <1>1, WholeFields
  <1>3. PICK id : id = stack[i].id
    OBVIOUS
  <1>4. PICK job : job = s.pending[id]
    OBVIOUS
  <1>5. PICK fee : fee = Payment(s.accounts[job.owner], s.config.fee_collector,
                                 Fee(job.reward, s.config.creation_fee_percentage))
    OBVIOUS
  <1>6. PICK escrow : escrow = Payment(s.accounts[job.owner], Controller, job.reward)
    OBVIOUS
  <1>7. PICK callback : callback = (Recurs(s, job, terminates)
                                      /\ "cw20" \in job.kind.assets_to_withdraw)
    OBVIOUS
  <1>8. PICK next : next = NewJob(job.owner, job.name, job.reward, job.kind)
    OBVIOUS
  <1>9. /\ id \in DOMAIN s.pending /\ id \notin DOMAIN s.finished
        /\ terminates => job.kind.terminate_condition
        /\ finished' = Save(s.finished, id, Finish(job, status))
        /\ stack' = Append(SubSeq(stack, 1, i - 1),
                           [stack[i] EXCEPT !.phase = "replied", !.callback = callback])
        /\ config' = s.config /\ accounts' = s.accounts
    BY <1>3, <1>4, <1>7, Zenon DEF JobReply
  <1>10. /\ AllStack[i].id = id
         /\ whole.pending[id] = job
         /\ id \in DOMAIN whole.pending /\ id \notin DOMAIN whole.finished
         /\ id \notin Waiting(OldPending, "pending") /\ id \notin Waiting(OldFinished, "finished")
    <2>1. stack \in Seq(Range(stack)) /\ IsFrame(stack[i])
      BY DEF MInv
    <2>2. AllStack[i] = WholeFrame(stack[i])
      BY <2>1, WholeLength DEF AllStack
    <2>3. AllStack[i].id = id
      BY <1>3, <2>1, <2>2, FrameFields
    <2>. QED
      BY <1>2, <1>4, <1>9, <2>3, WholeIds
  <1>11. /\ AllFinished' = W!Save(whole.finished, id, W!Finish(job, status))
         /\ DOMAIN finished' \cap Waiting(OldFinished, "finished")' = {} /\ IsFcn(finished')
    <2>1. AllFinished' = Save(WholeFinished(s.finished), id, Finish(job, status))
      BY <1>9, SameCursors, WholeSave
    <2>2. DOMAIN finished' = DOMAIN s.finished \cup {id}
      BY <1>9 DEF Save
    <2>3. DOMAIN finished' \cap Waiting(OldFinished, "finished") = {}
      BY <1>10, <2>2 DEF Apart
    <2>. QED
      BY <1>2, <1>9, <2>1, <2>3, SameCursors, SameMaps, SameJobs, SavedMaps
  <1>12. /\ FramesApart(stack')
         /\ AllStack' = Append(SubSeq(AllStack, 1, i - 1),
              [AllStack[i] EXCEPT !.phase = "replied", !.callback = callback])
    <2>1. PICK frames : frames = stack'
      OBVIOUS
    <2>2. AllStack' = WholeStack(frames)
      BY <2>1, SameCursors
    <2>. QED
      BY <1>9, <2>1, <2>2, RepliedStack
  <1>13. fee = W!Payment(whole.accounts[job.owner], whole.config.fee_collector,
                         W!Fee(job.reward, whole.config.creation_fee_percentage))
    BY <1>2, <1>5, SamePayments
  <1>14. escrow = W!Payment(whole.accounts[job.owner], Controller, job.reward)
    BY <1>2, <1>6, SamePayments
  <1>15. next = W!NewJob(job.owner, job.name, job.reward, job.kind)
    BY <1>8, SameJobs
  <1>16. W!Recurs(whole, job, terminates) <=> Recurs(s, job, terminates)
    BY <1>2, SamePayments DEF W!Recurs, Recurs
  <1>17. callback = (W!Recurs(whole, job, terminates) /\ "cw20" \in job.kind.assets_to_withdraw)
    BY <1>7, <1>16
  <1>18. WholePending(WithoutJob(s, id)) = W!WithoutJob(whole, id)
    BY <1>2, <1>10, WholeRemove, SameMaps DEF WithoutJob, W!WithoutJob
  <1>19. CASE Recurs(s, job, terminates)
    <2>1. /\ AffordsBoth(s.balance, fee, escrow)
          /\ Enqueue(s, WithoutJob(s, id), next)
          /\ balance' = WithdrawNative(AfterBoth(s.balance, fee, escrow), job,
                                       s.accounts[job.owner])
      BY <1>3, <1>4, <1>5, <1>6, <1>8, <1>19, Zenon DEF JobReply
    <2>2. /\ s.current_job_id <= MaxJobs
          /\ pending' = Save(WithoutJob(s, id), s.current_job_id, next)
          /\ current_job_id' = s.current_job_id + 1 /\ q' = s.q + 1
      BY <2>1 DEF Enqueue
    <2>3. AllPending' = W!Save(W!WithoutJob(whole, id), s.current_job_id, next)
      BY <1>18, <2>2, SameCursors, SameMaps, WholeSave
    <2>4. s.current_job_id \notin DOMAIN W!WithoutJob(whole, id)
      BY <1>2, WholeIds, SameMaps DEF W!WithoutJob, W!Remove
    <2>5. W!Enqueue(whole, W!WithoutJob(whole, id), next)
      BY <1>2, <2>2, <2>3, <2>4 DEF W!Enqueue
    <2>6. /\ W!AffordsBoth(whole.balance, fee, escrow)
          /\ balance' = W!WithdrawNative(W!AfterBoth(whole.balance, fee, escrow), job,
                                         whole.accounts[job.owner])
      BY <1>2, <2>1, SamePayments, SameRules
    <2>7. W!JobReply(i, whole, status, terminates)
      BY <1>2, <1>9, <1>10, <1>11, <1>12, <1>13, <1>14, <1>15, <1>16, <1>17, <1>19, <2>5, <2>6,
         Zenon DEF W!JobReply
    <2>8. DOMAIN pending' \cap Waiting(OldPending, "pending")' = {}
      <3>1. DOMAIN pending' = (DOMAIN s.pending \ {id}) \cup {s.current_job_id}
        BY <2>2 DEF Save, WithoutJob, Remove
      <3>2. s.current_job_id \notin Waiting(OldPending, "pending")
        BY WholeIds
      <3>. QED
        BY <3>1, <3>2, SameCursors DEF Apart
    <2>. QED
      BY <1>1, <1>9, <1>11, <1>12, <2>2, <2>7, <2>8, SavedMaps DEF StoresApart
  <1>20. CASE ~Recurs(s, job, terminates)
    <2>1. /\ pending' = WithoutJob(s, id) /\ current_job_id' = s.current_job_id
          /\ q' = s.q /\ balance' = s.balance
      BY <1>3, <1>4, <1>20, Zenon DEF JobReply
    <2>2. AllPending' = W!WithoutJob(whole, id)
      BY <1>18, <2>1, SameCursors
    <2>3. W!JobReply(i, whole, status, terminates)
      BY <1>2, <1>9, <1>10, <1>11, <1>12, <1>16, <1>17, <1>20, <2>1, <2>2, Zenon DEF W!JobReply
    <2>4. DOMAIN pending' \cap Waiting(OldPending, "pending")' = {}
      <3>1. DOMAIN pending' = DOMAIN s.pending \ {id}
        BY <2>1 DEF WithoutJob, Remove
      <3>. QED
        BY <3>1, SameCursors DEF Apart
    <2>. QED
      BY <1>1, <1>9, <1>11, <1>12, <2>1, <2>3, <2>4, SavedMaps DEF StoresApart, WithoutJob
  <1>. QED
    BY <1>19, <1>20

-----------------------------------------------------------------------------
(* Every handler *)

\* What Apart says of the accounts.
AccountsApart(accs) ==
  /\ Range(OldAccounts) \subseteq Range(accs) /\ IsFiniteSet(DOMAIN accs)
  /\ \A o \in DOMAIN accs :
       \/ code[accs[o]] = "new"
       \/ Rank[o] > cursor["accounts"] /\ "accounts" \notin done

\* An account that is opened now runs the new code.
LEMMA OpenedAccount ==
  ASSUME MInv, NEW sender, NEW amount, NEW addr \in AccountAddrs,
         OpenAccount(sender, amount, addr)
  PROVE  AccountsApart(accounts')
  <1>1. /\ accounts' = Save(accounts, sender, addr)
        /\ sender \notin DOMAIN accounts /\ addr \notin Range(accounts)
    BY DEF OpenAccount, IsAccount
  <1>2. AccountsApart(accounts)
    BY DEF MInv, Apart, Storage, AccountsApart
  <1>3. code[addr] = "new"
    BY <1>1, <1>2 DEF MInv, MTypeOK, AccountsApart
  <1>4. /\ DOMAIN accounts' = DOMAIN accounts \cup {sender} /\ accounts'[sender] = addr
        /\ \A o \in DOMAIN accounts : accounts'[o] = accounts[o]
    BY <1>1 DEF Save
  <1>5. IsFiniteSet(DOMAIN accounts')
    BY <1>2, <1>4, FS_AddElement DEF AccountsApart
  <1>6. Range(accounts) \subseteq Range(accounts')
    BY <1>4 DEF Range
  <1>. QED
    BY <1>2, <1>3, <1>4, <1>5, <1>6 DEF AccountsApart

\* What a step of the whole has to leave apart to keep the invariant.
LEMMA KeepsInv ==
  ASSUME MInv, UNCHANGED migration_vars, [W!Next]_(W!vars),
         StoresApart', FramesApart(stack'), AccountsApart(accounts')
  PROVE  MInv'
  <1>1. W!IInv'
    BY WholeStep DEF MInv
  <1>2. FramesApart(stack)'
    BY DEF FramesApart, Apart, Waiting, migration_vars
  <1>3. Apart(Storage)'
    BY DEF StoresApart, AccountsApart, Apart, Storage, migration_vars
  <1>4. MTypeOK'
    BY DEF MInv, MTypeOK, migration_vars
  <1>. QED
    BY <1>1, <1>2, <1>3, <1>4 DEF MInv, FramesApart

\* A handler is a step of the whole, and keeps apart what waits.
LEMMA HandlerWhole ==
  ASSUME MInv, Next, UNCHANGED migration_vars
  PROVE  W!Next /\ StoresApart' /\ FramesApart(stack') /\ AccountsApart(accounts')
  <1>1. cursor' = cursor /\ FramesApart(stack) /\ AccountsApart(accounts)
    BY DEF migration_vars, MInv, FramesApart, Apart, Storage, AccountsApart
  <1>2. W!Senders = Senders /\ W!JobIds = JobIds
    BY SameTypes
  <1>3. stack' = stack => FramesApart(stack')
    BY <1>1
  <1>4. accounts' = accounts => AccountsApart(accounts')
    BY <1>1
  <1>5. CASE AccountStep
    <2>1. ASSUME NEW sender \in Senders, NEW amount \in Deposits, NEW addr \in AccountAddrs,
                 OpenAccount(sender, amount, addr)
          PROVE  W!AccountStep /\ StoresApart' /\ FramesApart(stack') /\ AccountsApart(accounts')
      BY <1>1, <1>2, <1>3, <2>1, OpenAccountWhole, OpenedAccount DEF W!AccountStep, OpenAccount
    <2>2. ASSUME NEW sender \in Senders, NEW amount \in Deposits, FundAccount(sender, amount)
          PROVE  W!AccountStep /\ StoresApart' /\ FramesApart(stack') /\ AccountsApart(accounts')
      BY <1>1, <1>2, <1>3, <1>4, <2>2, FundAccountWhole DEF W!AccountStep, FundAccount
    <2>. QED
      BY <1>5, <2>1, <2>2 DEF AccountStep, W!Next
  <1>6. CASE SpendStep
    <2>1. PICK owner \in DOMAIN accounts, to \in Users, amount \in Spends :
            SpendFromAccount(owner, to, amount)
      BY <1>6 DEF SpendStep
    <2>2. W!SpendFromAccount(owner, to, amount) /\ StoresApart'
      BY <1>1, <2>1, SpendWhole
    <2>3. stack' = stack /\ accounts' = accounts
      BY <2>1 DEF SpendFromAccount
    <2>. QED
      BY <1>3, <1>4, <2>2, <2>3 DEF W!SpendStep, W!Next
  <1>7. CASE JobStep
    <2>1. ASSUME NEW sender \in Senders, NEW reward \in Rewards, NEW kind \in JobKinds,
                 CreateJob(sender, reward, kind)
          PROVE  W!JobStep /\ StoresApart' /\ FramesApart(stack') /\ AccountsApart(accounts')
      <3>1. W!CreateJob(sender, reward, kind) /\ StoresApart'
        BY <1>1, <2>1, CreateJobWhole
      <3>2. stack' = stack /\ accounts' = accounts
        BY <2>1 DEF CreateJob
      <3>. QED
        BY <1>2, <1>3, <1>4, <3>1, <3>2 DEF W!JobStep
    <2>2. ASSUME NEW sender \in Senders, NEW id \in JobIds, DeleteJob(sender, id)
          PROVE  W!JobStep /\ StoresApart' /\ FramesApart(stack') /\ AccountsApart(accounts')
      <3>1. W!DeleteJob(sender, id) /\ StoresApart'
        BY <1>1, <2>2, DeleteJobWhole
      <3>2. stack' = stack /\ accounts' = accounts
        BY <2>2 DEF DeleteJob, MayDelete
      <3>. QED
        BY <1>2, <1>3, <1>4, <3>1, <3>2 DEF W!JobStep
    <2>3. ASSUME NEW sender \in Senders, NEW id \in JobIds, NEW added \in Additions,
                 UpdateJob(sender, id, added)
          PROVE  W!JobStep /\ StoresApart' /\ FramesApart(stack') /\ AccountsApart(accounts')
      <3>1. W!UpdateJob(sender, id, added) /\ StoresApart'
        BY <1>1, <2>3, UpdateJobWhole
      <3>2. stack' = stack /\ accounts' = accounts
        BY <2>3 DEF UpdateJob
      <3>. QED
        BY <1>2, <1>3, <1>4, <3>1, <3>2 DEF W!JobStep
    <2>. QED
      BY <1>7, <2>1, <2>2, <2>3 DEF JobStep, W!Next
  <1>8. CASE ExecuteStep
    <2>1. ASSUME NEW keeper \in Senders, NEW id \in JobIds, ExecuteInvalidJob(keeper, id)
          PROVE  W!ExecuteStep /\ StoresApart' /\ FramesApart(stack') /\ AccountsApart(accounts')
      <3>1. W!ExecuteInvalidJob(keeper, id) /\ StoresApart'
        BY <1>1, <2>1, ExecuteInvalidJobWhole
      <3>2. stack' = stack /\ accounts' = accounts
        BY <2>1 DEF ExecuteInvalidJob
      <3>. QED
        BY <1>2, <1>3, <1>4, <3>1, <3>2 DEF W!ExecuteStep
    <2>2. ASSUME NEW keeper \in Senders, NEW id \in JobIds, ExecuteJob(keeper, id)
          PROVE  W!ExecuteStep /\ StoresApart' /\ FramesApart(stack') /\ AccountsApart(accounts')
      <3>1. W!ExecuteJob(keeper, id) /\ StoresApart' /\ FramesApart(stack')
        BY <1>1, <2>2, ExecuteJobWhole
      <3>2. accounts' = accounts
        BY <2>2 DEF ExecuteJob
      <3>. QED
        BY <1>2, <1>4, <3>1, <3>2 DEF W!ExecuteStep
    <2>3. ASSUME NEW terminates \in BOOLEAN, JobSucceeds(terminates)
          PROVE  W!ExecuteStep /\ StoresApart' /\ FramesApart(stack') /\ AccountsApart(accounts')
      <3>1. PICK i : i = Len(stack)
        OBVIOUS
      <3>2. /\ stack # <<>> /\ Top.phase = "messages"
            /\ JobReply(i, Storage, "Executed", terminates)
        BY <2>3, <3>1 DEF JobSucceeds
      <3>3. i \in DOMAIN stack /\ i = Len(AllStack)
        <4>1. stack \in Seq(Range(stack))
          BY DEF MInv
        <4>2. Len(stack) \in Nat /\ Len(stack) # 0 /\ DOMAIN stack = 1..Len(stack)
          BY <3>2, <4>1, EmptySeq
        <4>. QED
          BY <3>1, <4>1, <4>2, WholeLength DEF AllStack
      <3>4. IsStorage(Storage) /\ W!StorageInv(WholeStorage(Storage)) /\ Apart(Storage)
        BY StorageIsWhole DEF MInv, W!IInv
      <3>5. /\ W!JobReply(i, WholeStorage(Storage), "Executed", terminates)
            /\ StoresApart' /\ FramesApart(stack') /\ accounts' = Storage.accounts
        BY <1>1, <3>2, <3>3, <3>4, ReplyWhole
      <3>6. accounts' = accounts
        BY <3>5 DEF Storage
      <3>7. AllStack # <<>> /\ W!Top.phase = "messages"
        BY <3>2, SameActors, FrameFields
      <3>8. W!JobSucceeds(terminates)
        BY <3>3, <3>5, <3>7, StorageIsWhole DEF W!JobSucceeds
      <3>. QED
        BY <1>4, <3>5, <3>6, <3>8 DEF W!ExecuteStep
    <2>4. ASSUME NEW terminates \in BOOLEAN, NEW i \in DOMAIN stack, JobFails(i, terminates)
          PROVE  W!ExecuteStep /\ StoresApart' /\ FramesApart(stack') /\ AccountsApart(accounts')
      <3>1. PICK s : s = stack[i].before
        OBVIOUS
      <3>2. stack[i].phase = "messages" /\ JobReply(i, s, "Failed", terminates)
        BY <2>4, <3>1 DEF JobFails
      <3>3. stack \in Seq(Range(stack)) /\ IsFrame(stack[i]) /\ IsStorage(s) /\ Apart(s)
        BY <3>1 DEF MInv, IsFrame
      <3>4. i \in DOMAIN AllStack /\ AllStack[i] = WholeFrame(stack[i])
        BY <3>3, WholeLength DEF AllStack
      <3>5. AllStack[i].before = WholeStorage(s) /\ AllStack[i].phase = "messages"
        BY <3>1, <3>2, <3>3, <3>4, FrameFields
      <3>6. W!StorageInv(WholeStorage(s))
        BY <3>4, <3>5 DEF MInv, W!IInv, W!FrameInv
      <3>7. /\ W!JobReply(i, WholeStorage(s), "Failed", terminates)
            /\ StoresApart' /\ FramesApart(stack') /\ accounts' = s.accounts
        BY <1>1, <3>2, <3>3, <3>6, ReplyWhole
      <3>8. AccountsApart(accounts')
        BY <3>3, <3>7 DEF Apart, AccountsApart
      <3>9. W!JobFails(i, terminates)
        BY <3>4, <3>5, <3>7 DEF W!JobFails
      <3>. QED
        BY <3>4, <3>7, <3>8, <3>9 DEF W!ExecuteStep
    <2>5. ASSUME PayKeeper
          PROVE  W!ExecuteStep /\ StoresApart' /\ FramesApart(stack') /\ AccountsApart(accounts')
      <3>1. W!PayKeeper /\ StoresApart' /\ FramesApart(stack')
        BY <1>1, <2>5, PayKeeperWhole
      <3>2. accounts' = accounts
        BY <2>5 DEF PayKeeper
      <3>3. W!ExecuteStep
        BY <3>1, Zenon DEF W!ExecuteStep
      <3>. QED
        BY <1>4, <3>1, <3>2, <3>3
    <2>6. ASSUME NEW i \in DOMAIN stack, CallFails(i)
          PROVE  W!ExecuteStep /\ StoresApart' /\ FramesApart(stack') /\ AccountsApart(accounts')
      <3>1. /\ W!CallFails(i) /\ StoresApart' /\ FramesApart(stack')
            /\ accounts' = stack[i].before.accounts
        BY <1>1, <2>6, CallFailsWhole
      <3>2. AccountsApart(accounts')
        BY <3>1 DEF MInv, Apart, AccountsApart
      <3>3. i \in DOMAIN AllStack
        BY <3>1 DEF W!CallFails
      <3>. QED
        BY <3>1, <3>2, <3>3 DEF W!ExecuteStep
    <2>7. W!ExecuteStep /\ StoresApart' /\ FramesApart(stack') /\ AccountsApart(accounts')
      <3>1. CASE \E keeper \in Senders, id \in JobIds :
                   ExecuteInvalidJob(keeper, id) \/ ExecuteJob(keeper, id)
        BY <2>1, <2>2, <3>1
      <3>2. CASE \E terminates \in BOOLEAN : JobSucceeds(terminates)
        BY <2>3, <3>2
      <3>3. CASE \E terminates \in BOOLEAN, i \in DOMAIN stack : JobFails(i, terminates)
        BY <2>4, <3>3
      <3>4. CASE \E i \in DOMAIN stack : CallFails(i)
        BY <2>6, <3>4
      <3>. QED
        BY <1>8, <2>5, <3>1, <3>2, <3>3, <3>4, Zenon DEF ExecuteStep
    <2>. QED
      BY <2>7 DEF W!Next
  <1>9. CASE EvictStep
    <2>1. ASSUME NEW sender \in Senders, NEW id \in JobIds, EvictAndRequeue(sender, id)
          PROVE  W!EvictStep /\ StoresApart' /\ FramesApart(stack') /\ AccountsApart(accounts')
      <3>1. W!EvictAndRequeue(sender, id) /\ StoresApart'
        BY <1>1, <2>1, EvictAndRequeueWhole
      <3>2. stack' = stack /\ accounts' = accounts
        BY <2>1 DEF EvictAndRequeue, MayRequeue, Requeued, RequeueCharge
      <3>. QED
        BY <1>2, <1>3, <1>4, <3>1, <3>2 DEF W!EvictStep
    <2>2. ASSUME NEW sender \in Senders, NEW id \in JobIds, EvictJob(sender, id)
          PROVE  W!EvictStep /\ StoresApart' /\ FramesApart(stack') /\ AccountsApart(accounts')
      <3>1. W!EvictJob(sender, id) /\ StoresApart'
        BY <1>1, <2>2, EvictJobWhole
      <3>2. stack' = stack /\ accounts' = accounts
        BY <2>2 DEF EvictJob, MayEvict, Requeued, Refund, Charge
      <3>. QED
        BY <1>2, <1>3, <1>4, <3>1, <3>2 DEF W!EvictStep
    <2>. QED
      BY <1>9, <2>1, <2>2 DEF EvictStep, W!Next
  <1>10. CASE ConfigStep
    <2>1. PICK sender \in Users, new \in Configs : UpdateConfig(sender, new)
      BY <1>10 DEF ConfigStep
    <2>2. W!UpdateConfig(sender, new) /\ StoresApart'
      BY <1>1, <2>1, UpdateConfigWhole
    <2>3. stack' = stack /\ accounts' = accounts
      BY <2>1 DEF UpdateConfig
    <2>. QED
      BY <1>3, <1>4, <2>2, <2>3 DEF W!ConfigStep, W!Next
  <1>11. CASE Tick
    BY <1>1, <1>3, <1>4, <1>11, TickWhole DEF Tick, W!Next
  <1>. QED
    BY <1>5, <1>6, <1>7, <1>8, <1>9, <1>10, <1>11 DEF Next

-----------------------------------------------------------------------------
(* The inductive invariant *)

\* What the upgrade leaves is a state of the whole.
LEMMA MigratedInitInv ==
  ASSUME MigratedInit
  PROVE  MInv
  <1>1. /\ config \in Configs /\ current_job_id = Cardinality(OldIds) + 1 /\ q = OldQ
        /\ pending = EmptyMap /\ finished = EmptyMap /\ accounts = OldAccounts
        /\ balance = OldBalance /\ stack = <<>>
        /\ cursor = [s \in Stores |-> 0] /\ done = {}
        /\ code = [addr \in AccountAddrs |-> IF addr \in Range(OldAccounts) THEN "old" ELSE "new"]
    BY DEF MigratedInit
  <1>2. /\ Waiting(OldPending, "pending") = DOMAIN OldPending
        /\ Waiting(OldFinished, "finished") = DOMAIN OldFinished
    <2>1. cursor["pending"] = 0 /\ cursor["finished"] = 0
      BY <1>1 DEF Stores
    <2>2. \A id \in DOMAIN OldPending \cup DOMAIN OldFinished : id \in Nat /\ id > 0
      BY OldStoresAssumption, BoundAssumption DEF IsMap, JobIds
    <2>. QED
      BY <2>1, <2>2 DEF Waiting
  <1>3. DOMAIN EmptyMap = {}
    BY DEF EmptyMap
  <1>4. /\ AllPending = [id \in DOMAIN OldPending |-> Converted(OldPending[id])]
        /\ AllFinished = [id \in DOMAIN OldFinished |-> Converted(OldFinished[id])]
    BY <1>1, <1>2, <1>3 DEF AllPending, AllFinished, WholePending, WholeFinished, WithWaiting
  <1>5. AllStack = <<>>
    BY <1>1, WholeNothing DEF AllStack
  <1>6. ASSUME NEW job \in JobType
        PROVE  /\ Converted(job) \in JobType /\ Converted(job).status = job.status
               /\ Converted(job).owner = job.owner
    BY <1>6 DEF Converted, JobType, Kinds
  <1>7. IsMap(AllPending, JobIds, JobType) /\ IsMap(AllFinished, JobIds, JobType)
    BY <1>4, <1>6, OldStoresAssumption DEF IsMap
  <1>8. /\ \A id \in DOMAIN AllPending :
             AllPending[id].status = "Pending" /\ AllPending[id].owner \in DOMAIN accounts
        /\ \A id \in DOMAIN AllFinished : AllFinished[id].status \in Terminal
    BY <1>1, <1>4, <1>6, OldStoresAssumption DEF IsMap
  <1>9. /\ Cardinality(OldIds) \in Nat /\ Cardinality(OldIds) <= MaxJobs
        /\ OldIds = 1..Cardinality(OldIds)
    <2>1. IsFiniteSet(OldIds)
      BY OldKeys, FS_Union DEF OldIds
    <2>2. Cardinality(OldIds) \in Nat
      BY <2>1, FS_CardinalityType
    <2>3. Cardinality(OldIds) > 0 => Cardinality(OldIds) \in 1..MaxJobs
      BY <2>2, OldStoresAssumption DEF JobIds
    <2>. QED
      BY <2>2, <2>3, OldStoresAssumption, BoundAssumption
  <1>10. /\ DOMAIN AllPending \cap DOMAIN AllFinished = {}
         /\ DOMAIN AllPending \cup DOMAIN AllFinished = 1..(current_job_id - 1)
    <2>1. current_job_id - 1 = Cardinality(OldIds)
      BY <1>1, <1>9
    <2>. QED
      BY <1>4, <1>9, <2>1, OldStoresAssumption DEF OldIds
  <1>11. PICK whole : whole = W!Storage
    OBVIOUS
  <1>12. /\ whole.config = config /\ whole.current_job_id = current_job_id /\ whole.q = q
         /\ whole.pending = AllPending /\ whole.finished = AllFinished
         /\ whole.accounts = accounts /\ whole.balance = balance
    BY <1>11 DEF W!Storage
  <1>13. W!StorageOK(whole)
    <2>1. config \in ConfigType
      BY <1>1, InputAssumption
    <2>2. current_job_id \in 1..(MaxJobs + 1) /\ q \in Nat
      BY <1>1, <1>9, OldStoresAssumption, BoundAssumption
    <2>3. IsMap(accounts, Users, AccountAddrs) /\ balance \in [Addresses -> Nat]
      BY <1>1, OldStoresAssumption
    <2>. QED
      BY <1>7, <1>12, <2>1, <2>2, <2>3, SameTypes, SameMaps DEF W!StorageOK
  <1>14. W!StoresPartition(whole)
    BY <1>8, <1>10, <1>12, SameTypes DEF W!StoresPartition
  <1>15. W!QueueCovers(whole)
    <2>1. DOMAIN AllPending = DOMAIN OldPending
      BY <1>4
    <2>2. q >= Cardinality(DOMAIN AllPending)
      BY <1>1, <2>1, OldStoresAssumption
    <2>. QED
      BY <1>12, <2>2, SameSizes DEF W!QueueCovers
  <1>16. W!IInv
    <2>1. AllStack \in Seq(W!Range(AllStack)) /\ Len(AllStack) = 0 /\ DOMAIN AllStack = {}
      BY <1>5, EmptySeq
    <2>. QED
      BY <1>11, <1>13, <1>14, <1>15, <2>1, BoundAssumption
         DEF W!IInv, W!StorageInv, W!StackOK
  <1>17. Apart(Storage)
    <2>1. \A o \in DOMAIN accounts : Rank[o] > cursor["accounts"]
      BY <1>1, OldStoresAssumption DEF IsMap, Stores
    <2>2. IsFcn(EmptyMap)
      BY DEF IsFcn, EmptyMap
    <2>. QED
      BY <1>1, <1>3, <2>1, <2>2, OldStoresAssumption DEF Apart, Storage
  <1>18. MTypeOK
    BY <1>1 DEF MTypeOK, Stores
  <1>. QED
    BY <1>1, <1>16, <1>17, <1>18, EmptySeq DEF MInv

LEMMA MigrationNextInv ==
  ASSUME MInv, [MigrationNext]_all_vars
  PROVE  MInv' /\ [W!Next]_(W!vars)
  <1>1. CASE Handler
    <2>1. Next /\ UNCHANGED migration_vars
      BY <1>1 DEF Handler
    <2>. QED
      BY <2>1, HandlerWhole, KeepsInv
  <1>2. ASSUME NEW store \in Stores, MigrationStep(store)
        PROVE  MInv' /\ UNCHANGED W!vars
    BY <1>2, PendingPage, FinishedPage, AccountsPage DEF MigrationStep
  <1>3. CASE UNCHANGED all_vars
    <2>1. UNCHANGED vars /\ UNCHANGED migration_vars
      BY <1>3 DEF all_vars
    <2>2. UNCHANGED W!vars
      BY <2>1, SameCursors DEF vars, migration_vars, W!vars
    <2>3. StoresApart' /\ FramesApart(stack') /\ AccountsApart(accounts')
      BY <2>1, NowIds, SameCursors
         DEF vars, migration_vars, MInv, StoresApart, FramesApart, AccountsApart, Apart, Storage
    <2>. QED
      BY <2>1, <2>2, <2>3, KeepsInv
  <1>. QED
    BY <1>1, <1>2, <1>3 DEF MigrationNext

\* The inductive invariant holds in every state of a migration.
LEMMA MigrationInvariance == MigrationSpec => []MInv
  <1>1. MigratedInit => MInv
    BY MigratedInitInv
  <1>2. MInv /\ [MigrationNext]_all_vars => MInv'
    BY MigrationNextInv
  <1>. QED
    BY <1>1, <1>2, PTL DEF MigrationSpec

-----------------------------------------------------------------------------
(* The theorems *)

\* The instance here and the one of JobMigration are copies of one module.
LEMMA SameNext == [W!Next]_(W!vars) => [Whole!Next]_(Whole!vars)
  <1>1. UNCHANGED W!vars => UNCHANGED Whole!vars
    BY DEF W!vars, Whole!vars
  <1>2. W!AccountStep => Whole!AccountStep
    BY Zenon DEF W!AccountStep, Whole!AccountStep, W!OpenAccount, Whole!OpenAccount,
                 W!FundAccount, Whole!FundAccount, W!IsAccount, Whole!IsAccount, W!Senders,
                 Whole!Senders, W!MayAct, Whole!MayAct, W!CallsOut, Whole!CallsOut, W!Top,
                 Whole!Top, W!Range, Whole!Range, W!Payment, Whole!Payment, W!Affords,
                 Whole!Affords, W!AffordsBoth, Whole!AffordsBoth, W!After, Whole!After, W!Save,
                 Whole!Save
  <1>3. W!SpendStep => Whole!SpendStep
    BY Zenon DEF W!SpendStep, Whole!SpendStep, W!SpendFromAccount, Whole!SpendFromAccount,
                 W!MayAct, Whole!MayAct, W!CallsOut, Whole!CallsOut, W!Top, Whole!Top, W!Range,
                 Whole!Range, W!Payment, Whole!Payment, W!Affords, Whole!Affords, W!AffordsBoth,
                 Whole!AffordsBoth, W!After, Whole!After
  <1>4. W!JobStep => Whole!JobStep
    BY Zenon DEF W!JobStep, Whole!JobStep, W!CreateJob, Whole!CreateJob, W!DeleteJob,
                 Whole!DeleteJob, W!UpdateJob, Whole!UpdateJob, W!HasAccount, Whole!HasAccount,
                 W!OwnerOf, Whole!OwnerOf, W!IsAccount, Whole!IsAccount, W!Enqueue,
                 Whole!Enqueue, W!Settle, Whole!Settle, W!Finish, Whole!Finish, W!NewJob,
                 Whole!NewJob, W!Remainder, Whole!Remainder, W!AddReward, Whole!AddReward,
                 W!Senders, Whole!Senders, W!JobIds, Whole!JobIds, W!MayAct, Whole!MayAct,
                 W!CallsOut, Whole!CallsOut, W!Top, Whole!Top, W!Range, Whole!Range, W!Payment,
                 Whole!Payment, W!Affords, Whole!Affords, W!AffordsBoth, Whole!AffordsBoth,
                 W!After, Whole!After, W!AfterBoth, Whole!AfterBoth, W!Fee, Whole!Fee, W!Storage,
                 Whole!Storage, W!Save, Whole!Save, W!Remove, Whole!Remove, W!WithoutJob,
                 Whole!WithoutJob, W!MayDelete, W!CancellationFee, W!Refund, W!Charge,
                 Whole!MayDelete, Whole!CancellationFee, Whole!Refund, Whole!Charge,
                 W!CanLeaveQueue, Whole!CanLeaveQueue
  <1>5. W!ExecuteStep => Whole!ExecuteStep
    BY Zenon DEF W!ExecuteStep, Whole!ExecuteStep, W!CanExecute, Whole!CanExecute,
                 W!ExecuteInvalidJob, Whole!ExecuteInvalidJob, W!ExecuteJob, Whole!ExecuteJob,
                 W!JobSucceeds, Whole!JobSucceeds, W!JobFails, Whole!JobFails, W!JobReply,
                 Whole!JobReply, W!Recurs, Whole!Recurs, W!WithdrawNative, Whole!WithdrawNative,
                 W!PayKeeper, Whole!PayKeeper, W!CallFails, Whole!CallFails, W!Restore,
                 Whole!Restore, W!Enqueue, Whole!Enqueue, W!Settle, Whole!Settle, W!Finish,
                 Whole!Finish, W!NewJob, Whole!NewJob, W!Senders, Whole!Senders, W!JobIds,
                 Whole!JobIds, W!MayAct, Whole!MayAct, W!CallsOut, Whole!CallsOut, W!Top,
                 Whole!Top, W!Range, Whole!Range, W!Payment, Whole!Payment, W!Affords,
                 Whole!Affords, W!AffordsBoth, Whole!AffordsBoth, W!After, Whole!After,
                 W!AfterBoth, Whole!AfterBoth, W!Fee, Whole!Fee, W!Storage, Whole!Storage,
                 W!Save, Whole!Save, W!Remove, Whole!Remove, W!WithoutJob, Whole!WithoutJob,
                 W!CanLeaveQueue, Whole!CanLeaveQueue
  <1>6. W!EvictStep => Whole!EvictStep
    BY Zenon DEF W!EvictStep, Whole!EvictStep, W!EvictAndRequeue, Whole!EvictAndRequeue,
                 W!EvictJob, Whole!EvictJob, W!Evictable, Whole!Evictable, W!EvictionFee,
                 Whole!EvictionFee, W!EvictionPeriod, Whole!EvictionPeriod, W!Remainder,
                 Whole!Remainder, W!Settle, Whole!Settle, W!Finish, Whole!Finish, W!Senders,
                 Whole!Senders, W!JobIds, Whole!JobIds, W!MayAct, Whole!MayAct, W!CallsOut,
                 Whole!CallsOut, W!Top, Whole!Top, W!Range, Whole!Range, W!Payment,
                 Whole!Payment, W!Affords, Whole!Affords, W!AffordsBoth, Whole!AffordsBoth,
                 W!After, Whole!After, W!AfterBoth, Whole!AfterBoth, W!Storage, Whole!Storage,
                 W!Save, Whole!Save, W!Remove, Whole!Remove, W!WithoutJob, Whole!WithoutJob,
                 W!MayRequeue, W!Requeued, W!RequeueCharge, Whole!MayRequeue, Whole!Requeued,
                 Whole!RequeueCharge, W!MayEvict, W!Refund, W!Charge, Whole!MayEvict,
                 Whole!Refund, Whole!Charge, W!CanLeaveQueue, Whole!CanLeaveQueue
  <1>7. W!ConfigStep => Whole!ConfigStep
    BY Zenon DEF W!ConfigStep, Whole!ConfigStep, W!UpdateConfig, Whole!UpdateConfig,
                 W!ValidConfig, Whole!ValidConfig, W!MayAct, Whole!MayAct, W!CallsOut,
                 Whole!CallsOut, W!Top, Whole!Top, W!Range, Whole!Range
  <1>8. W!Tick => Whole!Tick
    BY Zenon DEF W!Tick, Whole!Tick, W!Older, Whole!Older
  <1>9. W!Next => Whole!Next
    BY <1>2, <1>3, <1>4, <1>5, <1>6, <1>7, <1>8 DEF W!Next, Whole!Next
  <1>. QED
    BY <1>1, <1>9

\* The refinement: a migrating controller behaves like one that had all the jobs
\* from the start.
THEOREM MigrationRefines == MigrationSpec => MigrationInvisible
  <1>1. MigratedInit => MInv
    BY MigratedInitInv
  <1>2. MInv /\ [MigrationNext]_all_vars => MInv'
    BY MigrationNextInv
  <1>3. MInv /\ [MigrationNext]_all_vars => [Whole!Next]_(Whole!vars)
    BY MigrationNextInv, SameNext
  <1>. QED
    BY <1>1, <1>2, <1>3, PTL DEF MigrationSpec, MigrationInvisible

\* Each id is in one place: those of the whole are in one store each, and what
\* waits is apart from what is copied.
THEOREM JobsInOnePlace == MigrationSpec => []EachJobOnce
  <1>1. ASSUME MInv
        PROVE  EachJobOnce
    <2>1. PICK places : places = <<Waiting(OldPending, "pending"),
                                   Waiting(OldFinished, "finished"),
                                   DOMAIN pending, DOMAIN finished>>
      OBVIOUS
    <2>2. W!StoresPartition(W!Storage)
      BY <1>1 DEF MInv, W!IInv, W!StorageInv
    <2>3. /\ DOMAIN AllPending \cap DOMAIN AllFinished = {}
          /\ DOMAIN AllPending \cup DOMAIN AllFinished = 1..(current_job_id - 1)
      BY <2>2 DEF W!StoresPartition, W!Storage
    <2>4. /\ DOMAIN AllPending = DOMAIN pending \cup Waiting(OldPending, "pending")
          /\ DOMAIN AllFinished = DOMAIN finished \cup Waiting(OldFinished, "finished")
      BY WholeJobs DEF AllPending, AllFinished
    <2>5. StoresApart
      BY <1>1, NowIds
    <2>6. /\ DOMAIN places = 1..4
          /\ places[1] = Waiting(OldPending, "pending")
          /\ places[2] = Waiting(OldFinished, "finished")
          /\ places[3] = DOMAIN pending /\ places[4] = DOMAIN finished
      BY <2>1
    <2>7. UNION Range(places) = places[1] \cup places[2] \cup places[3] \cup places[4]
      <3>1. Range(places) = {places[1], places[2], places[3], places[4]}
        BY <2>6 DEF Range
      <3>. QED
        BY <3>1
    <2>8. UNION Range(places) = 1..(current_job_id - 1)
      BY <2>3, <2>4, <2>6, <2>7
    <2>9. \A i, j \in DOMAIN places : i # j => places[i] \cap places[j] = {}
      BY <2>3, <2>4, <2>5, <2>6 DEF StoresApart
    <2>. QED
      BY <2>1, <2>8, <2>9 DEF EachJobOnce
  <1>. QED
    BY <1>1, MigrationInvariance, PTL

\* q counts the whole queue, the part that waits included.
THEOREM QueueCoversAll == MigrationSpec => []QueueCoversWaiting
  <1>1. ASSUME MInv
        PROVE  QueueCoversWaiting
    <2>1. PICK waits : waits = Waiting(OldPending, "pending")
      OBVIOUS
    <2>2. /\ W!QueueCovers(W!Storage) /\ W!StorageOK(W!Storage)
      BY <1>1 DEF MInv, W!IInv, W!StorageInv
    <2>3. q >= Cardinality(DOMAIN AllPending) /\ q \in Nat
      BY <2>2, SameSizes DEF W!QueueCovers, W!StorageOK, W!Storage
    <2>4. DOMAIN AllPending = DOMAIN pending \cup waits
      BY <2>1, WholeJobs DEF AllPending
    <2>5. DOMAIN pending \cap waits = {}
      BY <1>1, <2>1, NowIds DEF StoresApart
    <2>6. IsFiniteSet(DOMAIN AllPending)
      <3>1. DOMAIN AllPending \subseteq JobIds
        BY <2>2, SameMaps, SameTypes DEF W!StorageOK, W!Storage, IsMap
      <3>2. IsFiniteSet(JobIds)
        BY BoundAssumption, FS_Interval DEF JobIds
      <3>. QED
        BY <3>1, <3>2, FS_Subset
    <2>7. IsFiniteSet(DOMAIN pending) /\ IsFiniteSet(waits)
      BY <2>4, <2>6, FS_Subset
    <2>8. /\ Cardinality(DOMAIN pending \cup waits)
               = Cardinality(DOMAIN pending) + Cardinality(waits)
                   - Cardinality(DOMAIN pending \cap waits)
          /\ Cardinality(DOMAIN pending) \in Nat /\ Cardinality(waits) \in Nat
      BY <2>7, FS_Union, FS_CardinalityType
    <2>9. Cardinality(DOMAIN pending \cap waits) = 0
      BY <2>5, FS_EmptySet
    <2>. QED
      BY <2>1, <2>3, <2>4, <2>8, <2>9 DEF QueueCoversWaiting
  <1>. QED
    BY <1>1, MigrationInvariance, PTL

\* The pages over ACCOUNTS leave no account behind.
THEOREM AllAccountsUpgraded == MigrationSpec => []AccountsUpgraded
  <1>1. MInv => AccountsUpgraded
    BY DEF MInv, Apart, Storage, AccountsUpgraded
  <1>. QED
    BY <1>1, MigrationInvariance, PTL

\* A storage has its type if the whole of it has.
LEMMA PartTyped ==
  ASSUME NEW s, IsStorage(s), W!StorageInv(WholeStorage(s)), Apart(s)
  PROVE  StorageOK(s)
  <1>1. PICK whole : whole = WholeStorage(s)
    OBVIOUS
  <1>2. /\ whole.config = s.config /\ whole.current_job_id = s.current_job_id /\ whole.q = s.q
        /\ whole.pending = WholePending(s.pending) /\ whole.finished = WholeFinished(s.finished)
        /\ whole.accounts = s.accounts /\ whole.balance = s.balance
    BY <1>1, WholeFields
  <1>3. W!StorageOK(whole)
    BY <1>1 DEF W!StorageInv
  <1>4. /\ s.config \in ConfigType /\ s.current_job_id \in 1..(MaxJobs + 1) /\ s.q \in Nat
        /\ IsMap(whole.pending, JobIds, JobType) /\ IsMap(whole.finished, JobIds, JobType)
        /\ IsMap(s.accounts, Users, AccountAddrs) /\ s.balance \in [Addresses -> Nat]
    BY <1>2, <1>3, SameTypes, SameMaps DEF W!StorageOK
  <1>5. IsMap(s.pending, JobIds, JobType)
    <2>1. DOMAIN s.pending \subseteq DOMAIN whole.pending
      BY <1>2, WholeJobs
    <2>2. \A id \in DOMAIN s.pending : s.pending[id] = whole.pending[id]
      BY <1>2, WholeJobs
    <2>. QED
      BY <1>4, <2>1, <2>2 DEF IsMap, Apart, IsFcn
  <1>6. IsMap(s.finished, JobIds, JobType)
    <2>1. DOMAIN s.finished \subseteq DOMAIN whole.finished
      BY <1>2, WholeJobs
    <2>2. \A id \in DOMAIN s.finished : s.finished[id] = whole.finished[id]
      BY <1>2, WholeJobs
    <2>. QED
      BY <1>4, <2>1, <2>2 DEF IsMap, Apart, IsFcn
  <1>. QED
    BY <1>4, <1>5, <1>6 DEF StorageOK

\* Every variable has its type while the new maps fill up, and so has every
\* storage that a failing call would put back.
THEOREM MigrationTyped == MigrationSpec => []MigrationTypeOK
  <1>1. ASSUME MInv
        PROVE  MigrationTypeOK
    <2>1. StorageOK(Storage)
      BY <1>1, StorageIsWhole, PartTyped DEF MInv, W!IInv
    <2>2. /\ stack \in Seq(Range(stack)) /\ Len(AllStack) = Len(stack)
          /\ DOMAIN stack = 1..Len(stack) /\ DOMAIN AllStack = 1..Len(stack)
          /\ \A i \in DOMAIN stack : AllStack[i] = WholeFrame(stack[i])
      BY <1>1, WholeLength DEF MInv, AllStack
    <2>3. Len(stack) <= MaxDepth
      BY <1>1, <2>2 DEF MInv, W!IInv, W!StackOK
    <2>4. ASSUME NEW i \in DOMAIN stack
          PROVE  FrameOK(stack[i])
      <3>1. PICK f : f = stack[i]
        OBVIOUS
      <3>2. IsFrame(f) /\ Apart(f.before) /\ IsStorage(f.before)
        BY <1>1, <3>1 DEF MInv, IsFrame
      <3>3. PICK w : w = AllStack[i]
        OBVIOUS
      <3>4. /\ w.id = f.id /\ w.account = f.account /\ w.keeper = f.keeper
            /\ w.reward = f.reward /\ w.phase = f.phase /\ w.callback = f.callback
            /\ w.before = WholeStorage(f.before)
        BY <2>2, <3>1, <3>2, <3>3, FrameFields
      <3>5. W!FrameOK(w) /\ W!StorageInv(w.before)
        BY <1>1, <2>2, <3>3 DEF MInv, W!IInv, W!FrameInv
      <3>6. StorageOK(f.before)
        BY <3>2, <3>4, <3>5, PartTyped
      <3>. QED
        BY <3>1, <3>4, <3>5, <3>6, SameTypes DEF W!FrameOK, FrameOK
    <2>. QED
      BY <1>1, <2>1, <2>2, <2>3, <2>4 DEF MInv, MTypeOK, MigrationTypeOK, TypeOK
  <1>. QED
    BY <1>1, MigrationInvariance, PTL

-----------------------------------------------------------------------------
(* The escrow of the whole *)

LEMMA SameSums == \A f, S : W!SumFunctionOnSet(f, S) = SumFunctionOnSet(f, S)
  <1>1. \A f, S : W!Solution(f, S) = Solution(f, S)
    BY Zenon DEF W!Solution, Solution, W!Solves, Solves, W!Step, Step, W!Pick, Pick, W!Plus, Plus
  <1>2. ASSUME NEW f, NEW S
        PROVE  W!SumFunctionOnSet(f, S) = SumFunctionOnSet(f, S)
    <2>1. W!SumFunctionOnSet(f, S) = W!Solution(f, S)[S]
      BY W!SumIsSolution, SameTypes, AddressAssumption, InputAssumption, BoundAssumption
    <2>2. SumFunctionOnSet(f, S) = Solution(f, S)[S]
      BY SumIsSolution
    <2>. QED
      BY <1>1, <2>1, <2>2, Zenon
  <1>. QED
    BY <1>2

LEMMA SameEscrow == \A jobs : W!Escrowed(jobs) = Escrowed(jobs)
  BY SameSums, Zenon DEF W!Escrowed, Escrowed

LEMMA EscrowOfPart ==
  ASSUME NEW jobs, NEW S
  PROVE  Escrowed([id \in S |-> jobs[id]])
           = SumFunctionOnSet([id \in S |-> jobs[id].reward], S)
  <1>1. ASSUME NEW w, w = [id \in S |-> jobs[id]]
        PROVE  Escrowed(w) = SumFunctionOnSet([id \in S |-> jobs[id].reward], S)
    <2>1. DOMAIN w = S /\ [id \in DOMAIN w |-> w[id].reward] = [id \in S |-> jobs[id].reward]
      BY <1>1
    <2>. QED
      BY <2>1, Zenon DEF Escrowed
  <1>. QED
    BY <1>1

\* What keepers are owed is a number of coins.
LEMMA OwedTyped ==
  ASSUME MInv
  PROVE  Owed \in Int
  <1>1. PICK replied : replied = {i \in DOMAIN stack : stack[i].phase = "replied"}
    OBVIOUS
  <1>. DEFINE f == [i \in replied |-> stack[i].reward]
  <1>2. /\ DOMAIN stack = 1..Len(stack) /\ Len(stack) \in Nat /\ DOMAIN AllStack = DOMAIN stack
        /\ \A i \in DOMAIN stack : AllStack[i] = WholeFrame(stack[i])
    BY WholeLength DEF MInv, AllStack
  <1>3. \A i \in DOMAIN stack : stack[i].reward \in Nat
    <2>1. \A i \in DOMAIN stack : W!FrameOK(AllStack[i])
      BY <1>2 DEF MInv, W!IInv, W!FrameInv
    <2>2. \A i \in DOMAIN stack : AllStack[i].reward = stack[i].reward
      BY <1>2, FrameFields DEF MInv
    <2>. QED
      BY <2>1, <2>2 DEF W!FrameOK
  <1>4. IsFiniteSet(replied)
    <2>1. IsFiniteSet(DOMAIN stack)
      BY <1>2, FS_Interval
    <2>. QED
      BY <1>1, <2>1, FS_Subset
  <1>5. \A i \in replied : f[i] \in Int
    BY <1>1, <1>3
  <1>6. Owed = SumFunctionOnSet(f, replied)
    BY <1>1, Zenon DEF Owed, OwedBy
  <1>. HIDE DEF f
  <1>. QED
    BY <1>4, <1>5, <1>6, SumType

\* The escrow of what is copied and of what waits.
LEMMA EscrowOfBoth ==
  ASSUME MInv
  PROVE  /\ Escrowed(AllPending)
              = Escrowed(pending)
                  + Escrowed([id \in Waiting(OldPending, "pending") |-> OldPending[id]])
         /\ Escrowed(pending) \in Int
         /\ Escrowed([id \in Waiting(OldPending, "pending") |-> OldPending[id]]) \in Int
  <1>. DEFINE waits == Waiting(OldPending, "pending")
              f == [id \in DOMAIN AllPending |-> AllPending[id].reward]
              g == [id \in DOMAIN pending |-> pending[id].reward]
              h == [id \in waits |-> OldPending[id].reward]
  <1>1. /\ DOMAIN AllPending = DOMAIN pending \cup waits
        /\ \A id \in DOMAIN pending : AllPending[id] = pending[id]
        /\ \A id \in waits \ DOMAIN pending : AllPending[id] = Converted(OldPending[id])
    BY WholeJobs DEF AllPending
  <1>2. DOMAIN pending \cap waits = {}
    BY NowIds DEF StoresApart
  <1>3. /\ IsMap(AllPending, JobIds, JobType) /\ IsMap(OldPending, JobIds, JobType)
        /\ waits \subseteq DOMAIN OldPending
    <2>1. W!StorageOK(W!Storage)
      BY DEF MInv, W!IInv, W!StorageInv
    <2>2. IsMap(AllPending, JobIds, JobType)
      BY <2>1, SameMaps, SameTypes DEF W!StorageOK, W!Storage
    <2>. QED
      BY <2>2, WaitingIds, OldStoresAssumption DEF MInv
  <1>4. ASSUME NEW job \in JobType
        PROVE  Converted(job).reward = job.reward /\ job.reward \in Nat
    BY <1>4 DEF Converted, JobType
  <1>5. \A id \in DOMAIN AllPending : f[id] \in Int
    BY <1>3, <1>4 DEF IsMap
  <1>6. \A id \in DOMAIN pending : g[id] = f[id]
    BY <1>1
  <1>7. \A id \in waits : h[id] = f[id]
    <2>1. \A id \in waits : OldPending[id] \in JobType
      BY <1>3 DEF IsMap
    <2>2. \A id \in waits : AllPending[id].reward = OldPending[id].reward
      BY <1>1, <1>2, <1>4, <2>1
    <2>. QED
      BY <1>1, <2>2
  <1>8. IsFiniteSet(DOMAIN pending) /\ IsFiniteSet(waits)
    <2>1. IsFiniteSet(DOMAIN AllPending)
      <3>1. IsFiniteSet(JobIds)
        BY BoundAssumption, FS_Interval DEF JobIds
      <3>. QED
        BY <1>3, <3>1, FS_Subset DEF IsMap
    <2>. QED
      BY <1>1, <2>1, FS_Subset
  <1>9. /\ Escrowed(AllPending) = SumFunctionOnSet(f, DOMAIN pending \cup waits)
        /\ Escrowed(pending) = SumFunctionOnSet(g, DOMAIN pending)
    BY <1>1 DEF Escrowed
  <1>10. Escrowed([id \in waits |-> OldPending[id]]) = SumFunctionOnSet(h, waits)
    BY EscrowOfPart
  <1>. HIDE DEF f, g, h
  <1>11. SumFunctionOnSet(g, DOMAIN pending) = SumFunctionOnSet(f, DOMAIN pending)
    BY <1>6, <1>8, SumCongruence
  <1>12. SumFunctionOnSet(h, waits) = SumFunctionOnSet(f, waits)
    BY <1>7, <1>8, SumCongruence
  <1>. HIDE DEF waits
  <1>13. SumFunctionOnSet(f, DOMAIN pending \cup waits)
           = SumFunctionOnSet(f, DOMAIN pending) + SumFunctionOnSet(f, waits)
    <2>1. \A id \in waits \cup DOMAIN pending : f[id] \in Int
      BY <1>1, <1>5
    <2>2. waits \cap DOMAIN pending = {}
      BY <1>2
    <2>. QED
      BY <1>8, <2>1, <2>2, SumUnion
  <1>14. SumFunctionOnSet(f, DOMAIN pending) \in Int /\ SumFunctionOnSet(f, waits) \in Int
    BY <1>1, <1>5, <1>8, SumType
  <1>15. Escrowed(pending) \in Int /\ Escrowed([id \in waits |-> OldPending[id]]) \in Int
    BY <1>9, <1>10, <1>11, <1>12, <1>14, Zenon
  <1>16. Escrowed(AllPending) = Escrowed(pending) + Escrowed([id \in waits |-> OldPending[id]])
    BY <1>9, <1>10, <1>11, <1>12, <1>13, Zenon
  <1>. QED
    BY <1>16, <1>15 DEF waits

\* The jobs of the version before are jobs a controller could have.
LEMMA MigratedInitLife ==
  ASSUME MigratedInit
  PROVE  W!LifeInv
  <1>1. /\ pending = EmptyMap /\ finished = EmptyMap /\ stack = <<>>
        /\ current_job_id = Cardinality(OldIds) + 1
        /\ cursor = [s \in Stores |-> 0]
    BY DEF MigratedInit
  <1>2. DOMAIN EmptyMap = {}
    BY DEF EmptyMap
  <1>3. /\ DOMAIN AllPending \subseteq DOMAIN OldPending
        /\ DOMAIN AllFinished \subseteq DOMAIN OldFinished
        /\ \A id \in DOMAIN AllPending : AllPending[id] = Converted(OldPending[id])
        /\ \A id \in DOMAIN AllFinished : AllFinished[id] = Converted(OldFinished[id])
    BY <1>1, <1>2, WholeJobs DEF AllPending, AllFinished, Waiting
  <1>4. ASSUME NEW job \in JobType
        PROVE  Converted(job).reward = job.reward /\ Converted(job).name = job.name
    BY <1>4 DEF Converted, JobType
  <1>5. /\ \A id \in DOMAIN OldPending : /\ OldPending[id] \in JobType /\ OldPending[id].reward > 0
                                         /\ OldPending[id].name = id
        /\ \A id \in DOMAIN OldFinished : OldFinished[id] \in JobType /\ OldFinished[id].reward > 0
    BY OldStoresAssumption DEF IsMap
  <1>6. /\ \A id \in DOMAIN AllPending : AllPending[id].reward > 0 /\ AllPending[id].name = id
        /\ \A id \in DOMAIN AllFinished : AllFinished[id].reward > 0
    BY <1>3, <1>4, <1>5
  <1>7. \A id \in DOMAIN AllPending : id < current_job_id
    <2>1. DOMAIN AllPending \subseteq 1..(current_job_id - 1) /\ current_job_id \in Nat
      BY MigratedInitInv DEF MInv, W!IInv, W!StorageInv, W!StoresPartition, W!StorageOK, W!Storage
    <2>. QED
      BY <2>1
  <1>8. PICK whole : whole = W!Storage
    OBVIOUS
  <1>9. /\ whole.pending = AllPending /\ whole.finished = AllFinished
        /\ whole.current_job_id = current_job_id
    BY <1>8 DEF W!Storage
  <1>10. W!Good(whole)
    BY <1>6, <1>7, <1>9 DEF W!Good, W!Paid, W!OneEach
  <1>11. AllStack = <<>>
    BY <1>1, WholeNothing DEF AllStack
  <1>. QED
    BY <1>8, <1>10, <1>11 DEF W!LifeInv

\* The coins of the version before are the rewards of the jobs that wait.
LEMMA MigratedInitExact ==
  ASSUME MigratedInit, Contracts = {}
  PROVE  W!EscrowInv /\ W!ExactInv
  <1>1. AllStack = <<>> /\ DOMAIN AllStack = {} /\ Len(AllStack) = 0
    BY WholeNothing DEF MigratedInit, AllStack
  <1>2. MInv
    BY MigratedInitInv
  <1>3. W!Escrowed(AllPending) = balance[Controller]
    <2>1. /\ pending = EmptyMap /\ cursor["pending"] = 0
          /\ balance[Controller] = Escrowed(OldPending)
      BY OldStoresAssumption DEF MigratedInit, Stores
    <2>2. DOMAIN EmptyMap = {}
      BY DEF EmptyMap
    <2>3. Escrowed(pending) = 0
      <3>. DEFINE f == [id \in DOMAIN pending |-> pending[id].reward]
      <3>2. Escrowed(pending) = SumFunctionOnSet(f, {})
        BY <2>1, <2>2, Zenon DEF Escrowed
      <3>. HIDE DEF f
      <3>. QED
        BY <3>2, FS_EmptySet, SumUnfold
    <2>4. Waiting(OldPending, "pending") = DOMAIN OldPending
      <3>1. \A id \in DOMAIN OldPending : id \in Nat /\ id > 0
        BY OldStoresAssumption, BoundAssumption DEF IsMap, JobIds
      <3>. QED
        BY <2>1, <3>1 DEF Waiting
    <2>5. PICK rewards : rewards = Escrowed(OldPending)
      OBVIOUS
    <2>6. rewards \in Nat
      BY <2>1, <2>5, OldStoresAssumption, AddressAssumption DEF MigratedInit, Addresses
    <2>7. Escrowed([id \in DOMAIN OldPending |-> OldPending[id]]) = rewards
      BY <2>5, EscrowOfPart, Zenon DEF Escrowed
    <2>8. Escrowed(AllPending) = 0 + rewards
      BY <1>2, <2>3, <2>4, <2>7, EscrowOfBoth, Zenon
    <2>. QED
      BY <2>1, <2>5, <2>6, <2>8, SameEscrow
  <1>4. balance[Controller] \in Nat
    BY OldStoresAssumption, AddressAssumption DEF MigratedInit, Addresses
  <1>5. W!Held(W!Storage) = 0
    BY <1>3, <1>4 DEF W!Held, W!Storage
  <1>6. W!OwedUpTo(AllStack, Len(AllStack)) = 0
    BY <1>1, W!OwedNothing, SameTypes, AddressAssumption, InputAssumption, BoundAssumption
  <1>. QED
    BY <1>1, <1>5, <1>6 DEF W!EscrowInv, W!ExactInv, W!Free

LEMMA WholeLife ==
  ASSUME W!IInv, W!IInv', W!LifeInv, [W!Next]_(W!vars)
  PROVE  W!LifeInv'
  BY W!NextLife, SameTypes, AddressAssumption, InputAssumption, BoundAssumption

LEMMA WholeApart ==
  ASSUME \A c \in Configs : c.fee_collector # Controller,
         W!IInv, W!IInv', W!ApartInv, [W!Next]_(W!vars)
  PROVE  W!ApartInv'
  BY W!NextApart, SameTypes, AddressAssumption, InputAssumption, BoundAssumption

LEMMA WholeExact ==
  ASSUME W!IInv, W!IInv', W!LifeInv, W!LifeInv', W!EscrowInv, W!ApartInv, W!ExactInv,
         Contracts = {}, [W!Next]_(W!vars)
  PROVE  W!EscrowInv' /\ W!ExactInv'
  <1>1. W!EscrowInv'
    BY W!NextEscrow, SameTypes, AddressAssumption, InputAssumption, BoundAssumption
  <1>2. W!ExactInv'
    BY W!NextExact, SameTypes, AddressAssumption, InputAssumption, BoundAssumption
  <1>. QED
    BY <1>1, <1>2

\* What keepers are owed is the same of the whole and of its part.
LEMMA SameOwed ==
  ASSUME MInv
  PROVE  W!Owed = Owed
  <1>1. /\ DOMAIN stack = 1..Len(stack) /\ DOMAIN AllStack = DOMAIN stack
        /\ \A i \in DOMAIN stack : AllStack[i] = WholeFrame(stack[i])
    BY WholeLength DEF MInv, AllStack
  <1>2. \A i \in DOMAIN stack : /\ AllStack[i].phase = stack[i].phase
                                /\ AllStack[i].reward = stack[i].reward
    BY <1>1, FrameFields DEF MInv
  <1>3. PICK replied : replied = {i \in DOMAIN stack : stack[i].phase = "replied"}
    OBVIOUS
  <1>4. {i \in DOMAIN AllStack : AllStack[i].phase = "replied"} = replied
    BY <1>1, <1>2, <1>3
  <1>5. [i \in replied |-> AllStack[i].reward] = [i \in replied |-> stack[i].reward]
    BY <1>2, <1>3
  <1>6. Owed = SumFunctionOnSet([i \in replied |-> stack[i].reward], replied)
    BY <1>3, Zenon DEF Owed, OwedBy
  <1>7. W!Owed = W!SumFunctionOnSet([i \in replied |-> AllStack[i].reward], replied)
    BY <1>4, Zenon DEF W!Owed, W!OwedBy
  <1>. QED
    BY <1>5, <1>6, <1>7, SameSums, Zenon

\* The rewards of the jobs that wait stay in the controller, to the coin, where
\* no job can call a contract and no fee is the controller's own.
THEOREM WaitingRewardsKept ==
  ASSUME \A c \in Configs : c.fee_collector # Controller
  PROVE  MigrationSpec => []EscrowCoversWaiting
  <1>. DEFINE Quiet == Contracts = {} => W!EscrowInv /\ W!ExactInv
              EInv == MInv /\ W!LifeInv /\ W!ApartInv /\ Quiet
  <1>1. ASSUME MigratedInit
        PROVE  EInv
    <2>1. W!ApartInv
      <3>1. DOMAIN AllStack = {} /\ config \in Configs
        BY <1>1, WholeNothing DEF MigratedInit, AllStack
      <3>. QED
        BY <3>1 DEF W!ApartInv, W!Apart, W!Storage
    <2>. QED
      BY <1>1, <2>1, MigratedInitInv, MigratedInitLife, MigratedInitExact
  <1>2. ASSUME EInv, [MigrationNext]_all_vars
        PROVE  EInv'
    <2>1. MInv' /\ [W!Next]_(W!vars)
      BY <1>2, MigrationNextInv
    <2>2. W!IInv /\ W!IInv'
      BY <1>2, <2>1 DEF MInv
    <2>3. W!LifeInv'
      BY <1>2, <2>1, <2>2, WholeLife
    <2>4. W!ApartInv'
      BY <1>2, <2>1, <2>2, WholeApart
    <2>5. Quiet'
      BY <1>2, <2>1, <2>2, <2>3, WholeExact
    <2>. QED
      BY <2>1, <2>3, <2>4, <2>5
  <1>3. ASSUME EInv
        PROVE  EscrowCoversWaiting
    <2>1. ASSUME Contracts = {}
          PROVE  balance[Controller] = Escrowed(pending) + Owed
                   + Escrowed([id \in Waiting(OldPending, "pending") |-> OldPending[id]])
      <3>1. W!IInv /\ W!EscrowInv /\ W!ExactInv
        BY <1>3, <2>1 DEF MInv
      <3>2. balance[Controller] = W!Escrowed(AllPending) + W!Owed
        BY <3>1, W!ExactEscrow, SameTypes, AddressAssumption, InputAssumption, BoundAssumption
      <3>3. PICK waits : waits = [id \in Waiting(OldPending, "pending") |-> OldPending[id]]
        OBVIOUS
      <3>4. PICK a, b, c : a = Escrowed(pending) /\ b = Escrowed(waits) /\ c = Owed
        OBVIOUS
      <3>5. balance[Controller] = (a + b) + c
        BY <1>3, <3>2, <3>3, <3>4, SameEscrow, SameOwed, EscrowOfBoth, Zenon
      <3>6. a \in Int /\ b \in Int /\ c \in Int
        BY <1>3, <3>3, <3>4, EscrowOfBoth, OwedTyped
      <3>7. balance[Controller] = a + c + b
        BY <3>5, <3>6
      <3>. QED
        BY <3>3, <3>4, <3>7, Zenon
    <2>. QED
      BY <2>1 DEF EscrowCoversWaiting
  <1>. HIDE DEF EInv
  <1>. QED
    BY <1>1, <1>2, <1>3, PTL DEF MigrationSpec

=============================================================================
