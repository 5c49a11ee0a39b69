------------------------- MODULE WarpAccount_proofs -------------------------
(***************************************************************************)
(* Proofs about WarpAccount, for any assets, lists of withdrawals, amounts *)
(* and timeouts: nothing is lost, a withdrawal leaves nothing of a listed  *)
(* coin or cw20 token, and a transfer does not come back before its delta  *)
(* of seconds is over.                                                     *)
(*                                                                         *)
(* The messages of a response run one after the other; what holds after    *)
(* each of them holds at the end, by induction over a set of positions.    *)
(***************************************************************************)
EXTENDS WarpAccount, SetTheorems

-----------------------------------------------------------------------------
(* The messages of a response, one by one *)

\* Induction over the positions of a sequence.
LEMMA EachPosition ==
  ASSUME NEW n \in Nat, NEW P, 0 \in P, \A i \in 1..n : i - 1 \in P => i \in P
  PROVE  \A i \in 0..n : i \in P
  <1>. DEFINE bad == {i \in 0..n : i \notin P}
  <1>1. ASSUME bad # {}
        PROVE  FALSE
    <2>1. bad \in SUBSET Int /\ IsFiniteSet(bad)
      <3>1. IsFiniteSet(0..n) /\ bad \subseteq 0..n
        BY FS_Interval
      <3>. QED
        BY <3>1, FS_Subset
    <2>2. PICK k \in bad : \A j \in bad : k <= j
      BY <1>1, <2>1, LeastKey
    <2>3. k \in 1..n /\ k - 1 \in 0..n /\ ~(k <= k - 1)
      BY <2>2
    <2>4. k - 1 \in P
      BY <2>2, <2>3
    <2>. QED
      BY <2>2, <2>3, <2>4
  <1>. QED
    BY <1>1

\* g has the ledgers before and after each of the first n messages.
LedgersAfter(g, l, msgs, n) ==
  g = [i \in 0..n |-> IF i = 0 THEN l ELSE AfterMessage(g[i - 1], msgs[i])]

LEMMA LedgersExist ==
  ASSUME NEW l, NEW msgs, NEW n \in Nat
  PROVE  \E g : LedgersAfter(g, l, msgs, n)
  <1>. DEFINE P == {i \in 0..n : \E g : LedgersAfter(g, l, msgs, i)}
  <1>1. 0 \in P
    <2>1. PICK g : g = [i \in 0..0 |-> l]
      OBVIOUS
    <2>2. LedgersAfter(g, l, msgs, 0)
      BY <2>1 DEF LedgersAfter
    <2>. QED
      BY <2>2
  <1>2. ASSUME NEW i \in 1..n, i - 1 \in P
        PROVE  i \in P
    <2>1. PICK g : LedgersAfter(g, l, msgs, i - 1)
      BY <1>2
    <2>2. PICK h : h = [k \in 0..i |-> IF k = i THEN AfterMessage(g[i - 1], msgs[i]) ELSE g[k]]
      OBVIOUS
    <2>3. \A k \in 0..i : h[k] = IF k = 0 THEN l ELSE AfterMessage(h[k - 1], msgs[k])
      <3>1. \A k \in 0..(i - 1) : g[k] = IF k = 0 THEN l ELSE AfterMessage(g[k - 1], msgs[k])
        BY <2>1 DEF LedgersAfter
      <3>2. \A k \in 0..(i - 1) : h[k] = g[k]
        BY <1>2, <2>2
      <3>3. h[i] = AfterMessage(h[i - 1], msgs[i])
        BY <1>2, <2>2, <3>2
      <3>4. ASSUME NEW k \in 0..(i - 1), k # 0
            PROVE  h[k] = AfterMessage(h[k - 1], msgs[k])
        <4>1. k - 1 \in 0..(i - 1)
          BY <1>2, <3>4
        <4>. QED
          BY <3>1, <3>2, <3>4, <4>1
      <3>5. h[0] = l
        BY <1>2, <3>1, <3>2
      <3>. QED
        BY <1>2, <3>3, <3>4, <3>5
    <2>4. LedgersAfter(h, l, msgs, i)
      BY <2>2, <2>3 DEF LedgersAfter
    <2>. QED
      BY <1>2, <2>4
  <1>3. \A i \in 0..n : i \in P
    <2>. HIDE DEF P
    <2>. QED
      BY <1>1, <1>2, EachPosition
  <1>. QED
    BY <1>3

\* Run goes through them.
Goes(g, l, msgs) ==
  /\ g[0] = l /\ Run(l, msgs) = g[Len(msgs)]
  /\ \A i \in 1..Len(msgs) : g[i] = AfterMessage(g[i - 1], msgs[i])

LEMMA RunSteps ==
  ASSUME NEW l, NEW msgs, Len(msgs) \in Nat
  PROVE  \E g : Goes(g, l, msgs)
  <1>1. PICK n \in Nat : n = Len(msgs)
    OBVIOUS
  <1>2. PICK g : g = CHOOSE h : LedgersAfter(h, l, msgs, n)
    OBVIOUS
  <1>3. LedgersAfter(g, l, msgs, n)
    BY <1>2, LedgersExist
  <1>4. Run(l, msgs) = g[n]
    BY <1>1, <1>2, Zenon DEF Run, LedgersAfter
  <1>5. \A i \in 0..n : g[i] = IF i = 0 THEN l ELSE AfterMessage(g[i - 1], msgs[i])
    BY <1>3 DEF LedgersAfter
  <1>. QED
    BY <1>1, <1>4, <1>5 DEF Goes

-----------------------------------------------------------------------------
(* What moves between holders stays the same in sum *)

LEMMA FiniteHolders == IsFiniteSet(Holders)
  <1>1. IsFiniteSet({Owner, WarpAddr, Account})
    <2>1. IsFiniteSet({} \cup {Owner})
      BY FS_EmptySet, FS_AddElement
    <2>2. IsFiniteSet(({} \cup {Owner}) \cup {WarpAddr})
      BY <2>1, FS_AddElement
    <2>3. IsFiniteSet((({} \cup {Owner}) \cup {WarpAddr}) \cup {Account})
      BY <2>2, FS_AddElement
    <2>4. (({} \cup {Owner}) \cup {WarpAddr}) \cup {Account} = {Owner, WarpAddr, Account}
      OBVIOUS
    <2>. QED
      BY <2>3, <2>4
  <1>. QED
    BY <1>1, AddressAssumption, FS_Union DEF Holders

\* Giving more, or less, to one holder.
LEMMA SumGiven ==
  ASSUME NEW S, IsFiniteSet(S), NEW f \in [S -> Int], NEW g \in [S -> Int],
         NEW x \in S, NEW n \in Int, g[x] = f[x] + n, \A y \in S \ {x} : g[y] = f[y]
  PROVE  SumFunctionOnSet(g, S) = SumFunctionOnSet(f, S) + n
  <1>. DEFINE rest == S \ {x}
  <1>1. IsFiniteSet(rest) /\ \A y \in rest : f[y] \in Int
    BY FS_Subset
  <1>2. SumFunctionOnSet(g, S) = g[x] + SumFunctionOnSet(g, rest)
    BY SumRemove
  <1>3. SumFunctionOnSet(f, S) = f[x] + SumFunctionOnSet(f, rest)
    BY SumRemove
  <1>4. \A y \in rest : g[y] = f[y]
    OBVIOUS
  <1>. HIDE DEF rest
  <1>5. SumFunctionOnSet(g, rest) = SumFunctionOnSet(f, rest)
    BY <1>1, <1>4, SumCongruence
  <1>6. PICK r : r = SumFunctionOnSet(f, rest)
    OBVIOUS
  <1>7. r \in Int
    BY <1>1, <1>6, SumType
  <1>8. SumFunctionOnSet(g, S) = (f[x] + n) + r /\ SumFunctionOnSet(f, S) = f[x] + r
    BY <1>2, <1>3, <1>5, <1>6, Zenon
  <1>. QED
    BY <1>7, <1>8

LEMMA SumOfZeros ==
  ASSUME NEW S, IsFiniteSet(S), NEW zero, zero = [x \in S |-> 0]
  PROVE  SumFunctionOnSet(zero, S) = 0
  <1>1. \A x \in S : zero[x] \in Int /\ zero[x] >= 0
    OBVIOUS
  <1>2. SumFunctionOnSet(zero, S) >= 0 /\ SumFunctionOnSet(zero, S) \in Int
    BY <1>1, SumType
  <1>3. ASSUME NEW C \in SUBSET (SUBSET S), C # {},
               \A U \in SUBSET S : U \in C <=> SumFunctionOnSet(zero, U) # 0
        PROVE  FALSE
    <2>1. PICK T \in C : \A U \in C : U \subseteq T => U = T
      BY <1>3, MinimalSubset
    <2>2. T \in SUBSET S /\ SumFunctionOnSet(zero, T) # 0 /\ IsFiniteSet(T)
      BY <1>3, <2>1, FS_Subset
    <2>3. T # {}
      BY <2>2, SumUnfold
    <2>4. PICK x \in T : TRUE
      BY <2>3
    <2>5. PICK W : W = T \ {x}
      OBVIOUS
    <2>6. SumFunctionOnSet(zero, W) = 0
      BY <1>3, <2>1, <2>2, <2>4, <2>5
    <2>7. \A y \in T : zero[y] \in Int
      BY <2>2
    <2>8. SumFunctionOnSet(zero, T) = zero[x] + SumFunctionOnSet(zero, W)
      BY <2>2, <2>4, <2>5, <2>7, SumRemove
    <2>9. zero[x] = 0
      BY <2>2, <2>4
    <2>. QED
      BY <2>2, <2>6, <2>8, <2>9
  <1>4. PICK C : C = {U \in SUBSET S : SumFunctionOnSet(zero, U) # 0}
    OBVIOUS
  <1>5. C \in SUBSET (SUBSET S) /\ \A U \in SUBSET S : U \in C <=> SumFunctionOnSet(zero, U) # 0
    BY <1>4
  <1>6. S \notin C
    BY <1>3, <1>5
  <1>. QED
    BY <1>5, <1>6

\* From one to another, or to itself.
LEMMA SumMoved ==
  ASSUME NEW S, IsFiniteSet(S), NEW f \in [S -> Nat], NEW x \in S, NEW y \in S,
         NEW n \in Nat, f[x] >= n, NEW g, g = Transferred(f, x, y, n)
  PROVE  g \in [S -> Nat] /\ SumFunctionOnSet(g, S) = SumFunctionOnSet(f, S)
  <1>1. PICK m : m = -n
    OBVIOUS
  <1>2. PICK h : h = Debited(f, x, n)
    OBVIOUS
  <1>3. h \in [S -> Nat] /\ h[x] = f[x] - n /\ \A z \in S \ {x} : h[z] = f[z]
    BY <1>2 DEF Debited
  <1>4. g = Credited(h, y, n)
    BY <1>2, Zenon DEF Transferred
  <1>5. g \in [S -> Nat] /\ g[y] = h[y] + n /\ \A z \in S \ {y} : g[z] = h[z]
    BY <1>3, <1>4 DEF Credited
  <1>6. /\ f \in [S -> Int] /\ g \in [S -> Int] /\ h \in [S -> Int]
        /\ m \in Int /\ h[x] = f[x] + m
    BY <1>1, <1>3, <1>5
  <1>7. SumFunctionOnSet(h, S) = SumFunctionOnSet(f, S) + m
    BY <1>3, <1>6, SumGiven
  <1>8. SumFunctionOnSet(g, S) = SumFunctionOnSet(h, S) + n
    BY <1>3, <1>5, <1>6, SumGiven
  <1>9. PICK r : r = SumFunctionOnSet(f, S)
    OBVIOUS
  <1>10. r \in Int
    BY <1>9, SumType
  <1>11. SumFunctionOnSet(g, S) = (r + m) + n
    BY <1>7, <1>8, <1>9, Zenon
  <1>. QED
    BY <1>1, <1>5, <1>9, <1>10, <1>11

\* A ledger, and what there is of an asset in it.
LedgerOK(l) ==
  /\ l = [holding |-> l.holding, nft_owner |-> l.nft_owner, ok |-> l.ok]
  /\ l.holding \in [Fungible -> [Holders -> Nat]]
  /\ l.nft_owner \in [Nfts -> Holders]
  /\ l.ok \in BOOLEAN

Total(l, a) == SumFunctionOnSet(l.holding[a], Holders)

MessageOK(m) ==
  \/ m = NoMessage
  \/ m.asset \in Nfts /\ m.to \in Holders
  \/ m.asset \in Fungible /\ m.to \in Holders /\ m.amount \in Nat

\* What a message leaves of the holdings.
LEMMA MessageMoves ==
  ASSUME NEW l, LedgerOK(l), NEW m, MessageOK(m)
  PROVE  LET r == AfterMessage(l, m) IN
         /\ r.ok => l.ok /\ Accepted(l, m)
         /\ r.ok \in BOOLEAN /\ r.nft_owner \in [Nfts -> Holders]
         /\ r = [holding |-> r.holding, nft_owner |-> r.nft_owner, ok |-> r.ok]
         /\ \/ r.holding = l.holding /\ (r.ok => m = NoMessage \/ m.asset \in Nfts)
            \/ /\ m # NoMessage /\ m.asset \in Fungible /\ m.to \in Holders /\ m.amount \in Nat
               /\ l.holding[m.asset][Account] >= m.amount
               /\ r.holding = [l.holding EXCEPT ![m.asset] =
                     Transferred(l.holding[m.asset], Account, m.to, m.amount)]
  <1>1. PICK r : r = AfterMessage(l, m)
    OBVIOUS
  <1>2. CASE ~(l.ok /\ Accepted(l, m))
    <2>1. r = [l EXCEPT !.ok = FALSE]
      BY <1>1, <1>2 DEF AfterMessage
    <2>2. r = [holding |-> l.holding, nft_owner |-> l.nft_owner, ok |-> FALSE]
      BY <2>1 DEF LedgerOK
    <2>. QED
      BY <1>1, <2>2 DEF LedgerOK
  <1>3. CASE l.ok /\ Accepted(l, m) /\ m = NoMessage
    <2>1. r = l
      BY <1>1, <1>3 DEF AfterMessage, Moved
    <2>. QED
      BY <1>1, <1>3, <2>1 DEF LedgerOK
  <1>4. CASE l.ok /\ Accepted(l, m) /\ m # NoMessage /\ m.asset \in Nfts
    <2>1. r = [l EXCEPT !.nft_owner = [l.nft_owner EXCEPT ![m.asset] = m.to]]
      BY <1>1, <1>4 DEF AfterMessage, Moved
    <2>2. r = [holding |-> l.holding, nft_owner |-> [l.nft_owner EXCEPT ![m.asset] = m.to],
               ok |-> l.ok]
      BY <2>1 DEF LedgerOK
    <2>3. m.to \in Holders
      BY <1>4, AssetAssumption DEF MessageOK
    <2>. QED
      BY <1>1, <1>4, <2>2, <2>3 DEF LedgerOK
  <1>5. CASE l.ok /\ Accepted(l, m) /\ m # NoMessage /\ m.asset \notin Nfts
    <2>1. PICK h : h = [l.holding EXCEPT ![m.asset] =
                          Transferred(l.holding[m.asset], Account, m.to, m.amount)]
      OBVIOUS
    <2>2. r = [l EXCEPT !.holding = h]
      <3>1. r = Moved(l, m)
        BY <1>1, <1>5 DEF AfterMessage
      <3>2. Moved(l, m) = [l EXCEPT !.holding = [l.holding EXCEPT ![m.asset] =
                              Transferred(l.holding[m.asset], Account, m.to, m.amount)]]
        BY <1>5, Zenon DEF Moved
      <3>. QED
        BY <2>1, <3>1, <3>2, Zenon
    <2>3. r = [holding |-> h, nft_owner |-> l.nft_owner, ok |-> l.ok]
      BY <2>2 DEF LedgerOK
    <2>4. /\ m.asset \in Fungible /\ m.to \in Holders /\ m.amount \in Nat
          /\ l.holding[m.asset][Account] >= m.amount
      BY <1>5 DEF Accepted, MessageOK
    <2>. QED
      BY <1>1, <1>5, <2>1, <2>3, <2>4 DEF LedgerOK
  <1>. QED
    BY <1>2, <1>3, <1>4, <1>5

LEMMA MessageKeeps ==
  ASSUME NEW l, LedgerOK(l), NEW m, MessageOK(m)
  PROVE  /\ LedgerOK(AfterMessage(l, m))
         /\ \A a \in Fungible : Total(AfterMessage(l, m), a) = Total(l, a)
  <1>1. PICK r : r = AfterMessage(l, m)
    OBVIOUS
  <1>2. /\ r.ok \in BOOLEAN /\ r.nft_owner \in [Nfts -> Holders]
        /\ r = [holding |-> r.holding, nft_owner |-> r.nft_owner, ok |-> r.ok]
    BY <1>1, MessageMoves
  <1>3. CASE r.holding = l.holding
    BY <1>1, <1>2, <1>3 DEF LedgerOK, Total
  <1>4. ASSUME m.asset \in Fungible, m.to \in Holders, m.amount \in Nat,
               l.holding[m.asset][Account] >= m.amount,
               r.holding = [l.holding EXCEPT ![m.asset] =
                     Transferred(l.holding[m.asset], Account, m.to, m.amount)]
        PROVE  LedgerOK(r) /\ \A a \in Fungible : Total(r, a) = Total(l, a)
    <2>1. PICK f : f = l.holding[m.asset]
      OBVIOUS
    <2>2. PICK g : g = Transferred(f, Account, m.to, m.amount)
      OBVIOUS
    <2>3. f \in [Holders -> Nat] /\ Account \in Holders /\ f[Account] >= m.amount
      BY <1>4, <2>1 DEF LedgerOK, Holders
    <2>4. g \in [Holders -> Nat]
          /\ SumFunctionOnSet(g, Holders) = SumFunctionOnSet(f, Holders)
      BY <1>4, <2>2, <2>3, FiniteHolders, SumMoved
    <2>5. /\ r.holding[m.asset] = g
          /\ \A a \in Fungible : a # m.asset => r.holding[a] = l.holding[a]
          /\ r.holding \in [Fungible -> [Holders -> Nat]]
      <3>1. r.holding = [l.holding EXCEPT ![m.asset] = g]
        BY <1>4, <2>1, <2>2, Zenon
      <3>2. l.holding \in [Fungible -> [Holders -> Nat]]
        BY DEF LedgerOK
      <3>. QED
        BY <1>4, <2>4, <3>1, <3>2
    <2>. QED
      BY <1>2, <2>1, <2>4, <2>5 DEF LedgerOK, Total
  <1>. QED
    BY <1>1, <1>3, <1>4, MessageMoves


LEMMA RunKeeps ==
  ASSUME NEW l, LedgerOK(l), NEW S, NEW msgs \in Seq(S), \A i \in DOMAIN msgs : MessageOK(msgs[i])
  PROVE  /\ LedgerOK(Run(l, msgs))
         /\ \A a \in Fungible : Total(Run(l, msgs), a) = Total(l, a)
  <1>1. PICK n \in Nat : n = Len(msgs) /\ DOMAIN msgs = 1..n
    OBVIOUS
  <1>2. PICK g : /\ g[0] = l /\ Run(l, msgs) = g[n]
                 /\ \A i \in 1..n : g[i] = AfterMessage(g[i - 1], msgs[i])
    <2>1. Len(msgs) \in Nat
      BY <1>1
    <2>2. PICK g : Goes(g, l, msgs)
      BY <2>1, RunSteps
    <2>. QED
      BY <1>1, <2>2 DEF Goes
  <1>. DEFINE P == {i \in 0..n : /\ LedgerOK(g[i])
                                 /\ \A a \in Fungible : Total(g[i], a) = Total(l, a)}
  <1>3. 0 \in P
    BY <1>2
  <1>4. ASSUME NEW i \in 1..n, i - 1 \in P
        PROVE  i \in P
    <2>1. PICK k : k = g[i - 1]
      OBVIOUS
    <2>2. LedgerOK(k) /\ \A a \in Fungible : Total(k, a) = Total(l, a)
      BY <1>4, <2>1
    <2>3. PICK m : m = msgs[i]
      OBVIOUS
    <2>4. MessageOK(m) /\ g[i] = AfterMessage(k, m)
      BY <1>1, <1>2, <2>1, <2>3
    <2>5. LedgerOK(g[i]) /\ \A a \in Fungible : Total(g[i], a) = Total(k, a)
      BY <2>2, <2>4, MessageKeeps
    <2>. QED
      BY <1>4, <2>2, <2>5
  <1>5. \A i \in 0..n : i \in P
    <2>. HIDE DEF P
    <2>. QED
      BY <1>3, <1>4, EachPosition
  <1>. QED
    BY <1>2, <1>5

-----------------------------------------------------------------------------
(* The invariant *)

\* What the transfers in ts carry of an asset.
Carried(ts, asset) ==
  LET those == {t \in ts : t.asset = asset} IN
  SumFunctionOnSet([t \in those |-> t.amount], those)

\* A transfer with a delta of seconds, and no timeout block.
BySeconds(t) == t.msg.seconds_delta # None /\ t.msg.timeout_block = None

\* The time such a transfer has, and that no height ends it before.
SecondsGiven(t) ==
  /\ t.timeouts.height = ZeroHeight
  /\ t.sent \in Nat /\ t.msg.seconds_delta[1] \in Nat /\ t.timeouts.time \in Nat
  /\ t.timeouts.time >= t.sent + t.msg.seconds_delta[1]

TransfersOK ==
  /\ IsFiniteSet(transfers)
  /\ \A t \in transfers :
       t.asset \in Fungible /\ t.amount \in Nat /\ (BySeconds(t) => SecondsGiven(t))

AInv ==
  /\ LedgerOK(Ledger)
  /\ TransfersOK
  /\ blocks \in [Chains -> Blocks]
  /\ \A a \in Fungible : Total(Ledger, a) + Carried(transfers, a) = Supply[a]

LEMMA LedgerFields ==
  /\ Ledger.holding = holding /\ Ledger.nft_owner = nft_owner
  /\ Ledger = [holding |-> Ledger.holding, nft_owner |-> Ledger.nft_owner, ok |-> Ledger.ok]
  /\ Ledger.ok = TRUE
  BY DEF Ledger

\* One transfer more.
LEMMA CarriedMore ==
  ASSUME NEW ts, IsFiniteSet(ts), \A t \in ts : t.amount \in Nat,
         NEW t, t \notin ts, t.amount \in Nat, NEW asset
  PROVE  /\ Carried(ts, asset) \in Nat
         /\ Carried(ts \cup {t}, asset)
              = Carried(ts, asset) + (IF t.asset = asset THEN t.amount ELSE 0)
  <1>1. PICK those : those = {u \in ts : u.asset = asset}
    OBVIOUS
  <1>2. those \subseteq ts /\ IsFiniteSet(those) /\ t \notin those
    BY <1>1, FS_Subset
  <1>. DEFINE f == [u \in those |-> u.amount]
  <1>3. Carried(ts, asset) = SumFunctionOnSet(f, those)
    BY <1>1, Zenon DEF Carried
  <1>4. \A u \in those : f[u] \in Int /\ f[u] >= 0
    BY <1>2
  <1>5. SumFunctionOnSet(f, those) \in Nat
    <2>. HIDE DEF f
    <2>1. SumFunctionOnSet(f, those) \in Int /\ SumFunctionOnSet(f, those) >= 0
      BY <1>2, <1>4, SumType
    <2>. QED
      BY <2>1
  <1>6. CASE t.asset # asset
    <2>1. {u \in ts \cup {t} : u.asset = asset} = those
      BY <1>1, <1>6
    <2>2. Carried(ts \cup {t}, asset) = SumFunctionOnSet(f, those)
      BY <2>1, Zenon DEF Carried
    <2>. HIDE DEF f
    <2>. QED
      BY <1>3, <1>5, <1>6, <2>2
  <1>7. CASE t.asset = asset
    <2>1. PICK more : more = those \cup {t}
      OBVIOUS
    <2>2. {u \in ts \cup {t} : u.asset = asset} = more
      BY <1>1, <1>7, <2>1
    <2>. DEFINE g == [u \in more |-> u.amount]
    <2>3. Carried(ts \cup {t}, asset) = SumFunctionOnSet(g, more)
      BY <2>2, Zenon DEF Carried
    <2>4. IsFiniteSet(more) /\ t \in more /\ more \ {t} = those
      BY <1>2, <2>1, FS_AddElement
    <2>5. /\ \A u \in more : g[u] \in Int
          /\ \A u \in those : g[u] = f[u]
          /\ g[t] = t.amount
      BY <1>2, <2>1
    <2>. HIDE DEF f, g
    <2>6. SumFunctionOnSet(g, more) = g[t] + SumFunctionOnSet(g, those)
      BY <2>4, <2>5, SumRemove
    <2>7. SumFunctionOnSet(g, those) = SumFunctionOnSet(f, those)
      BY <1>2, <2>5, SumCongruence
    <2>8. PICK r : r = SumFunctionOnSet(f, those)
      OBVIOUS
    <2>9. Carried(ts \cup {t}, asset) = t.amount + r /\ Carried(ts, asset) = r
      BY <1>3, <2>3, <2>5, <2>6, <2>7, <2>8, Zenon
    <2>10. r \in Nat
      BY <1>5, <2>8
    <2>. QED
      BY <1>7, <2>9, <2>10
  <1>. QED
    BY <1>3, <1>5, <1>6, <1>7


LEMMA CarriedTyped ==
  ASSUME TransfersOK, NEW asset
  PROVE  Carried(transfers, asset) \in Nat
  <1>1. PICK those : those = {t \in transfers : t.asset = asset}
    OBVIOUS
  <1>2. those \subseteq transfers /\ IsFiniteSet(those)
    BY <1>1, FS_Subset DEF TransfersOK
  <1>. DEFINE f == [t \in those |-> t.amount]
  <1>3. Carried(transfers, asset) = SumFunctionOnSet(f, those)
    BY <1>1, Zenon DEF Carried
  <1>4. \A t \in those : f[t] \in Int /\ f[t] >= 0
    BY <1>2 DEF TransfersOK
  <1>. HIDE DEF f
  <1>5. SumFunctionOnSet(f, those) \in Int /\ SumFunctionOnSet(f, those) >= 0
    BY <1>2, <1>4, SumType
  <1>. QED
    BY <1>3, <1>5

\* The messages of a response.
LEMMA PerformKeeps ==
  ASSUME AInv, NEW msgs, msgs \in Seq({msgs[i] : i \in DOMAIN msgs}),
         \A i \in DOMAIN msgs : MessageOK(msgs[i]),
         Perform(msgs), UNCHANGED <<transfers, blocks>>
  PROVE  AInv'
  <1>1. PICK run : run = Run(Ledger, msgs)
    OBVIOUS
  <1>2. run.ok /\ holding' = run.holding /\ nft_owner' = run.nft_owner
    BY <1>1 DEF Perform
  <1>3. LedgerOK(run) /\ \A a \in Fungible : Total(run, a) = Total(Ledger, a)
    BY <1>1, RunKeeps DEF AInv
  <1>4. LedgerOK(Ledger)' /\ \A a \in Fungible : Total(Ledger, a)' = Total(run, a)
    BY <1>2, <1>3 DEF Ledger, LedgerOK, Total
  <1>. QED
    BY <1>3, <1>4 DEF AInv, TransfersOK

LEMMA OneMessageOK == \A m \in OneMsg : MessageOK(m)
  BY AssetAssumption DEF OneMsg, Send, TransferNft, MessageOK, Holders

LEMMA GenericKeeps ==
  ASSUME AInv, NEW sender, NEW m1 \in OneMsg, NEW m2 \in OneMsg,
         Generic(sender, <<m1>>) \/ Generic(sender, <<m1, m2>>)
  PROVE  AInv'
  <1>1. CASE Generic(sender, <<m1>>)
    <2>1. PICK msgs : msgs = <<m1>>
      OBVIOUS
    <2>2. /\ msgs \in Seq({msgs[i] : i \in DOMAIN msgs})
          /\ \A i \in DOMAIN msgs : MessageOK(msgs[i])
      BY <2>1, OneMessageOK
    <2>. QED
      BY <1>1, <2>1, <2>2, PerformKeeps DEF Generic
  <1>2. CASE Generic(sender, <<m1, m2>>)
    <2>1. PICK msgs : msgs = <<m1, m2>>
      OBVIOUS
    <2>2. /\ msgs \in Seq({msgs[i] : i \in DOMAIN msgs})
          /\ \A i \in DOMAIN msgs : MessageOK(msgs[i])
      BY <2>1, OneMessageOK
    <2>. QED
      BY <1>2, <2>1, <2>2, PerformKeeps DEF Generic
  <1>. QED
    BY <1>1, <1>2

\* What withdraw_assets sends for an asset.
LEMMA WithdrawalOK ==
  ASSUME LedgerOK(Ledger), NEW a \in Assets
  PROVE  MessageOK(WithdrawAsset(Ledger, a))
  <1>1. Account \in Holders /\ Owner \in Holders
    BY DEF Holders
  <1>2. a \in Fungible => Ledger.holding[a][Account] \in Nat
    BY <1>1 DEF LedgerOK
  <1>. QED
    BY <1>1, <1>2 DEF WithdrawAsset, MessageOK, Send, TransferNft, Assets

\* The messages of a list.
LEMMA WithdrawalMessages ==
  ASSUME LedgerOK(Ledger), NEW list \in Lists
  PROVE  /\ DOMAIN list = 1..Len(list) /\ Len(list) \in Nat
         /\ \A i \in 1..Len(list) : list[i] \in Assets
         /\ Len(Withdrawal(list)) = Len(list) /\ DOMAIN Withdrawal(list) = 1..Len(list)
         /\ Withdrawal(list) \in Seq({Withdrawal(list)[i] : i \in DOMAIN Withdrawal(list)})
         /\ \A i \in 1..Len(list) : /\ Withdrawal(list)[i] = WithdrawAsset(Ledger, list[i])
                                    /\ MessageOK(Withdrawal(list)[i])
  <1>1. list \in Seq(Assets)
    BY AssetAssumption
  <1>2. PICK n \in Nat : n = Len(list)
    BY <1>1
  <1>3. DOMAIN list = 1..n /\ \A i \in 1..n : list[i] \in Assets
    BY <1>1, <1>2
  <1>4. PICK msgs : msgs = Withdrawal(list)
    OBVIOUS
  <1>5. msgs = [i \in 1..n |-> WithdrawAsset(Ledger, list[i])]
    BY <1>3, <1>4 DEF Withdrawal
  <1>6. DOMAIN msgs = 1..n /\ \A i \in 1..n : msgs[i] = WithdrawAsset(Ledger, list[i])
    BY <1>5
  <1>7. msgs \in Seq({msgs[i] : i \in DOMAIN msgs}) /\ Len(msgs) = n
    BY <1>5
  <1>8. \A i \in 1..n : MessageOK(msgs[i])
    BY <1>3, <1>6, WithdrawalOK
  <1>. QED
    BY <1>2, <1>3, <1>4, <1>6, <1>7, <1>8

LEMMA WithdrawKeeps ==
  ASSUME AInv, NEW sender, NEW list \in Lists, WithdrawAssets(sender, list)
  PROVE  AInv'
  <1>1. PICK msgs : msgs = Withdrawal(list)
    OBVIOUS
  <1>2. Perform(msgs) /\ UNCHANGED <<transfers, blocks>>
    BY <1>1, Zenon DEF WithdrawAssets
  <1>3. /\ msgs \in Seq({msgs[i] : i \in DOMAIN msgs})
        /\ \A i \in DOMAIN msgs : MessageOK(msgs[i])
    BY <1>1, WithdrawalMessages DEF AInv
  <1>. QED
    BY <1>2, <1>3, PerformKeeps

\* A change of one holding of one asset, and of what is under way.
LEMMA HoldingKeeps ==
  ASSUME AInv, NEW asset \in Fungible, NEW h \in Holders, NEW n \in Int,
         holding[asset][h] + n >= 0,
         NEW g, g \in [Holders -> Int], g[h] = holding[asset][h] + n,
         \A y \in Holders \ {h} : g[y] = holding[asset][y],
         holding' = [holding EXCEPT ![asset] = g],
         TransfersOK', UNCHANGED <<nft_owner, blocks>>,
         \A a \in Fungible :
           Carried(transfers', a) = Carried(transfers, a) - (IF a = asset THEN n ELSE 0)
  PROVE  AInv'
  <1>1. holding \in [Fungible -> [Holders -> Nat]]
    BY LedgerFields DEF AInv, LedgerOK
  <1>2. PICK f : f = holding[asset]
    OBVIOUS
  <1>3. f \in [Holders -> Nat] /\ f \in [Holders -> Int] /\ f[h] + n >= 0
    BY <1>1, <1>2
  <1>4. g[h] = f[h] + n /\ \A y \in Holders \ {h} : g[y] = f[y]
    BY <1>2
  <1>5. g \in [Holders -> Nat]
    <2>1. \A y \in Holders : g[y] \in Nat
      BY <1>3, <1>4
    <2>. QED
      BY <2>1
  <1>6. SumFunctionOnSet(g, Holders) = SumFunctionOnSet(f, Holders) + n
    BY <1>3, <1>4, FiniteHolders, SumGiven
  <1>8. /\ holding' \in [Fungible -> [Holders -> Nat]] /\ holding'[asset] = g
        /\ \A a \in Fungible : a # asset => holding'[a] = holding[a]
    BY <1>1, <1>5
  <1>9. LedgerOK(Ledger)'
    BY <1>8 DEF AInv, LedgerOK, Ledger
  <1>10. ASSUME NEW a \in Fungible
         PROVE  Total(Ledger, a)' + Carried(transfers, a)' = Supply[a]
    <2>1. Total(Ledger, a) + Carried(transfers, a) = Supply[a]
      BY DEF AInv
    <2>2. /\ Total(Ledger, a) = SumFunctionOnSet(holding[a], Holders)
          /\ Total(Ledger, a)' = SumFunctionOnSet(holding'[a], Holders)
      BY DEF Total, Ledger
    <2>3. CASE a # asset
      <3>1. Carried(transfers', a) = Carried(transfers, a) - 0
        BY <2>3
      <3>2. Total(Ledger, a)' = Total(Ledger, a)
        BY <1>8, <2>2, <2>3
      <3>3. Carried(transfers, a) \in Nat
        BY CarriedTyped DEF AInv
      <3>. QED
        BY <2>1, <3>1, <3>2, <3>3
    <2>4. CASE a = asset
      <3>1. Carried(transfers', a) = Carried(transfers, a) - n
        BY <2>4
      <3>2. PICK r : r = SumFunctionOnSet(f, Holders)
        OBVIOUS
      <3>3. Total(Ledger, a)' = r + n /\ Total(Ledger, a) = r
        BY <1>2, <1>6, <1>8, <2>2, <2>4, <3>2, Zenon
      <3>4. r \in Int
        <4>1. \A x \in Holders : f[x] \in Int
          BY <1>3
        <4>. QED
          BY <3>2, <4>1, FiniteHolders, SumType
      <3>5. Carried(transfers, a) \in Nat
        BY CarriedTyped DEF AInv
      <3>. QED
        BY <2>1, <3>1, <3>3, <3>4, <3>5
    <2>. QED
      BY <2>3, <2>4
  <1>. QED
    BY <1>9, <1>10 DEF AInv


LEMMA DepositKeeps ==
  ASSUME AInv, NEW from \in Holders, NEW asset \in Fungible, NEW amount \in Amounts,
         Deposit(from, asset, amount)
  PROVE  AInv'
  <1>1. amount \in Nat /\ Account \in Holders
    BY AssetAssumption DEF Holders
  <1>2. holding \in [Fungible -> [Holders -> Nat]] /\ LedgerOK(Ledger)
    BY LedgerFields DEF AInv, LedgerOK
  <1>3. PICK f : f = holding[asset]
    OBVIOUS
  <1>4. PICK g : g = Transferred(f, from, Account, amount)
    OBVIOUS
  <1>5. /\ f \in [Holders -> Nat] /\ f[from] >= amount
        /\ holding' = [holding EXCEPT ![asset] = g]
        /\ UNCHANGED <<nft_owner, transfers, blocks>>
    BY <1>2, <1>3, <1>4 DEF Deposit
  <1>6. g \in [Holders -> Nat] /\ SumFunctionOnSet(g, Holders) = SumFunctionOnSet(f, Holders)
    BY <1>1, <1>4, <1>5, FiniteHolders, SumMoved
  <1>7. /\ holding' \in [Fungible -> [Holders -> Nat]] /\ holding'[asset] = g
        /\ \A a \in Fungible : a # asset => holding'[a] = holding[a]
    BY <1>2, <1>5, <1>6
  <1>8. LedgerOK(Ledger)'
    BY <1>2, <1>5, <1>7 DEF LedgerOK, Ledger
  <1>9. \A a \in Fungible : Total(Ledger, a)' = Total(Ledger, a)
    BY <1>3, <1>6, <1>7 DEF Total, Ledger
  <1>. QED
    BY <1>5, <1>8, <1>9 DEF AInv, TransfersOK

LEMMA DepositNftKeeps ==
  ASSUME AInv, NEW from, NEW token \in Nfts, DepositNft(from, token)
  PROVE  AInv'
  <1>1. /\ nft_owner' = [nft_owner EXCEPT ![token] = Account] /\ Account \in Holders
        /\ UNCHANGED <<holding, transfers, blocks>>
    BY DEF DepositNft, Holders
  <1>2. LedgerOK(Ledger)'
    BY <1>1 DEF AInv, LedgerOK, Ledger
  <1>3. \A a \in Fungible : Total(Ledger, a)' = Total(Ledger, a)
    BY <1>1 DEF Total, Ledger
  <1>. QED
    BY <1>1, <1>2, <1>3 DEF AInv, TransfersOK

\* A delta of seconds counts from the block it is sent in, or later, and without
\* a timeout block there is no height.
LEMMA SecondsCount ==
  ASSUME AInv, NEW msg \in IbcMsgs, msg.seconds_delta # None, msg.timeout_block = None
  PROVE  /\ Timeouts(msg).height = ZeroHeight
         /\ blocks["here"].time \in Nat /\ msg.seconds_delta[1] \in Nat
         /\ Timeouts(msg).time \in Nat
         /\ Timeouts(msg).time >= blocks["here"].time + msg.seconds_delta[1]
  <1>1. msg.seconds_delta \in Seq(Nat) /\ Len(msg.seconds_delta) <= 1
    BY TimeoutAssumption DEF Option
  <1>2. PICK d : d = msg.seconds_delta[1]
    OBVIOUS
  <1>3. d \in Nat
    <2>1. msg.seconds_delta # <<>>
      BY DEF None
    <2>. QED
      BY <1>1, <1>2, <2>1
  <1>4. PICK now : now = blocks["here"].time
    OBVIOUS
  <1>5. now \in Nat
    <2>1. blocks["here"] \in Blocks
      BY DEF AInv, Chains
    <2>. QED
      BY <1>4, <2>1, TimeoutAssumption DEF Blocks
  <1>6. TimeoutTimestamp(msg) = <<now + (now + d)>>
    BY <1>2, <1>4 DEF TimeoutTimestamp, Some
  <1>7. TimeoutTimestamp(msg) # None /\ TimeoutTimestamp(msg)[1] = now + (now + d)
    BY <1>6 DEF None
  <1>8. TimeoutBlock(msg) = None
    BY DEF TimeoutBlock
  <1>9. Timeouts(msg).height = ZeroHeight /\ Timeouts(msg).time = now + (now + d)
    BY <1>7, <1>8 DEF Timeouts
  <1>. QED
    BY <1>2, <1>3, <1>4, <1>5, <1>9

LEMMA IbcTransferKeeps ==
  ASSUME AInv, NEW sender, NEW asset \in Fungible, NEW amount \in Amounts,
         NEW msg \in IbcMsgs, IbcTransfer(sender, asset, amount, msg)
  PROVE  AInv'
  <1>1. PICK out : out = Timeouts(msg)
    OBVIOUS
  <1>2. PICK n \in 1..MaxTransfers :
          /\ \A other \in transfers : other.n # n
          /\ transfers' = transfers \cup
               {[n |-> n, asset |-> asset, amount |-> amount, timeouts |-> out,
                 msg |-> msg, sent |-> blocks["here"].time]}
    BY <1>1 DEF IbcTransfer
  <1>3. PICK t : t = [n |-> n, asset |-> asset, amount |-> amount, timeouts |-> out,
                      msg |-> msg, sent |-> blocks["here"].time]
    OBVIOUS
  <1>4. /\ t \notin transfers /\ t.asset = asset /\ t.amount = amount
        /\ transfers' = transfers \cup {t} /\ amount \in Nat
    BY <1>2, <1>3, AssetAssumption
  <1>5. TransfersOK'
    <2>1. t.timeouts = Timeouts(msg) /\ t.msg = msg /\ t.sent = blocks["here"].time
      BY <1>1, <1>3
    <2>2. BySeconds(t) => SecondsGiven(t)
      BY <2>1, SecondsCount DEF BySeconds, SecondsGiven
    <2>. QED
      BY <1>4, <2>2, FS_AddElement DEF AInv, TransfersOK, BySeconds, SecondsGiven
  <1>6. PICK g : g = Debited(holding[asset], Account, amount)
    OBVIOUS
  <1>7. /\ holding' = [holding EXCEPT ![asset] = g] /\ holding[asset][Account] >= amount
        /\ UNCHANGED <<nft_owner, blocks>>
    BY <1>6 DEF IbcTransfer
  <1>8. holding[asset] \in [Holders -> Nat] /\ Account \in Holders
    BY LedgerFields DEF AInv, LedgerOK, Holders
  <1>9. PICK less : less = -amount
    OBVIOUS
  <1>10. /\ less \in Int /\ g \in [Holders -> Int] /\ g[Account] = holding[asset][Account] + less
         /\ \A y \in Holders \ {Account} : g[y] = holding[asset][y]
         /\ holding[asset][Account] + less >= 0
    BY <1>4, <1>6, <1>7, <1>8, <1>9 DEF Debited
  <1>11. ASSUME NEW a \in Fungible
         PROVE  Carried(transfers', a) = Carried(transfers, a) - (IF a = asset THEN less ELSE 0)
    <2>1. PICK ts : ts = transfers
      OBVIOUS
    <2>2. /\ IsFiniteSet(ts) /\ t \notin ts /\ t.amount \in Nat
          /\ \A u \in ts : u.amount \in Nat
      BY <1>4, <2>1 DEF AInv, TransfersOK
    <2>3. /\ Carried(ts, a) \in Nat
          /\ Carried(ts \cup {t}, a) = Carried(ts, a) + (IF t.asset = a THEN t.amount ELSE 0)
      BY <2>2, CarriedMore
    <2>4. transfers' = ts \cup {t}
      BY <1>4, <2>1
    <2>5. Carried(transfers', a) = Carried(transfers, a) + (IF asset = a THEN amount ELSE 0)
      BY <1>4, <2>1, <2>3, <2>4
    <2>. QED
      BY <1>4, <1>9, <2>1, <2>3, <2>5
  <1>. QED
    BY <1>5, <1>7, <1>8, <1>10, <1>11, HoldingKeeps

\* A transfer that comes to its end, there or back.
LEMMA LandingKeeps ==
  ASSUME AInv, NEW t \in transfers, NEW to \in Holders,
         transfers' = transfers \ {t},
         holding' = [holding EXCEPT ![t.asset] = Credited(@, to, t.amount)],
         UNCHANGED <<nft_owner, blocks>>
  PROVE  AInv'
  <1>1. t.asset \in Fungible /\ t.amount \in Nat
    BY DEF AInv, TransfersOK
  <1>2. TransfersOK'
    BY FS_RemoveElement DEF AInv, TransfersOK
  <1>3. PICK g : g = Credited(holding[t.asset], to, t.amount)
    OBVIOUS
  <1>4. holding' = [holding EXCEPT ![t.asset] = g]
    BY <1>3
  <1>5. holding[t.asset] \in [Holders -> Nat]
    BY <1>1, LedgerFields DEF AInv, LedgerOK
  <1>6. /\ g \in [Holders -> Int] /\ g[to] = holding[t.asset][to] + t.amount
        /\ \A y \in Holders \ {to} : g[y] = holding[t.asset][y]
        /\ holding[t.asset][to] + t.amount >= 0 /\ t.amount \in Int
    BY <1>1, <1>3, <1>5 DEF Credited
  <1>7. ASSUME NEW a \in Fungible
        PROVE  Carried(transfers', a)
                 = Carried(transfers, a) - (IF a = t.asset THEN t.amount ELSE 0)
    <2>1. PICK rest : rest = transfers \ {t}
      OBVIOUS
    <2>2. rest \cup {t} = transfers /\ t \notin rest /\ IsFiniteSet(rest)
      BY <1>2, <2>1 DEF TransfersOK
    <2>3. /\ Carried(rest, a) \in Nat
          /\ Carried(transfers, a) = Carried(rest, a) + (IF t.asset = a THEN t.amount ELSE 0)
      BY <1>1, <2>1, <2>2, CarriedMore DEF AInv, TransfersOK
    <2>. QED
      BY <1>1, <2>1, <2>3
  <1>. QED
    BY <1>1, <1>2, <1>4, <1>6, <1>7, HoldingKeeps

LEMMA AInvInit == Init => AInv
  <1>. SUFFICES ASSUME Init
                PROVE  AInv
    OBVIOUS
  <1>1. Owner \in Holders
    BY DEF Holders
  <1>2. LedgerOK(Ledger)
    BY <1>1, AssetAssumption DEF Init, LedgerOK, Ledger
  <1>3. TransfersOK /\ blocks \in [Chains -> Blocks]
    BY FS_EmptySet, AssetAssumption DEF Init, TransfersOK
  <1>4. ASSUME NEW a \in Fungible
        PROVE  Total(Ledger, a) + Carried(transfers, a) = Supply[a]
    <2>1. PICK f : f = [h \in Holders |-> IF h = Owner THEN Supply[a] ELSE 0]
      OBVIOUS
    <2>2. PICK zero : zero = [h \in Holders |-> 0]
      OBVIOUS
    <2>3. Supply[a] \in Nat
      BY AssetAssumption
    <2>4. Total(Ledger, a) = SumFunctionOnSet(f, Holders)
      BY <2>1 DEF Init, Total, Ledger
    <2>5. /\ f \in [Holders -> Int] /\ zero \in [Holders -> Int]
          /\ f[Owner] = zero[Owner] + Supply[a]
          /\ \A h \in Holders \ {Owner} : f[h] = zero[h]
      BY <1>1, <2>1, <2>2, <2>3
    <2>6. SumFunctionOnSet(f, Holders) = SumFunctionOnSet(zero, Holders) + Supply[a]
      BY <1>1, <2>3, <2>5, FiniteHolders, SumGiven
    <2>7. SumFunctionOnSet(zero, Holders) = 0
      BY <2>2, FiniteHolders, SumOfZeros
    <2>8. Carried(transfers, a) = 0
      <3>1. {t \in transfers : t.asset = a} = {}
        BY DEF Init
      <3>. DEFINE c == [t \in {} |-> t.amount]
      <3>2. Carried(transfers, a) = SumFunctionOnSet(c, {})
        BY <3>1, Zenon DEF Carried
      <3>. HIDE DEF c
      <3>. QED
        BY <3>2, FS_EmptySet, SumUnfold
    <2>. QED
      BY <2>3, <2>4, <2>6, <2>7, <2>8
  <1>. QED
    BY <1>2, <1>3, <1>4 DEF AInv

LEMMA AInvStep == AInv /\ [Next]_vars => AInv'
  <1>. SUFFICES ASSUME AInv, [Next]_vars
                PROVE  AInv'
    OBVIOUS
  <1>1. ASSUME NEW sender \in Holders, NEW m \in OneMsg, Generic(sender, <<m>>)
        PROVE  AInv'
    BY <1>1, GenericKeeps
  <1>2. ASSUME NEW sender \in Holders, NEW m1 \in OneMsg, NEW m2 \in OneMsg,
               Generic(sender, <<m1, m2>>)
        PROVE  AInv'
    BY <1>2, GenericKeeps
  <1>3. ASSUME NEW sender \in Holders, NEW list \in Lists, WithdrawAssets(sender, list)
        PROVE  AInv'
    BY <1>3, WithdrawKeeps
  <1>4. ASSUME NEW sender \in Holders, NEW a \in Fungible, NEW n \in Amounts, NEW msg \in IbcMsgs,
               IbcTransfer(sender, a, n, msg)
        PROVE  AInv'
    BY <1>4, IbcTransferKeeps
  <1>5. ASSUME NEW from \in Holders, NEW a \in Fungible, NEW n \in Amounts, Deposit(from, a, n)
        PROVE  AInv'
    BY <1>5, DepositKeeps
  <1>6. ASSUME NEW from \in Holders, NEW t \in Nfts, DepositNft(from, t)
        PROVE  AInv'
    BY <1>6, DepositNftKeeps
  <1>7. ASSUME NEW t \in transfers, TimeOut(t) \/ \E to \in Others : Arrive(t, to)
        PROVE  AInv'
    <2>1. Account \in Holders /\ Others \subseteq Holders
      BY DEF Holders
    <2>2. CASE TimeOut(t)
      BY <2>1, <2>2, LandingKeeps DEF TimeOut
    <2>3. CASE \E to \in Others : Arrive(t, to)
      BY <2>1, <2>3, LandingKeeps DEF Arrive
    <2>. QED
      BY <1>7, <2>2, <2>3
  <1>8. CASE UNCHANGED vars \/ \E chain \in Chains, block \in Blocks : NewBlock(chain, block)
    <2>1. UNCHANGED <<holding, nft_owner, transfers>> /\ blocks' \in [Chains -> Blocks]
      BY <1>8 DEF NewBlock, vars, AInv
    <2>. QED
      BY <2>1 DEF AInv, LedgerOK, Ledger, TransfersOK, Total
  <1>. QED
    BY <1>1, <1>2, <1>3, <1>4, <1>5, <1>6, <1>7, <1>8 DEF Next

LEMMA AccountInvariance == Spec => []AInv
  BY AInvInit, AInvStep, PTL DEF Spec

\* What a transfer carries is what is under way.
LEMMA CarriedIsUnderWay == \A a : UnderWay(a) = Carried(transfers, a)
  BY Zenon DEF UnderWay, Carried

\* Whatever the account is made to do, its ledgers keep their types, and all
\* there is of an asset is with a holder or in a transfer: no message of a
\* response, refused or not, makes coins or loses them.
THEOREM AccountTyped == Spec => []AccountTypeOK
  <1>1. AInv => AccountTypeOK
    <2>. SUFFICES ASSUME AInv
                  PROVE  AccountTypeOK
      OBVIOUS
    <2>1. holding \in [Fungible -> [Holders -> Nat]] /\ nft_owner \in [Nfts -> Holders]
      BY LedgerFields DEF AInv, LedgerOK
    <2>2. ASSUME NEW a \in Fungible
          PROVE  SumFunctionOnSet(holding[a], Holders) + UnderWay(a) = Supply[a]
      <3>1. SumFunctionOnSet(holding[a], Holders) + Carried(transfers, a) = Supply[a]
        BY LedgerFields DEF AInv, Total
      <3>. QED
        BY <3>1, CarriedIsUnderWay
    <2>. QED
      BY <2>1, <2>2 DEF AInv, AccountTypeOK
  <1>. QED
    BY <1>1, AccountInvariance, PTL

-----------------------------------------------------------------------------
(* Withdrawals *)

\* The holdings of an asset before and after its message has run.
Stage(l, a, done) ==
  /\ l.holding[a][Account] = IF done THEN 0 ELSE holding[a][Account]
  /\ l.holding[a][Owner]
       = IF done THEN holding[a][Owner] + holding[a][Account] ELSE holding[a][Owner]

LEMMA WithdrawStep ==
  ASSUME AInv, NEW l, LedgerOK(l), NEW b \in Assets, NEW a \in Fungible, NEW done \in BOOLEAN,
         Stage(l, a, done), AfterMessage(l, WithdrawAsset(Ledger, b)).ok
  PROVE  Stage(AfterMessage(l, WithdrawAsset(Ledger, b)), a, done \/ b = a)
  <1>1. PICK m : m = WithdrawAsset(Ledger, b)
    OBVIOUS
  <1>2. PICK r : r = AfterMessage(l, m)
    OBVIOUS
  <1>3. MessageOK(m) /\ r.ok
    BY <1>1, <1>2, WithdrawalOK DEF AInv
  <1>4. /\ l.ok /\ Accepted(l, m)
        /\ \/ r.holding = l.holding /\ (m = NoMessage \/ m.asset \in Nfts)
           \/ /\ m # NoMessage /\ m.asset \in Fungible /\ m.to \in Holders /\ m.amount \in Nat
              /\ l.holding[m.asset][Account] >= m.amount
              /\ r.holding = [l.holding EXCEPT ![m.asset] =
                    Transferred(l.holding[m.asset], Account, m.to, m.amount)]
    BY <1>2, <1>3, MessageMoves
  <1>5. /\ l.holding \in [Fungible -> [Holders -> Nat]]
        /\ holding \in [Fungible -> [Holders -> Nat]] /\ Ledger.holding = holding
    BY LedgerFields DEF AInv, LedgerOK
  <1>6. Account \in Holders /\ Owner \in Holders /\ Owner # Account
    BY AddressAssumption DEF Holders
  <1>7. m = NoMessage \/ m.asset = b
    BY <1>1 DEF WithdrawAsset, Send, TransferNft
  <1>8. CASE b # a
    <2>1. r.holding[a] = l.holding[a]
      BY <1>4, <1>5, <1>7, <1>8
    <2>. QED
      BY <1>1, <1>2, <1>8, <2>1 DEF Stage
  <1>9. CASE b = a /\ holding[a][Account] = 0
    <2>1. m = NoMessage
      BY <1>1, <1>5, <1>9, AssetAssumption DEF WithdrawAsset
    <2>2. r.holding = l.holding
      BY <1>4, <2>1
    <2>3. holding[a][Owner] + holding[a][Account] = holding[a][Owner]
      BY <1>5, <1>6, <1>9
    <2>. QED
      BY <1>1, <1>2, <1>9, <2>2, <2>3 DEF Stage
  <1>10. CASE b = a /\ holding[a][Account] # 0
    <2>1. PICK n \in Nat : n = holding[a][Account]
      BY <1>5, <1>6
    <2>2. m = Send(a, Owner, n) /\ n > 0
      BY <1>1, <1>5, <1>10, <2>1, AssetAssumption DEF WithdrawAsset
    <2>3. m.asset = a /\ m.to = Owner /\ m.amount = n /\ m # NoMessage /\ a \notin Nfts
      BY <2>2, AssetAssumption DEF Send, NoMessage, None
    <2>4. PICK f : f = l.holding[a]
      OBVIOUS
    <2>5. f[Account] >= n /\ f \in [Holders -> Nat]
      BY <1>4, <1>5, <2>3, <2>4
    <2>6. ~done
      BY <2>2, <2>4, <2>5 DEF Stage
    <2>7. f[Account] = n /\ f[Owner] = holding[a][Owner]
      BY <2>1, <2>4, <2>6 DEF Stage
    <2>8. PICK g : g = Transferred(f, Account, Owner, n)
      OBVIOUS
    <2>9. r.holding = [l.holding EXCEPT ![a] = g]
      BY <1>4, <2>3, <2>4, <2>8, Zenon
    <2>10. r.holding[a] = g
      BY <1>5, <2>9
    <2>11. g[Account] = 0 /\ g[Owner] = f[Owner] + n
      <3>1. PICK d : d = Debited(f, Account, n)
        OBVIOUS
      <3>2. g = Credited(d, Owner, n)
        BY <2>8, <3>1, Zenon DEF Transferred
      <3>3. d[Account] = 0 /\ d[Owner] = f[Owner] /\ d \in [Holders -> Int]
        BY <1>6, <2>5, <2>7, <3>1 DEF Debited
      <3>. QED
        BY <1>6, <3>2, <3>3 DEF Credited
    <2>. QED
      BY <1>1, <1>2, <1>10, <2>1, <2>7, <2>10, <2>11 DEF Stage
  <1>. QED
    BY <1>8, <1>9, <1>10

LEMMA WithdrawalRun ==
  ASSUME AInv, NEW list \in Lists, WithdrawAssets(WarpAddr, list),
         NEW a \in Fungible, NEW at \in 1..Len(list), list[at] = a
  PROVE  /\ holding'[a][Account] = 0
         /\ holding'[a][Owner] = holding[a][Owner] + holding[a][Account]
  <1>1. PICK msgs : msgs = Withdrawal(list)
    OBVIOUS
  <1>2. PICK n \in Nat : n = Len(list) /\ Len(msgs) = n
    BY <1>1, WithdrawalMessages DEF AInv
  <1>3. \A i \in 1..n : list[i] \in Assets /\ msgs[i] = WithdrawAsset(Ledger, list[i])
    BY <1>1, <1>2, WithdrawalMessages DEF AInv
  <1>4. Perform(msgs)
    BY <1>1, Zenon DEF WithdrawAssets
  <1>5. PICK g : Goes(g, Ledger, msgs)
    BY <1>2, RunSteps
  <1>6. /\ g[0] = Ledger /\ g[n].ok /\ holding' = g[n].holding
        /\ \A i \in 1..n : g[i] = AfterMessage(g[i - 1], msgs[i])
    BY <1>2, <1>4, <1>5 DEF Goes, Perform
  <1>. DEFINE Done(i) == \E k \in 1..i : list[k] = a
              P == {i \in 0..n : /\ LedgerOK(g[i])
                                 /\ g[i].ok => Stage(g[i], a, Done(i))}
  <1>7. 0 \in P
    <2>1. ~Done(0)
      OBVIOUS
    <2>2. PICK done \in BOOLEAN : done = Done(0)
      OBVIOUS
    <2>3. Stage(g[0], a, done)
      BY <1>6, <2>1, <2>2, LedgerFields DEF Stage
    <2>4. LedgerOK(g[0])
      BY <1>6 DEF AInv
    <2>. HIDE DEF Done
    <2>. QED
      BY <2>2, <2>3, <2>4
  <1>8. ASSUME NEW i \in 1..n, i - 1 \in P
        PROVE  i \in P
    <2>1. PICK l : l = g[i - 1]
      OBVIOUS
    <2>2. PICK b \in Assets : b = list[i]
      BY <1>3
    <2>3. PICK m : m = WithdrawAsset(Ledger, b)
      OBVIOUS
    <2>4. g[i] = AfterMessage(l, m)
      BY <1>3, <1>6, <2>1, <2>2, <2>3
    <2>5. MessageOK(m)
      BY <2>3, WithdrawalOK DEF AInv
    <2>6. LedgerOK(l) /\ (l.ok => Stage(l, a, Done(i - 1)))
      BY <1>8, <2>1
    <2>7. LedgerOK(g[i]) /\ (g[i].ok => l.ok)
      <3>1. PICK r : r = AfterMessage(l, m)
        OBVIOUS
      <3>2. LedgerOK(r)
        BY <2>5, <2>6, <3>1, MessageKeeps
      <3>3. r.ok => l.ok
        BY <2>5, <2>6, <3>1, MessageMoves
      <3>. QED
        BY <2>4, <3>1, <3>2, <3>3
    <2>8. Done(i) <=> Done(i - 1) \/ b = a
      BY <2>2
    <2>9. ASSUME g[i].ok
          PROVE  Stage(g[i], a, Done(i))
      <3>1. PICK done \in BOOLEAN : done = Done(i - 1)
        OBVIOUS
      <3>2. Stage(l, a, done)
        BY <2>6, <2>7, <2>9, <3>1
      <3>3. Stage(g[i], a, done \/ b = a)
        BY <2>3, <2>4, <2>6, <2>9, <3>2, WithdrawStep
      <3>4. Done(i) = (done \/ b = a)
        BY <2>8, <3>1
      <3>. QED
        BY <3>3, <3>4
    <2>. HIDE DEF Done
    <2>. QED
      BY <2>7, <2>9
  <1>9. n \in P
    <2>. HIDE DEF P
    <2>1. \A i \in 0..n : i \in P
      BY <1>7, <1>8, EachPosition
    <2>. QED
      BY <2>1
  <1>10. Stage(g[n], a, TRUE)
    <2>1. Done(n)
      BY <1>2
    <2>. QED
      BY <1>6, <1>9, <2>1
  <1>. QED
    BY <1>6, <1>10 DEF Stage

\* A withdrawal by the controller, of any list whatever the account holds,
\* leaves nothing of a coin or cw20 token on the list: the owner has all of it,
\* though the messages were made from holdings read before the first one ran.
THEOREM WithdrawalsComplete == Spec => WithdrawalComplete
  <1>. DEFINE Complete ==
         \A list \in Lists : WithdrawAssets(WarpAddr, list) =>
           \A a \in Listed(list) \cap Fungible :
             /\ holding'[a][Account] = 0
             /\ holding'[a][Owner] = holding[a][Owner] + holding[a][Account]
  <1>1. AInv /\ [Next]_vars => [Complete]_vars
    <2>. SUFFICES ASSUME AInv, NEW list \in Lists, WithdrawAssets(WarpAddr, list),
                         NEW a \in Listed(list) \cap Fungible
                  PROVE  /\ holding'[a][Account] = 0
                         /\ holding'[a][Owner] = holding[a][Owner] + holding[a][Account]
      OBVIOUS
    <2>1. PICK at \in 1..Len(list) : list[at] = a
      BY WithdrawalMessages DEF AInv, Listed, Range
    <2>. QED
      BY <2>1, WithdrawalRun
  <1>. QED
    BY <1>1, AccountInvariance, PTL DEF Spec, WithdrawalComplete

\* A message for what is as it was when the messages were made is accepted, and
\* leaves the account what it has of other assets.
LEMMA WithdrawAccepted ==
  ASSUME AInv, NEW l, LedgerOK(l), l.ok, NEW b \in Assets,
         b \in Nfts => nft_owner[b] # Owner,
         b \in Fungible => l.holding[b][Account] = holding[b][Account]
  PROVE  /\ AfterMessage(l, WithdrawAsset(Ledger, b)).ok
         /\ \A a \in Fungible : a # b =>
              AfterMessage(l, WithdrawAsset(Ledger, b)).holding[a] = l.holding[a]
  <1>1. PICK m : m = WithdrawAsset(Ledger, b)
    OBVIOUS
  <1>2. PICK r : r = AfterMessage(l, m)
    OBVIOUS
  <1>3. /\ Ledger.holding = holding /\ Ledger.nft_owner = nft_owner
        /\ l = [holding |-> l.holding, nft_owner |-> l.nft_owner, ok |-> l.ok]
        /\ l.holding \in [Fungible -> [Holders -> Nat]]
        /\ holding \in [Fungible -> [Holders -> Nat]]
    BY LedgerFields DEF AInv, LedgerOK
  <1>4. CASE m = NoMessage
    <2>1. r = l
      BY <1>2, <1>4 DEF AfterMessage, Accepted, Moved
    <2>. QED
      BY <1>1, <1>2, <2>1
  <1>5. CASE m # NoMessage
    <2>1. b \in Fungible /\ b \notin Nfts
      BY <1>1, <1>3, <1>5 DEF WithdrawAsset, Assets
    <2>2. PICK n : n = holding[b][Account]
      OBVIOUS
    <2>3. m = Send(b, Owner, n) /\ n > 0
      BY <1>1, <1>3, <1>5, <2>1, <2>2 DEF WithdrawAsset
    <2>4. Accepted(l, m) /\ m.asset = b
      <3>1. n \in Nat
        BY <1>3, <2>1, <2>2 DEF Holders
      <3>. QED
        BY <2>1, <2>2, <2>3, <3>1 DEF Accepted, Send
    <2>5. PICK g : g = Transferred(l.holding[b], Account, m.to, m.amount)
      OBVIOUS
    <2>6. r = [l EXCEPT !.holding = [l.holding EXCEPT ![b] = g]]
      <3>1. r = Moved(l, m)
        BY <1>2, <2>4 DEF AfterMessage
      <3>2. Moved(l, m) = [l EXCEPT !.holding = [l.holding EXCEPT ![m.asset] =
                              Transferred(l.holding[m.asset], Account, m.to, m.amount)]]
        BY <1>5, <2>1, <2>4, Zenon DEF Moved
      <3>. QED
        BY <2>4, <2>5, <3>1, <3>2, Zenon
    <2>7. r.ok = l.ok /\ \A a \in Fungible : a # b => r.holding[a] = l.holding[a]
      <3>1. PICK h : h = [l.holding EXCEPT ![b] = g]
        OBVIOUS
      <3>2. r = [holding |-> h, nft_owner |-> l.nft_owner, ok |-> l.ok]
        BY <1>3, <2>6, <3>1
      <3>3. \A a \in Fungible : a # b => h[a] = l.holding[a]
        BY <1>3, <3>1
      <3>. QED
        BY <3>2, <3>3
    <2>. QED
      BY <1>1, <1>2, <2>7
  <1>. QED
    BY <1>4, <1>5

\* The messages of a list that names no asset twice and no token of the owner
\* run to the end.
LEMMA WithdrawalAccepted ==
  ASSUME AInv, NEW list \in Lists, IsInjective(list),
         \A t \in Listed(list) \cap Nfts : nft_owner[t] # Owner
  PROVE  Run(Ledger, Withdrawal(list)).ok
  <1>1. PICK msgs : msgs = Withdrawal(list)
    OBVIOUS
  <1>2. PICK n \in Nat : n = Len(list) /\ Len(msgs) = n /\ DOMAIN list = 1..n
    BY <1>1, WithdrawalMessages DEF AInv
  <1>3. \A i \in 1..n : list[i] \in Assets /\ msgs[i] = WithdrawAsset(Ledger, list[i])
    BY <1>1, <1>2, WithdrawalMessages DEF AInv
  <1>4. /\ \A i, j \in 1..n : list[i] = list[j] => i = j
        /\ \A i \in 1..n : list[i] \in Nfts => nft_owner[list[i]] # Owner
    BY <1>2 DEF IsInjective, Listed, Range
  <1>5. PICK g : Goes(g, Ledger, msgs)
    BY <1>2, RunSteps
  <1>6. /\ g[0] = Ledger /\ Run(Ledger, msgs) = g[n]
        /\ \A i \in 1..n : g[i] = AfterMessage(g[i - 1], msgs[i])
    BY <1>2, <1>5 DEF Goes
  <1>. DEFINE Untouched(i) == \A k \in 1..n : k > i /\ list[k] \in Fungible =>
                g[i].holding[list[k]][Account] = holding[list[k]][Account]
              P == {i \in 0..n : LedgerOK(g[i]) /\ g[i].ok /\ Untouched(i)}
  <1>7. 0 \in P
    BY <1>6, LedgerFields DEF AInv
  <1>8. ASSUME NEW i \in 1..n, i - 1 \in P
        PROVE  i \in P
    <2>1. PICK l : l = g[i - 1]
      OBVIOUS
    <2>2. PICK b \in Assets : b = list[i]
      BY <1>3
    <2>3. PICK m : m = WithdrawAsset(Ledger, b)
      OBVIOUS
    <2>4. g[i] = AfterMessage(l, m)
      BY <1>3, <1>6, <2>1, <2>2, <2>3
    <2>5. LedgerOK(l) /\ l.ok /\ Untouched(i - 1)
      BY <1>8, <2>1
    <2>6. b \in Fungible => l.holding[b][Account] = holding[b][Account]
      BY <2>1, <2>2, <2>5
    <2>7. /\ g[i].ok
          /\ \A a \in Fungible : a # b => g[i].holding[a] = l.holding[a]
      BY <1>4, <2>2, <2>3, <2>4, <2>5, <2>6, WithdrawAccepted
    <2>8. LedgerOK(g[i])
      BY <2>3, <2>4, <2>5, WithdrawalOK, MessageKeeps DEF AInv
    <2>9. Untouched(i)
      <3>1. ASSUME NEW k \in 1..n, k > i, list[k] \in Fungible
            PROVE  g[i].holding[list[k]][Account] = holding[list[k]][Account]
        <4>1. list[k] # b /\ k > i - 1
          BY <1>4, <2>2, <3>1
        <4>2. l.holding[list[k]][Account] = holding[list[k]][Account]
          BY <2>1, <2>5, <3>1, <4>1
        <4>. QED
          BY <2>7, <3>1, <4>1, <4>2
      <3>. QED
        BY <3>1
    <2>. HIDE DEF Untouched
    <2>. QED
      BY <2>7, <2>8, <2>9
  <1>9. n \in P
    <2>. HIDE DEF P
    <2>1. \A i \in 0..n : i \in P
      BY <1>7, <1>8, EachPosition
    <2>. QED
      BY <2>1
  <1>. QED
    BY <1>1, <1>6, <1>9

\* A list that names no asset twice and no token that the owner already has can
\* be withdrawn in every state, whatever the account holds: neither holdings
\* that are zero nor the messages before refuse one of it.
THEOREM WithdrawalsAccepted == Spec => []AlwaysWithdrawable
  <1>1. AInv => AlwaysWithdrawable
    BY WithdrawalAccepted DEF AlwaysWithdrawable, Authorized
  <1>. QED
    BY <1>1, AccountInvariance, PTL

-----------------------------------------------------------------------------
(* Timeouts *)

\* A transfer with a delta of seconds and no timeout block comes back only when
\* the receiving chain's clock is past the block it was sent in by the delta,
\* for any heights of the two chains and any drift of their clocks.
THEOREM SecondsKept == Spec => NotBackEarly
  <1>1. AInv /\ [Next]_vars =>
          [\A t \in transfers :
             TimeOut(t) /\ t.msg.seconds_delta # None /\ t.msg.timeout_block = None
             => blocks["there"].time >= t.sent + t.msg.seconds_delta[1]]_vars
    <2>. SUFFICES ASSUME AInv, NEW t \in transfers, TimeOut(t),
                         t.msg.seconds_delta # None, t.msg.timeout_block = None
                  PROVE  blocks["there"].time >= t.sent + t.msg.seconds_delta[1]
      OBVIOUS
    <2>1. SecondsGiven(t)
      BY DEF AInv, TransfersOK, BySeconds
    <2>2. blocks["there"].time \in Nat
      <3>1. blocks["there"] \in Blocks
        BY DEF AInv, Chains
      <3>. QED
        BY <3>1, TimeoutAssumption DEF Blocks
    <2>3. t.timeouts.time <= blocks["there"].time
      BY <2>1 DEF TimeOut, Elapsed, SecondsGiven
    <2>. QED
      BY <2>1, <2>2, <2>3 DEF SecondsGiven
  <1>. QED
    BY <1>1, AccountInvariance, PTL DEF NotBackEarly, Spec
=============================================================================
