----------------------------- MODULE WarpAccount -----------------------------
(***************************************************************************)
(* One account contract: the assets it holds for its owner, and what the   *)
(* owner and the controller, nobody else, can have it do with them.  The   *)
(* ledgers of coins, cw20 and cw721 tokens are kept by others; a message   *)
(* that one of them refuses undoes the whole call.                         *)
(*                                                                         *)
(* IBC transfers go to a chain with blocks of its own, whose heights and   *)
(* clock decide whether a transfer has timed out.  Times are in seconds.   *)
(***************************************************************************)
EXTENDS Integers, FiniteSets, Sequences, Functions

CONSTANTS
  Owner, WarpAddr,   \* Config of the account
  Account,           \* its own address
  Others,            \* anybody else
  Fungible,          \* native denominations and cw20 tokens
  Nfts,              \* tokens of cw721 contracts
  Supply,            \* what there is of each fungible asset
  Amounts,           \* amounts sent in one message
  Lists,             \* asset lists of withdrawals
  IbcMsgs,           \* IbcTransferMsg, as far as timeouts go
  Revision,          \* revision number of the receiving chain
  MaxTransfers,      \* bound: transfers under way
  MaxHeight, MaxTime \* bounds: heights and seconds, of both chains

Holders == {Owner, WarpAddr, Account} \cup Others
Assets == Fungible \cup Nfts

\* An Option is None or a sequence of one: Some(0) is not None.
None == <<>>
Some(x) == <<x>>
Option(S) == {x \in Seq(S) : Len(x) <= 1}

Heights == [revision : Nat, height : Nat]
Blocks == [height : 1..MaxHeight, time : 1..MaxTime]
Chains == {"here", "there"}

\* create_account refuses the owner an account: it is none of those it serves.
ASSUME AddressAssumption ==
  /\ IsFiniteSet(Others) /\ Account \notin {Owner, WarpAddr} \cup Others

ASSUME AssetAssumption ==
  /\ IsFiniteSet(Assets) /\ Fungible \cap Nfts = {}
  /\ Supply \in [Fungible -> Nat] /\ Amounts \subseteq Nat \ {0}
  /\ Lists \subseteq Seq(Assets) /\ MaxTransfers \in Nat

ASSUME TimeoutAssumption ==
  /\ Revision \in Nat /\ MaxHeight \in Nat \ {0} /\ MaxTime \in Nat \ {0}
  /\ IbcMsgs \subseteq [timeout_block : Option(Heights), timeout_timestamp : Option(Nat),
                        block_delta : Option(Nat), seconds_delta : Option(Nat)]

VARIABLES
  holding,    \* ledgers of the fungible assets
  nft_owner,  \* owner_of, of each token
  transfers,  \* IBC transfers under way: the packet, and what was sent when
  blocks      \* the last block of this chain, and of the receiving chain

vars == <<holding, nft_owner, transfers, blocks>>

Ledger == [holding |-> holding, nft_owner |-> nft_owner, ok |-> TRUE]

-----------------------------------------------------------------------------
(* Messages sent by the account, run in order by the chain *)

Send(asset, to, amount) == [asset |-> asset, to |-> to, amount |-> amount]
TransferNft(token, to) == [asset |-> token, to |-> to, amount |-> 1]

\* The None of an Option<CosmosMsg>, which nobody runs.
NoMessage == [asset |-> None, to |-> None, amount |-> 0]

\* What the contracts and the bank do with a message: zero amounts, amounts
\* beyond the holding and tokens of others are refused.
Accepted(l, m) ==
  \/ m = NoMessage
  \/ m.asset \in Nfts /\ l.nft_owner[m.asset] = Account
  \/ m.asset \in Fungible /\ m.amount > 0 /\ l.holding[m.asset][Account] >= m.amount

\* The ledger of one asset.
Debited(held, from, amount) == [held EXCEPT ![from] = @ - amount]
Credited(held, to, amount) == [held EXCEPT ![to] = @ + amount]
Transferred(held, from, to, amount) == Credited(Debited(held, from, amount), to, amount)

Moved(l, m) ==
  IF m = NoMessage THEN l
  ELSE IF m.asset \in Nfts
  THEN [l EXCEPT !.nft_owner = [@ EXCEPT ![m.asset] = m.to]]
  ELSE [l EXCEPT !.holding =
          [@ EXCEPT ![m.asset] = Transferred(l.holding[m.asset], Account, m.to, m.amount)]]

\* Variant: a refused message takes effect like the others.
AfterUnchecked(l, m) == Moved(l, m)

\* One message; one that is refused undoes them all.
AfterMessage(l, m) ==
  IF l.ok /\ Accepted(l, m) THEN Moved(l, m) ELSE [l EXCEPT !.ok = FALSE]

Run(l, msgs) ==
  LET after[i \in 0..Len(msgs)] ==
        IF i = 0 THEN l ELSE AfterMessage(after[i - 1], msgs[i])
  IN  after[Len(msgs)]

\* The messages of a response take effect together or not at all.
Perform(msgs) ==
  LET after == Run(Ledger, msgs) IN
  /\ after.ok
  /\ holding' = after.holding
  /\ nft_owner' = after.nft_owner

-----------------------------------------------------------------------------
(* Handlers *)

Authorized(sender) == sender = Owner \/ sender = WarpAddr

Generic(sender, msgs) ==
  /\ Authorized(sender)
  /\ Perform(msgs)
  /\ UNCHANGED <<transfers, blocks>>

\* Variant: a message also for what the account has none of.
WithdrawRegardless(l, asset) ==
  IF asset \in Nfts
  THEN IF l.nft_owner[asset] = Owner THEN TransferNft(asset, Owner) ELSE NoMessage
  ELSE Send(asset, Owner, l.holding[asset][Account])

\* Variant: one unit stays behind.
WithdrawMost(l, asset) ==
  IF asset \in Nfts
  THEN IF l.nft_owner[asset] = Owner THEN TransferNft(asset, Owner) ELSE NoMessage
  ELSE IF l.holding[asset][Account] > 1
       THEN Send(asset, Owner, l.holding[asset][Account] - 1) ELSE NoMessage

\* withdraw_asset_native, _cw20 and _cw721.  The last one compares the owner
\* of the token with the owner of the account.
WithdrawAsset(l, asset) ==
  IF asset \in Nfts
  THEN IF l.nft_owner[asset] = Owner THEN TransferNft(asset, Owner) ELSE NoMessage
  ELSE IF l.holding[asset][Account] > 0
       THEN Send(asset, Owner, l.holding[asset][Account]) ELSE NoMessage

\* All holdings are read before the first message runs.
Withdrawal(list) == [i \in DOMAIN list |-> WithdrawAsset(Ledger, list[i])]

WithdrawAssets(sender, list) ==
  /\ Authorized(sender)
  /\ Perform(Withdrawal(list))
  /\ UNCHANGED <<transfers, blocks>>

\* A block delta is added to the height of this chain, and only where there is
\* a timeout block to replace.
TimeoutBlock(msg) ==
  IF msg.block_delta # None /\ msg.timeout_block # None
  THEN Some([revision |-> msg.timeout_block[1].revision,
             height |-> blocks["here"].height + msg.block_delta[1]])
  ELSE msg.timeout_block

\* Variant: the time of the block is left out.
TimeoutFromZero(msg) ==
  IF msg.seconds_delta # None THEN msg.seconds_delta ELSE msg.timeout_timestamp

\* A delta of seconds is added to twice the time of the block.
TimeoutTimestamp(msg) ==
  IF msg.seconds_delta # None
  THEN Some(blocks["here"].time + (blocks["here"].time + msg.seconds_delta[1]))
  ELSE msg.timeout_timestamp

\* What the message says on the wire, where None is zero.
ZeroHeight == [revision |-> 0, height |-> 0]
Timeouts(msg) ==
  [height |-> IF TimeoutBlock(msg) = None THEN ZeroHeight ELSE TimeoutBlock(msg)[1],
   time |-> IF TimeoutTimestamp(msg) = None THEN 0 ELSE TimeoutTimestamp(msg)[1]]

\* The receiving chain is at a height, of its revision, or past it.
Reached(height, block) ==
  \/ height.revision < Revision
  \/ height.revision = Revision /\ height.height <= block.height

\* The IBC module: zero is no timeout, and what counts is a block of the
\* receiving chain.
Elapsed(t, block) ==
  \/ t.height # ZeroHeight /\ Reached(t.height, block)
  \/ t.time # 0 /\ t.time <= block.time

\* The IBC module wants a timeout, one still to come as far as it knows: its
\* light client has seen some block of the receiving chain.
Sendable(t) ==
  /\ t.height # ZeroHeight \/ t.time # 0
  /\ \E seen \in Blocks :
       /\ seen.height <= blocks["there"].height /\ seen.time <= blocks["there"].time
       /\ ~Elapsed(t, seen)

IbcTransfer(sender, asset, amount, msg) ==
  /\ Authorized(sender)
  /\ Cardinality(transfers) < MaxTransfers
  /\ Sendable(Timeouts(msg))
  /\ holding[asset][Account] >= amount
  /\ holding' = [holding EXCEPT ![asset] = Debited(@, Account, amount)]
  /\ \E n \in 1..MaxTransfers :
       /\ \A other \in transfers : other.n # n
       /\ transfers' = transfers \cup
            {[n |-> n, asset |-> asset, amount |-> amount, timeouts |-> Timeouts(msg),
              msg |-> msg, sent |-> blocks["here"].time]}
  /\ UNCHANGED <<nft_owner, blocks>>

-----------------------------------------------------------------------------
(* The others *)

\* Anybody, the owner included, puts assets into the account.
Deposit(from, asset, amount) ==
  /\ from # Account
  /\ holding[asset][from] >= amount
  /\ holding' = [holding EXCEPT ![asset] = Transferred(@, from, Account, amount)]
  /\ UNCHANGED <<nft_owner, transfers, blocks>>

DepositNft(from, token) ==
  /\ from # Account
  /\ nft_owner[token] = from
  /\ nft_owner' = [nft_owner EXCEPT ![token] = Account]
  /\ UNCHANGED <<holding, transfers, blocks>>

\* A relayer delivers the transfer in time, to somebody on the other chain
\* who sends the assets back to one of us some day.
Arrive(t, to) ==
  /\ t \in transfers
  /\ ~Elapsed(t.timeouts, blocks["there"])
  /\ transfers' = transfers \ {t}
  /\ holding' = [holding EXCEPT ![t.asset] = Credited(@, to, t.amount)]
  /\ UNCHANGED <<nft_owner, blocks>>

\* Or proves that it timed out: the account has its assets back.
TimeOut(t) ==
  /\ t \in transfers
  /\ Elapsed(t.timeouts, blocks["there"])
  /\ transfers' = transfers \ {t}
  /\ holding' = [holding EXCEPT ![t.asset] = Credited(@, Account, t.amount)]
  /\ UNCHANGED <<nft_owner, blocks>>

\* The next block of either chain, some seconds later or in the same second.
NewBlock(chain, block) ==
  /\ block.height = blocks[chain].height + 1 /\ block.time >= blocks[chain].time
  /\ blocks' = [blocks EXCEPT ![chain] = block]
  /\ UNCHANGED <<holding, nft_owner, transfers>>

-----------------------------------------------------------------------------
(* Specification *)

\* The owner has everything to begin with; the chains are at any block.
Init ==
  /\ holding = [a \in Fungible |-> [h \in Holders |-> IF h = Owner THEN Supply[a] ELSE 0]]
  /\ nft_owner = [t \in Nfts |-> Owner]
  /\ transfers = {}
  /\ blocks \in [Chains -> Blocks]

\* One or two messages.
OneMsg == {Send(a, h, n) : a \in Fungible, h \in Others, n \in Amounts}
            \cup {TransferNft(t, h) : t \in Nfts, h \in Others}

Next ==
  \/ \E sender \in Holders, m \in OneMsg : Generic(sender, <<m>>)
  \/ \E sender \in Holders, m1, m2 \in OneMsg : Generic(sender, <<m1, m2>>)
  \/ \E sender \in Holders, list \in Lists : WithdrawAssets(sender, list)
  \/ \E sender \in Holders, a \in Fungible, n \in Amounts, msg \in IbcMsgs :
       IbcTransfer(sender, a, n, msg)
  \/ \E from \in Holders, a \in Fungible, n \in Amounts : Deposit(from, a, n)
  \/ \E from \in Holders, t \in Nfts : DepositNft(from, t)
  \/ \E t \in transfers : TimeOut(t) \/ \E to \in Others : Arrive(t, to)
  \/ \E chain \in Chains, block \in Blocks : NewBlock(chain, block)

Spec == Init /\ [][Next]_vars

-----------------------------------------------------------------------------
(* Properties *)

UnderWay(asset) ==
  LET ts == {t \in transfers : t.asset = asset} IN
  SumFunctionOnSet([t \in ts |-> t.amount], ts)

\* Variables in their types, and nothing is ever lost: all there is of an
\* asset is with the holders or in a transfer that arrives or comes back.
AccountTypeOK ==
  /\ holding \in [Fungible -> [Holders -> Nat]]
  /\ nft_owner \in [Nfts -> Holders]
  /\ blocks \in [Chains -> Blocks]
  /\ \A a \in Fungible :
       SumFunctionOnSet(holding[a], Holders) + UnderWay(a) = Supply[a]

Listed(list) == Range(list)

\* A withdrawal leaves the account nothing of a listed coin or cw20 token: the
\* owner has all of it, whichever amounts were read before the messages ran.
WithdrawalComplete ==
  [][\A list \in Lists : WithdrawAssets(WarpAddr, list) =>
       \A a \in Listed(list) \cap Fungible :
         /\ holding'[a][Account] = 0
         /\ holding'[a][Owner] = holding[a][Owner] + holding[a][Account]]_vars

\* A list that names no asset twice and no token the owner has already can
\* always be withdrawn, whatever the account holds of it: reply() sends the
\* list of a recurring job again and again, and a refusal would undo the
\* execution.  The two conclusions are all that can refuse WithdrawAssets.
AlwaysWithdrawable ==
  \A list \in Lists :
    /\ IsInjective(list)
    /\ \A t \in Listed(list) \cap Nfts : nft_owner[t] # Owner
    => Authorized(WarpAddr) /\ Run(Ledger, Withdrawal(list)).ok

\* A transfer given a delta of seconds, and no timeout block, does not come back
\* before the clock of the receiving chain is that much later than the block it
\* was sent in, whatever blocks the chains had in between: a height of this
\* chain, which says nothing of the other one, is no timeout of it.
NotBackEarly ==
  [][\A t \in transfers :
       TimeOut(t) /\ t.msg.seconds_delta # None /\ t.msg.timeout_block = None
       => blocks["there"].time >= t.sent + t.msg.seconds_delta[1]]_vars

\* What "withdraw all assets that are listed" says of a cw721 token in the
\* account.
ListedTokenWithdrawn ==
  [][\A list \in Lists : WithdrawAssets(WarpAddr, list) =>
       \A t \in Listed(list) \cap Nfts : nft_owner[t] = Account => nft_owner'[t] = Owner]_vars
=============================================================================
