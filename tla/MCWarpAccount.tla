---------------------------- MODULE MCWarpAccount ----------------------------
(***************************************************************************)
(* WarpAccount on a small instance: a native coin, a cw20 token, one cw721 *)
(* token, and lists that name one, several, or the same asset twice.       *)
(***************************************************************************)
EXTENDS WarpAccount

CONSTANTS luna, cw20, nft, other

MCFungible == {luna, cw20}
MCNfts == {nft}
MCOthers == {other}
MCSupply == [a \in MCFungible |-> IF a = luna THEN 2 ELSE 1]
MCLists == {<<luna>>, <<luna, cw20>>, <<cw20, nft, luna>>, <<luna, luna>>, <<nft>>}

Ibc(b, t, bd, sd) ==
  [timeout_block |-> b, timeout_timestamp |-> t, block_delta |-> bd, seconds_delta |-> sd]
At(r, h) == Some([revision |-> r, height |-> h])

\* No timeout; an absolute block or time; a block of the past with a delta; blocks
\* of another revision of the receiving chain, one with the delta of zero, which
\* counts; deltas of seconds, alone and with a block delta, which does not.
MCIbcMsgs ==
  {Ibc(None, None, None, None), Ibc(At(1, 2), None, None, None), Ibc(None, Some(3), None, None),
   Ibc(At(1, 1), None, Some(1), None), Ibc(At(0, 2), None, Some(1), None),
   Ibc(At(2, 1), None, None, Some(0)), Ibc(None, None, None, Some(2)),
   Ibc(None, Some(1), Some(1), Some(1))}
=============================================================================
