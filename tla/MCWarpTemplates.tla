--------------------------- MODULE MCWarpTemplates ---------------------------
(***************************************************************************)
(* WarpTemplates on a small instance: an admin and a user, two names, two  *)
(* denominations for the fee, one template given at the start.             *)
(***************************************************************************)
EXTENDS WarpTemplates, TLC

CONSTANTS admin, user, contract, luna, usd, swap, vote

MCUsers == {admin, user}
MCNames == {swap, vote}
MCDenoms == {luna, usd}

Charging(denom, fee) ==
  [owner |-> admin, fee_denom |-> denom, template_fee |-> fee, fee_collector |-> admin]
MCConfigs == {Charging(luna, 1), Charging(usd, 2)}

MCGiven == 0 :> [id |-> 0, owner |-> user, name |-> swap]
=============================================================================
