-------------------------- MODULE MCWarpController --------------------------
(***************************************************************************)
(* WarpController on small instances.                                      *)
(***************************************************************************)
EXTENDS WarpController, TLC

CONSTANTS admin, user, a1, a2, controller

\* The admin owns the configuration and collects the fees, as instantiate's
\* defaults have it.  A fee of 50% of 2 coins is 1: no payment is of zero.
BaseConfig ==
  [owner |-> admin, fee_collector |-> admin, minimum_reward |-> 2,
   creation_fee_percentage |-> 50, cancellation_fee_percentage |-> 50,
   t_max |-> 2, t_min |-> 1, a_max |-> 1, a_min |-> 1, q_max |-> 2]

Kind(r, e, t, w) ==
  [recurring |-> r, requeue_on_evict |-> e, terminate_condition |-> t,
   assets_to_withdraw |-> w]

OneShot == Kind(FALSE, FALSE, FALSE, {})
Recurring == Kind(TRUE, TRUE, TRUE, {})
Withdrawing == Kind(TRUE, FALSE, FALSE, {"native", "cw20"})

MCUsers == {admin, user}
MCAddrs == {a1, a2}
NoUsers == {}
SymmetricAddrs == Permutations(MCAddrs)

OneShotKinds == {OneShot}
TwoKinds == {OneShot, Recurring}
WithdrawingKinds == {OneShot, Withdrawing}

\* Only the user has coins to begin with; keepers and evictors live on what
\* they earn.  Seven coins pay for two jobs and leave one, or for one job and
\* an addition, and four can be spent from under a job.
EightCoins == [u \in MCUsers |-> IF u = user THEN 8 ELSE 0]
SevenCoins == [u \in MCUsers |-> IF u = user THEN 7 ELSE 0]

BaseConfigs == {BaseConfig}

\* The owner of a configuration may hand it over, let jobs be evicted sooner,
\* raise the smallest reward above those of waiting jobs, and keep all of a
\* cancelled reward.
StrictConfig ==
  [BaseConfig EXCEPT !.owner = user, !.t_min = 0, !.minimum_reward = 3,
                     !.cancellation_fee_percentage = 100]

TwoConfigs == {BaseConfig, StrictConfig}
=============================================================================
