---------------------------- MODULE MCJobQueries ----------------------------
(***************************************************************************)
(* JobQueries on a small instance: one owner with coins, jobs of one       *)
(* reward that can be raised, pages of one job.                            *)
(***************************************************************************)
EXTENDS JobQueries, TLC

CONSTANTS admin, user, a1, a2, controller

\* Every pending job can be evicted at once.
ImpatientConfig ==
  [owner |-> admin, fee_collector |-> admin, minimum_reward |-> 2,
   creation_fee_percentage |-> 50, cancellation_fee_percentage |-> 50,
   t_max |-> 0, t_min |-> 0, a_max |-> 1, a_min |-> 1, q_max |-> 2]

QueryConfigs == {ImpatientConfig}

OneShot == [recurring |-> FALSE, requeue_on_evict |-> FALSE, terminate_condition |-> FALSE,
            assets_to_withdraw |-> {}]
MCKinds == {OneShot}

MCUsers == {admin, user}
MCAddrs == {a1, a2}
NoUsers == {}
SymmetricAddrs == Permutations(MCAddrs)
\* Two jobs with their fees and an addition; a third when one is finished.
ElevenCoins == (user :> 11) @@ (admin :> 0)

\* No filter means the pending jobs; of the finished ones, some pass.
All == [ids |-> {}, job_status |-> {}, name |-> {}, owner |-> {}, condition_status |-> {}]
Executed == [All EXCEPT !.job_status = {"Executed"}, !.owner = {user}]

MCQueries == {All, Executed}
MCLimits == {{1}}
=============================================================================
