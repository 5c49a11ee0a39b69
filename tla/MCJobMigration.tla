--------------------------- MODULE MCJobMigration ---------------------------
(***************************************************************************)
(* JobMigration on a small instance: three old jobs of a user who has an   *)
(* account, room for one new job, and an admin who migrates.               *)
(***************************************************************************)
EXTENDS JobMigration, TLC

CONSTANTS admin, user, a1, a2, controller

MigrationConfig ==
  [owner |-> admin, fee_collector |-> admin, minimum_reward |-> 2,
   creation_fee_percentage |-> 50, cancellation_fee_percentage |-> 50,
   t_max |-> 1, t_min |-> 1, a_max |-> 1, a_min |-> 1, q_max |-> 2]

MigrationConfigs == {MigrationConfig}

OldKind(r) ==
  [recurring |-> r, requeue_on_evict |-> FALSE, terminate_condition |-> FALSE,
   assets_to_withdraw |-> {}]

Old(id, status, r) ==
  [owner |-> user, name |-> id, status |-> status, reward |-> 2,
   age |-> IF status = "Pending" THEN 1 ELSE 0, kind |-> OldKind(r)]

MCOldPending == (1 :> Old(1, "Pending", FALSE)) @@ (3 :> Old(3, "Pending", TRUE))
MCOldFinished == 2 :> Old(2, "Executed", FALSE)
\* Job 1 has two messages.
MCOldMsgs == (1 :> 2) @@ (2 :> 2) @@ (3 :> 1)
MCOldAccounts == user :> a1
MCRank == (user :> 1) @@ (admin :> 2)

MCUsers == {admin, user}
MCAddrs == {a1, a2}
NoUsers == {}
MCBalance ==
  [x \in MCUsers \cup MCAddrs \cup {controller} |->
     CASE x = controller -> 4 [] x = a1 -> 2 [] OTHER -> 0]
NoFunds == [u \in MCUsers |-> 0]
MCKinds == {OldKind(FALSE)}
=============================================================================
