------------------------------ MODULE WarpBank ------------------------------
(***************************************************************************)
(* The chain below the contracts, as the contracts use it: the bank module *)
(* that moves coins of the fee denomination, and the key-value maps of     *)
(* cw-storage-plus.  Neither is code of this repository.                   *)
(*                                                                         *)
(* A payment fails when its amount is zero or the payer holds less; a      *)
(* failed payment fails the message that carries it, so it is a guard of   *)
(* the handler's action.                                                   *)
(***************************************************************************)
EXTENDS Integers

\* Coin::new(amount, fee_denom) sent by a BankMsg::Send.
Payment(from, to, amount) == [from |-> from, to |-> to, amount |-> amount]

Affords(b, p) == p.amount > 0 /\ b[p.from] >= p.amount

After(b, p) ==
  LET paid == [b EXCEPT ![p.from] = @ - p.amount] IN
  [paid EXCEPT ![p.to] = @ + p.amount]

\* Two payments of one response, in order; each one needs the funds that the
\* one before it left.
AffordsBoth(b, p1, p2) == Affords(b, p1) /\ Affords(After(b, p1), p2)

AfterBoth(b, p1, p2) == After(After(b, p1), p2)

\* IndexedMap::save and IndexedMap::remove.
Save(m, k, v) == [x \in DOMAIN m \cup {k} |-> IF x = k THEN v ELSE m[x]]

Remove(m, k) == [x \in DOMAIN m \ {k} |-> m[x]]

\* m is a map from some of the keys K to values in V.
IsMap(m, K, V) == DOMAIN m \subseteq K /\ m \in [DOMAIN m -> V]

EmptyMap == [x \in {} |-> x]
=============================================================================
