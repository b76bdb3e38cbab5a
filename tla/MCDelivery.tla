----------------------------- MODULE MCDelivery -----------------------------
(***************************************************************************)
(* A subscription s with two deliveries, so that one may come while the    *)
(* other is being sent, and a subscription t with one, so that one may be  *)
(* skipped or undone on account of the other.                              *)
(***************************************************************************)
EXTENDS Delivery, TLC

CONSTANTS s, t, d1, d2, d3

MCSubscriptionOf == (d1 :> s) @@ (d2 :> s) @@ (d3 :> t)
MCSubscriptionOfTwo == (d1 :> s) @@ (d3 :> t)
(* The two deliveries of s may be exchanged. *)
MCSymmetry == Permutations({d1, d2})

MCBackoff == (0 :> 1) @@ (1 :> 1)
=============================================================================
