----------------------------- MODULE MCDelivery -----------------------------
(* The instance of Delivery that the configuration checks. *)
EXTENDS Delivery
=============================================================================
