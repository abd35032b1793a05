----------------------------- MODULE MCUserApi -----------------------------
(* Operations on the account in one run, on orders in the other. *)
EXTENDS UserApi

AccountRun == {"login", "chargeSettle"} \cup ProfileOperation
OrderRun == {"login", "chargeCurrent", "chargeOther", "read", "health"}

=============================================================================
