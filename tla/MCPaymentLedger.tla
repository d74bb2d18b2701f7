-------------------------- MODULE MCPaymentLedger --------------------------
(***************************************************************************)
(* Instances of PaymentLedger: who pays what, and how.                     *)
(***************************************************************************)
EXTENDS PaymentLedger, TLC

CONSTANTS a1, a2,           \* accounts
          i1, i2, m1, t1,   \* two notifications, something entered by staff, a transfer
          w1, w2            \* workers

\* PayPal reports a payment and a refund, each about one account; staff enter a
\* transfer from one to the other.
KindsMixed == i1 :> "ipn" @@ i2 :> "ipn" @@ t1 :> "transfer"
FromMixed == i1 :> a1 @@ i2 :> a2 @@ t1 :> a1
ToMixed == i1 :> a1 @@ i2 :> a2 @@ t1 :> a2
AmountMixed == i1 :> 4 @@ i2 :> -2 @@ t1 :> 1
StatusMixed == i1 :> "Completed" @@ i2 :> "Refunded" @@ t1 :> "other"

\* A payment entered by staff.
KindsManual == m1 :> "manual"
AccountManual == m1 :> a1
AmountManual == m1 :> 4
StatusManual == m1 :> "other"

=============================================================================
