----------------------------- MODULE MCBilling ------------------------------
(* Billing, instantiated for TLC.                                          *)
EXTENDS Billing, TLC

CONSTANTS basic, yearly

\* The basic plan is billed by the month after a trial of a day.
PriceDef == (basic :> 1) @@ (yearly :> 2)
TrialDef == (basic :> 1) @@ (yearly :> 0)
Months == <<2, 1>>
=============================================================================
