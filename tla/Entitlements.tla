----------------------------- MODULE Entitlements -----------------------------
(***************************************************************************)
(* One plan and all it limits: AI requests of a period (module Allowances) *)
(* and what there may be of agents, documents, numbers and colleagues      *)
(* (module Slots).                                                         *)
(*                                                                         *)
(* Source: app/services/entitlement_service.py.                            *)
(***************************************************************************)
EXTENDS Allowances, Slots

planVars == <<allowanceVars, slotVars>>

EntitlementsInit == AllowancesInit /\ SlotsInit

EntitlementsNext ==
    \/ AllowancesNext /\ UNCHANGED slotVars
    \/ SlotsNext /\ UNCHANGED allowanceVars

EntitlementsSpec == EntitlementsInit /\ [][EntitlementsNext]_planVars

\* No interleaving of the checks, which lock nothing, with the commits of what
\* they allowed exceeds the plan by more than was let through at once.
PlanHolds == OverrunBounded /\ CrowdingBounded

=============================================================================
