------------------------------ MODULE Allowances ------------------------------
(***************************************************************************)
(* How many AI requests a workspace may make in a billing period.          *)
(*                                                                         *)
(* Source: app/services/entitlement_service.py,                            *)
(* app/services/usage_service.py, app/repositories/usage_repository.py,    *)
(* AgentWorker._handle of app/workers/ai_worker.py.                        *)
(*                                                                         *)
(* A period's usage is the sum of the events between the two bounds in the *)
(* subscription's row, which the billing sweep moves (module Billing) only *)
(* while the subscription is not over: until it comes, or once it has      *)
(* ended, now is past the bounds.  Nobody locks anything between a check   *)
(* and the commit of what it allowed.                                      *)
(***************************************************************************)
EXTENDS Integers, FiniteSets

CONSTANTS
    Limit,          \* what the plan allows
    Thinkers,       \* AI workers
    RoundsPerTurn,      \* MAX_ROUNDS of a turn
    MaxPeriods,     \* bound: periods that begin
    MaxPast         \* bound: AI requests counted by no period yet

ASSUME AllowancesAssumption ==
    /\ Limit \in Nat
    /\ RoundsPerTurn \in Nat \ {0}
    /\ IsFiniteSet(Thinkers)

VARIABLES
    used,         \* AI requests recorded between the bounds
    beyond,       \* AI requests recorded after the later bound
    past,         \* TRUE once now is after the later bound
    over,         \* TRUE once the subscription has ended
    thinking,     \* AI workers that have been let through
    inherited,    \* history: the part of used that is from before the sweep
    periods       \* bound: periods begun so far

allowanceVars == <<used, beyond, past, over, thinking, inherited, periods>>

AllowancesInit ==
    /\ used = 0 /\ beyond = 0
    /\ past = FALSE /\ over = FALSE
    /\ thinking = {}
    /\ inherited = 0
    /\ periods = 0

\* Mutant: a workspace at its limit is let through once more.
AllowedAtLimit(count, additional) == count + additional - 1 <= Limit

\* check: used + max(additional, 0) <= limit
Allowed(count, additional) == count + additional <= Limit

\* AgentWorker._handle asks for one request before a turn.
StartTurn(w) ==
    /\ w \notin thinking
    /\ Allowed(used, 1)
    /\ thinking' = thinking \cup {w}
    /\ UNCHANGED <<used, beyond, past, over, inherited, periods>>

\* UsageRecorder.ai_request: one event of as many requests as there were rounds,
\* recorded now; nothing is recorded of a turn without rounds.
Meter(w) ==
    \E rounds \in 0..RoundsPerTurn :
        /\ w \in thinking
        /\ thinking' = thinking \ {w}
        /\ IF past THEN /\ beyond + rounds <= MaxPast
                        /\ beyond' = beyond + rounds
                        /\ UNCHANGED used
           ELSE used' = used + rounds /\ UNCHANGED beyond
        /\ UNCHANGED <<past, over, inherited, periods>>

\* Rolled back, its events included.
TurnFails(w) ==
    /\ w \in thinking
    /\ thinking' = thinking \ {w}
    /\ UNCHANGED <<used, beyond, past, over, inherited, periods>>

\* The later bound passes.
PeriodEnds ==
    /\ ~past
    /\ past' = TRUE
    /\ UNCHANGED <<used, beyond, over, thinking, inherited, periods>>

\* Mutant: the new period counts the old one's usage as well.
RolledUsed == used + beyond

\* The events after the bound lie in the new period.
NextUsed == beyond

\* The sweep rolls the subscription over, or ends it: then nothing moves the
\* bounds again.
Sweep ==
    /\ past /\ ~over
    /\ \/ /\ periods < MaxPeriods
          /\ periods' = periods + 1
          /\ past' = FALSE
          /\ used' = NextUsed
          /\ inherited' = beyond
          /\ beyond' = 0
          /\ UNCHANGED over
       \/ over' = TRUE /\ UNCHANGED <<used, beyond, past, inherited, periods>>
    /\ UNCHANGED thinking

AllowancesNext ==
    \/ \E w \in Thinkers : StartTurn(w) \/ Meter(w) \/ TurnFails(w)
    \/ PeriodEnds \/ Sweep

AllowancesSpec == AllowancesInit /\ [][AllowancesNext]_allowanceVars

-----------------------------------------------------------------------------
(* Properties                                                              *)

\* Every variable has its type.
AllowancesTypeOK ==
    /\ used \in Nat /\ beyond \in Nat /\ inherited \in Nat /\ periods \in Nat
    /\ past \in BOOLEAN /\ over \in BOOLEAN
    /\ thinking \subseteq Thinkers

Larger(a, b) == IF a >= b THEN a ELSE b

\* The check locks nothing and asks for one request where a turn makes several,
\* so the plan is exceeded, but by no more than what was let through at once: by
\* one turn of RoundsPerTurn requests per worker, less one.  What the sweep finds
\* beyond the old period may have filled the new one before it began.
OverrunBounded ==
    used <= Larger(inherited, Limit - 1) + RoundsPerTurn * Cardinality(Thinkers)

\* Violated: "Period limits count what was consumed since `current_period_start`"
\* (entitlement_service.py).  What is consumed after the period's end is counted
\* by nothing until the sweep has been, and by nothing ever once the subscription
\* has ended.
CountedSinceStart ==
    used + beyond <= Larger(inherited, Limit - 1) + RoundsPerTurn * Cardinality(Thinkers)

=============================================================================
