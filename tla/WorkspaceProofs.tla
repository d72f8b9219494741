--------------------------- MODULE WorkspaceProofs ---------------------------
(***************************************************************************)
(* What holds of the things a workspace keeps for itself, for any number of*)
(* people, requests, tokens and rows, and any limits: its plan, its default*)
(* agent, its template registry, who comes in, and how often they may ask. *)
(***************************************************************************)
EXTENDS Entitlements, Agents, Templates, Sessions, Invitations, RateLimit,
        FiniteSetTheorems, TLAPS

-----------------------------------------------------------------------------
(* The plan                                                                *)

(***************************************************************************)
(* What a check is worth.  It counts what is committed and asks for one; what*)
(* it allowed is committed later.  The invariants bound both together: what is*)
(* used and what those who were let through may still use.                 *)
(***************************************************************************)

\* One in a set more, one in a set less, and a part of the whole.
LEMMA Counts ==
    ASSUME NEW W, IsFiniteSet(W), NEW S, S \subseteq W, NEW w \in W
    PROVE  /\ IsFiniteSet(S)
           /\ Cardinality(S) \in Nat
           /\ Cardinality(W) \in Nat
           /\ Cardinality(S) <= Cardinality(W)
           /\ w \notin S => Cardinality(S \cup {w}) = Cardinality(S) + 1
           /\ w \in S => Cardinality(S \ {w}) = Cardinality(S) - 1
<1>1. IsFiniteSet(S)
  BY FS_Subset
<1>2. Cardinality(S) \in Nat /\ Cardinality(W) \in Nat
  BY <1>1, FS_CardinalityType
<1>3. Cardinality(S) <= Cardinality(W)
  BY FS_Subset
<1>4. w \notin S => Cardinality(S \cup {w}) = Cardinality(S) + 1
  BY <1>1, FS_AddElement
<1>5. w \in S => Cardinality(S \ {w}) = Cardinality(S) - 1
  BY <1>1, FS_RemoveElement
<1>6. QED
  BY <1>1, <1>2, <1>3, <1>4, <1>5

-----------------------------------------------------------------------------
(* The allowance of a period                                               *)

\* The most that may be recorded between the bounds.
Bound == Larger(inherited, Limit - 1) + RoundsPerTurn * Cardinality(Thinkers)

\* What is recorded, and what those who are thinking may still record.
Promised == used + RoundsPerTurn * Cardinality(thinking)

PromiseInv == AllowancesTypeOK /\ Promised <= Bound

\* Products of what is counted, for a solver that does not multiply: a turn is
\* worth RoundsPerTurn, and fewer turns are worth less.
LEMMA Worth ==
    ASSUME NEW r \in Nat, NEW m \in Nat, NEW n \in Nat
    PROVE  /\ r * n \in Nat
           /\ r * (n + 1) = r * n + r
           /\ m <= n => r * m <= r * n
<1>1. r * n \in Nat /\ r * m \in Nat /\ r * (n + 1) = r * n + r
  OBVIOUS
<1>2. ASSUME m <= n PROVE r * m <= r * n
  <2>1. PICK k \in Nat : n = m + k
    BY <1>2
  <2>2. r * n = r * m + r * k /\ r * k \in Nat
    BY <2>1
  <2>3. QED
    BY <1>1, <2>2
<1>3. QED
  BY <1>1, <1>2

LEMMA PromiseInit == AllowancesInit => PromiseInv
<1>1. Cardinality({}) = 0 /\ Cardinality(Thinkers) \in Nat
  BY AllowancesAssumption, FS_EmptySet, FS_CardinalityType
<1>2. RoundsPerTurn * 0 = 0 /\ RoundsPerTurn * Cardinality(Thinkers) \in Nat
  BY <1>1, AllowancesAssumption
<1>3. AllowancesInit => AllowancesTypeOK
  <2> SUFFICES ASSUME AllowancesInit PROVE AllowancesTypeOK
    OBVIOUS
  <2>1. past \in BOOLEAN /\ over \in BOOLEAN
    BY Zenon DEF AllowancesInit
  <2>2. used \in Nat /\ beyond \in Nat /\ inherited \in Nat /\ periods \in Nat
    BY DEF AllowancesInit
  <2>3. QED
    BY <2>1, <2>2 DEF AllowancesInit, AllowancesTypeOK
<1>4. AllowancesInit => Promised = 0
  BY <1>1, <1>2 DEF AllowancesInit, Promised
<1>5. AllowancesInit => Bound >= 0
  BY <1>2, AllowancesAssumption DEF AllowancesInit, Bound, Larger
<1>6. AllowancesInit => Bound \in Int
  BY <1>2, AllowancesAssumption DEF AllowancesInit, Bound, Larger
<1>7. QED
  BY <1>3, <1>4, <1>5, <1>6 DEF PromiseInv

LEMMA PromiseStep == PromiseInv /\ [AllowancesNext]_allowanceVars => PromiseInv'
<1> SUFFICES ASSUME PromiseInv, [AllowancesNext]_allowanceVars PROVE PromiseInv'
  OBVIOUS
<1> DEFINE all == Cardinality(Thinkers)
           now == Cardinality(thinking)
<1>1. /\ all \in Nat /\ now \in Nat /\ now <= all
      /\ RoundsPerTurn * all \in Nat /\ RoundsPerTurn * now \in Nat
      /\ RoundsPerTurn * now <= RoundsPerTurn * all
  <2>1. all \in Nat /\ now \in Nat /\ now <= all
    BY AllowancesAssumption, FS_CardinalityType, FS_Subset DEF PromiseInv, AllowancesTypeOK
  <2>2. QED
    BY <2>1, Worth, AllowancesAssumption
<1>2. ASSUME NEW w \in Thinkers, StartTurn(w) PROVE PromiseInv'
  <2>1. Cardinality(thinking') <= all /\ Cardinality(thinking') \in Nat
    <3>1. thinking' \subseteq Thinkers
      BY <1>2 DEF StartTurn, PromiseInv, AllowancesTypeOK
    <3>2. QED
      BY <3>1, AllowancesAssumption, FS_CardinalityType, FS_Subset
  <2>2. RoundsPerTurn * Cardinality(thinking') <= RoundsPerTurn * all
    BY <2>1, <1>1, Worth, AllowancesAssumption
  <2>3. RoundsPerTurn * Cardinality(thinking') \in Nat
    BY <2>1, AllowancesAssumption
  <2>4. used <= Limit - 1 /\ UNCHANGED <<used, inherited>>
    BY <1>2, AllowancesAssumption DEF StartTurn, Allowed, PromiseInv, AllowancesTypeOK
  <2>5. Promised' <= Bound'
    BY <1>1, <2>2, <2>3, <2>4, AllowancesAssumption
    DEF Promised, Bound, Larger, PromiseInv, AllowancesTypeOK
  <2>6. AllowancesTypeOK'
    BY <1>2 DEF StartTurn, PromiseInv, AllowancesTypeOK
  <2>7. QED
    BY <2>5, <2>6 DEF PromiseInv
<1>3. ASSUME NEW w \in Thinkers, Meter(w) \/ TurnFails(w) PROVE PromiseInv'
  <2>1. PICK rounds \in 0..RoundsPerTurn :
            /\ w \in thinking /\ thinking' = thinking \ {w}
            /\ used' \in {used, used + rounds}
            /\ beyond' \in {beyond, beyond + rounds}
            /\ UNCHANGED <<past, over, inherited, periods>>
    <3>1. CASE Meter(w)
      BY <3>1 DEF Meter
    <3>2. CASE TurnFails(w)
      BY <3>2, AllowancesAssumption DEF TurnFails
    <3>3. QED
      BY <1>3, <3>1, <3>2
  <2>2. /\ Cardinality(thinking') \in Nat
        /\ now = Cardinality(thinking') + 1
    <3>1. now = Cardinality(thinking') + 1 /\ Cardinality(thinking') = now - 1
      BY <2>1, <1>1, Counts, AllowancesAssumption DEF PromiseInv, AllowancesTypeOK
    <3>2. thinking' \subseteq Thinkers
      BY <2>1 DEF PromiseInv, AllowancesTypeOK
    <3>3. QED
      BY <3>1, <3>2, AllowancesAssumption, FS_Subset, FS_CardinalityType
  <2>3. RoundsPerTurn * now = RoundsPerTurn * Cardinality(thinking') + RoundsPerTurn
    BY <2>2, Worth, AllowancesAssumption
  <2>4. RoundsPerTurn * Cardinality(thinking') \in Nat
    BY <2>2, AllowancesAssumption
  <2>5. used' <= used + RoundsPerTurn /\ used' \in Nat /\ beyond' \in Nat
    BY <2>1, AllowancesAssumption DEF PromiseInv, AllowancesTypeOK
  <2>6. Bound' = Bound /\ Bound \in Int
    BY <1>1, <2>1, AllowancesAssumption
    DEF Bound, Larger, PromiseInv, AllowancesTypeOK
  <2>7. Promised' <= Bound'
    <3>1. Promised' = used' + RoundsPerTurn * Cardinality(thinking')
      BY DEF Promised
    <3>2. used + RoundsPerTurn * now <= Bound
      BY DEF Promised, PromiseInv
    <3> HIDE DEF now
    <3>3. QED
      BY <1>1, <2>3, <2>4, <2>5, <2>6, <3>1, <3>2, AllowancesAssumption
      DEF PromiseInv, AllowancesTypeOK
  <2>8. AllowancesTypeOK'
    BY <2>1, <2>5 DEF PromiseInv, AllowancesTypeOK
  <2>9. QED
    BY <2>7, <2>8 DEF PromiseInv
<1>4. CASE PeriodEnds \/ UNCHANGED allowanceVars
  <2>1. UNCHANGED <<used, thinking, inherited>>
    BY <1>4 DEF PeriodEnds, allowanceVars
  <2>2. Promised' = Promised /\ Bound' = Bound
    BY <2>1 DEF Promised, Bound, Larger
  <2>3. AllowancesTypeOK'
    BY <1>4 DEF PeriodEnds, allowanceVars, PromiseInv, AllowancesTypeOK
  <2>4. QED
    BY <2>2, <2>3 DEF PromiseInv
<1>5. CASE Sweep
  <2>1. AllowancesTypeOK' /\ thinking' = thinking
    <3>1. CASE periods' = periods + 1 /\ past' = FALSE /\ used' = beyond
               /\ inherited' = beyond /\ beyond' = 0 /\ UNCHANGED <<over, thinking>>
      <4>1. past' \in BOOLEAN /\ over' \in BOOLEAN
        BY <3>1, Zenon DEF PromiseInv, AllowancesTypeOK
      <4>2. QED
        BY <3>1, <4>1 DEF PromiseInv, AllowancesTypeOK
    <3>2. CASE over' = TRUE
               /\ UNCHANGED <<used, beyond, past, inherited, periods, thinking>>
      <4>1. past' \in BOOLEAN /\ over' \in BOOLEAN
        BY <3>2, Zenon DEF PromiseInv, AllowancesTypeOK
      <4>2. QED
        BY <3>2, <4>1 DEF PromiseInv, AllowancesTypeOK
    <3>3. QED
      BY <1>5, <3>1, <3>2 DEF Sweep, NextUsed
  <2>2. CASE used' = used /\ inherited' = inherited
    BY <2>1, <2>2 DEF PromiseInv, Promised, Bound, Larger
  <2>3. CASE used' = beyond /\ inherited' = beyond
    <3>1. Promised' = beyond + RoundsPerTurn * now
      BY <2>1, <2>3 DEF Promised
    <3>2. Bound' >= beyond + RoundsPerTurn * all
      BY <1>1, <2>3, AllowancesAssumption DEF Bound, Larger, PromiseInv, AllowancesTypeOK
    <3>3. Bound' \in Int
      BY <1>1, <2>3, AllowancesAssumption DEF Bound, Larger, PromiseInv, AllowancesTypeOK
    <3> HIDE DEF now, all
    <3>4. Promised' <= Bound'
      BY <1>1, <3>1, <3>2, <3>3 DEF PromiseInv, AllowancesTypeOK
    <3>5. QED
      BY <2>1, <3>4 DEF PromiseInv
  <2>4. QED
    BY <1>5, <2>2, <2>3 DEF Sweep, NextUsed
<1>6. QED
  BY <1>2, <1>3, <1>4, <1>5 DEF AllowancesNext

\* However workers, the end of the period and the sweep interleave, a workspace
\* exceeds its allowance by less than one turn per worker.
LEMMA PromiseMeansBounded == PromiseInv => OverrunBounded
<1> SUFFICES ASSUME PromiseInv PROVE OverrunBounded
  OBVIOUS
<1>1. Cardinality(thinking) \in Nat /\ Cardinality(Thinkers) \in Nat
  BY AllowancesAssumption, FS_CardinalityType, FS_Subset DEF PromiseInv, AllowancesTypeOK
<1>2. /\ RoundsPerTurn * Cardinality(thinking) \in Nat
      /\ RoundsPerTurn * Cardinality(Thinkers) \in Nat
  BY <1>1, AllowancesAssumption
<1>3. QED
  BY <1>2, AllowancesAssumption
  DEF PromiseInv, AllowancesTypeOK, Promised, Bound, Larger, OverrunBounded

-----------------------------------------------------------------------------
(* What there may be of                                                    *)

\* Rows that count, and rows those who were let through are about to add; where
\* there is neither, a limit of nothing is kept as well.
CrowdInv ==
    /\ SlotsTypeOK
    /\ slotKind \in {"agents", "documents"} =>
         \/ slots = 0 /\ asking = {}
         \/ slots + Cardinality(asking) <= Ceiling - 1 + Cardinality(Requests)

LEMMA CrowdInit == SlotsInit => CrowdInv
  BY DEF SlotsInit, CrowdInv, SlotsTypeOK, Kinds

LEMMA CrowdStep == CrowdInv /\ [SlotsNext]_slotVars => CrowdInv'
<1> SUFFICES ASSUME CrowdInv, [SlotsNext]_slotVars PROVE CrowdInv'
  OBVIOUS
<1> DEFINE all == Cardinality(Requests)
           now == Cardinality(asking)
<1>1. all \in Nat /\ now \in Nat /\ Cardinality(asking') \in Nat
  <2>1. asking' \subseteq Requests
    BY DEF CrowdInv, SlotsTypeOK, SlotsNext, slotVars, Require, TakeSlot,
           RequestFails, FreeSlot, DisableNumber, EnableNumber, Join
  <2>2. QED
    BY <2>1, SlotsAssumption, FS_CardinalityType, FS_Subset DEF CrowdInv, SlotsTypeOK
<1>2. ASSUME NEW r \in Requests, Require(r) PROVE CrowdInv'
  <2>1. SlotsTypeOK' /\ Room(slots) /\ slots' = slots
    BY <1>2 DEF Require, CrowdInv, SlotsTypeOK
  <2>2. Cardinality(asking') <= all
    BY <1>2, SlotsAssumption, FS_Subset DEF Require, CrowdInv, SlotsTypeOK
  <2>3. QED
    BY <1>1, <2>1, <2>2, SlotsAssumption DEF Room, CrowdInv, SlotsTypeOK
<1>3. ASSUME NEW r \in Requests, TakeSlot(r) \/ RequestFails(r) PROVE CrowdInv'
  <2>1. /\ r \in asking /\ asking' = asking \ {r}
        /\ slots' = slots \/ slots' = slots + 1
        /\ UNCHANGED <<slotKind, spare>>
    BY <1>3 DEF TakeSlot, RequestFails
  <2>2. Cardinality(asking') = now - 1
    BY <2>1, Counts, SlotsAssumption DEF CrowdInv, SlotsTypeOK
  <2>3. SlotsTypeOK'
    BY <2>1 DEF CrowdInv, SlotsTypeOK
  <2> HIDE DEF now, all
  <2>4. slots' + Cardinality(asking') <= slots + now
    BY <1>1, <2>1, <2>2 DEF CrowdInv, SlotsTypeOK
  <2>5. (slotKind \in {"agents", "documents"}) => slots + now <= Ceiling - 1 + all
    BY <2>1 DEF CrowdInv, now, all
  <2>6. (slotKind \in {"agents", "documents"}) =>
            slots' + Cardinality(asking') <= Ceiling - 1 + all
    BY <1>1, <2>1, <2>3, <2>4, <2>5, SlotsAssumption DEF CrowdInv, SlotsTypeOK
  <2>7. QED
    BY <2>1, <2>3, <2>6 DEF CrowdInv, all
<1>4. CASE FreeSlot
  <2>1. SlotsTypeOK' /\ UNCHANGED <<slotKind, asking>> /\ slots > 0 /\ slots' = slots - 1
    BY <1>4 DEF FreeSlot, CrowdInv, SlotsTypeOK
  <2>2. QED
    BY <1>1, <2>1, SlotsAssumption DEF CrowdInv, SlotsTypeOK
<1>5. CASE DisableNumber \/ EnableNumber \/ Join
  <2>1. slotKind' \notin {"agents", "documents"}
    BY <1>5 DEF DisableNumber, EnableNumber, Join
  <2>2. SlotsTypeOK'
    <3>1. CASE DisableNumber
      BY <3>1 DEF DisableNumber, CrowdInv, SlotsTypeOK
    <3>2. CASE EnableNumber
      BY <3>2 DEF EnableNumber, CrowdInv, SlotsTypeOK
    <3>3. CASE Join
      BY <3>3 DEF Join, CrowdInv, SlotsTypeOK
    <3>4. QED
      BY <1>5, <3>1, <3>2, <3>3
  <2>3. QED
    BY <2>1, <2>2 DEF CrowdInv
<1>6. CASE UNCHANGED slotVars
  BY <1>6 DEF slotVars, CrowdInv, SlotsTypeOK
<1>7. QED
  BY <1>2, <1>3, <1>4, <1>5, <1>6 DEF SlotsNext

LEMMA CrowdMeansBounded == CrowdInv => CrowdingBounded
<1> SUFFICES ASSUME CrowdInv PROVE CrowdingBounded
  OBVIOUS
<1>1. Cardinality(asking) \in Nat /\ Cardinality(Requests) \in Nat
  BY SlotsAssumption, FS_CardinalityType, FS_Subset DEF CrowdInv, SlotsTypeOK
<1>2. QED
  BY <1>1, SlotsAssumption DEF CrowdInv, SlotsTypeOK, CrowdingBounded

-----------------------------------------------------------------------------
(* The plan                                                                *)

LEMMA PlanInvariant == EntitlementsSpec => [](PromiseInv /\ CrowdInv)
<1>1. EntitlementsInit => PromiseInv /\ CrowdInv
  BY PromiseInit, CrowdInit DEF EntitlementsInit
<1>2. PromiseInv /\ CrowdInv /\ [EntitlementsNext]_planVars => (PromiseInv /\ CrowdInv)'
  <2>1. [EntitlementsNext]_planVars =>
            [AllowancesNext]_allowanceVars /\ [SlotsNext]_slotVars
    BY DEF EntitlementsNext, planVars
  <2>2. QED
    BY <2>1, PromiseStep, CrowdStep
<1>3. QED
  BY <1>1, <1>2, PTL DEF EntitlementsSpec

\* Every variable of the plan's two modules has its type.
THEOREM PlanTypesCorrect == EntitlementsSpec => [](AllowancesTypeOK /\ SlotsTypeOK)
<1>1. PromiseInv /\ CrowdInv => AllowancesTypeOK /\ SlotsTypeOK
  BY DEF PromiseInv, CrowdInv
<1>2. QED
  BY <1>1, PlanInvariant, PTL

\* Neither a crowd of workers, nor a period that ends under them, nor requests
\* that all see the last slot exceed a plan by more than was let through at once.
THEOREM PlanIsKept == EntitlementsSpec => []PlanHolds
<1>1. PromiseInv /\ CrowdInv => PlanHolds
  BY PromiseMeansBounded, CrowdMeansBounded DEF PlanHolds
<1>2. QED
  BY <1>1, PlanInvariant, PTL

-----------------------------------------------------------------------------
(* Settings: the default agent and the template registry                   *)

\* A promotion that runs alone has read who is the default, and is to clear them.
Promotions ==
    \A d \in Admins :
        setting[d].kind = "promote" =>
            /\ setting[d].on \in Agents
            /\ setting[d].alone =>
                setting[d].seen = isDefault /\ \A o \in Admins : setting[o].kind = "promote" => o = d

AgentsInv == AgentsTypeOK /\ Promotions /\ SingleDefault

\* A synchronisation that runs alone compares what it is told with what is there.
Copies ==
    \A r \in Syncs :
        syncing[r].stage # "idle" /\ syncing[r].alone =>
            /\ \A o \in Syncs : syncing[o].stage # "idle" => o = r
            /\ syncing[r].stage = "write" => syncing[r].read = registry

TemplatesInv == TemplatesTypeOK /\ Copies /\ RegistryIsLatest


LEMMA AgentsStep == AgentsInv /\ [AgentsNext]_agentsVars => AgentsInv'
<1>. SUFFICES ASSUME AgentsInv, [AgentsNext]_agentsVars PROVE AgentsInv'
  OBVIOUS
<1>. USE DEF AgentsInv
<1>1. CASE UNCHANGED agentsVars
  BY <1>1 DEF agentsVars, AgentsTypeOK, Promotions, SingleDefault
<1>2. /\ Idle \in [kind : {"none", "create", "status", "promote"},
                   on : Agents \cup {NoAgent}, to : Statuses,
                   seen : SUBSET Agents, alone : BOOLEAN]
      /\ Idle.kind = "none"
  BY DEF Idle, Statuses
<1>3. ASSUME NEW d \in Admins,
             NEW ask \in [kind : {"none", "create", "status", "promote"},
                          on : Agents \cup {NoAgent}, to : Statuses,
                          seen : SUBSET Agents, alone : BOOLEAN],
             ask.kind # "promote", Ask(d, ask)
      PROVE  AgentsInv'
  <2>1. AgentsTypeOK'
    BY <1>3, AgentsAssumption DEF Ask, AgentsTypeOK
  <2>2. Promotions'
    BY <1>3 DEF Ask, AgentsTypeOK, Promotions
  <2>. QED
    BY <1>3, <2>1, <2>2 DEF Ask, SingleDefault
<1>4. ASSUME NEW d \in Admins, Create(d) \/ Update(d) PROVE AgentsInv'
  <2>1. "draft" \in Statuses
    BY DEF Statuses
  <2>2. CASE Create(d)
    <3>1. PICK a \in Agents : Ask(d, [Idle EXCEPT !.kind = "create", !.on = a])
      BY <2>2 DEF Create
    <3>2. PICK ask : ask = [Idle EXCEPT !.kind = "create", !.on = a]
      OBVIOUS
    <3>3. ask \in [kind : {"none", "create", "status", "promote"},
                   on : Agents \cup {NoAgent}, to : Statuses,
                   seen : SUBSET Agents, alone : BOOLEAN] /\ ask.kind # "promote"
      BY <2>1, <3>2 DEF Idle
    <3>4. Ask(d, ask)
      BY <3>1, <3>2
    <3>. QED
      BY <1>3, <3>3, <3>4
  <2>3. CASE Update(d)
    <3>1. PICK a \in Agents, to \in Statuses :
                Ask(d, [Idle EXCEPT !.kind = "status", !.on = a, !.to = to])
      BY <2>3 DEF Update
    <3>2. PICK ask : ask = [Idle EXCEPT !.kind = "status", !.on = a, !.to = to]
      OBVIOUS
    <3>3. ask \in [kind : {"none", "create", "status", "promote"},
                   on : Agents \cup {NoAgent}, to : Statuses,
                   seen : SUBSET Agents, alone : BOOLEAN] /\ ask.kind # "promote"
      BY <3>2 DEF Idle
    <3>4. Ask(d, ask)
      BY <3>1, <3>2
    <3>. QED
      BY <1>3, <3>3, <3>4
  <2>. QED
    BY <1>4, <2>2, <2>3
<1>5. ASSUME NEW d \in Admins, MakeDefault(d) PROVE AgentsInv'
  <2>1. PICK a \in Agents :
            setting' =
              [o \in Admins |->
                IF o = d THEN [Idle EXCEPT !.kind = "promote", !.on = a,
                                           !.seen = isDefault, !.alone = Promoting = {}]
                ELSE IF o \in Promoting THEN [setting[o] EXCEPT !.alone = FALSE]
                ELSE setting[o]]
    BY <1>5 DEF MakeDefault
  <2>2. /\ setting[d] = Idle /\ settings < MaxSettings /\ settings' = settings + 1
        /\ UNCHANGED <<agentStatus, isDefault, grants, rivals>>
    BY <1>5 DEF MakeDefault
  <2>a. PICK alone \in BOOLEAN : alone <=> Promoting = {}
    OBVIOUS
  <2>b. PICK r : r = [Idle EXCEPT !.kind = "promote", !.on = a, !.seen = isDefault,
                                  !.alone = alone]
    OBVIOUS
  <2>3. /\ r \in [kind : {"none", "create", "status", "promote"},
                  on : Agents \cup {NoAgent}, to : Statuses,
                  seen : SUBSET Agents, alone : BOOLEAN]
        /\ r.kind = "promote" /\ r.on = a /\ r.seen = isDefault
        /\ r.alone => Promoting = {}
    BY <2>a, <2>b DEF Idle, AgentsTypeOK, Statuses
  <2>c. setting' = [o \in Admins |-> IF o = d THEN r
                        ELSE IF o \in Promoting THEN [setting[o] EXCEPT !.alone = FALSE]
                        ELSE setting[o]]
    <3>1. alone = (Promoting = {})
      BY <2>a
    <3>. QED
      BY <2>1, <2>b, <3>1
  <2>4. ASSUME NEW o \in Admins
        PROVE setting'[o] \in [kind : {"none", "create", "status", "promote"},
                               on : Agents \cup {NoAgent}, to : Statuses,
                               seen : SUBSET Agents, alone : BOOLEAN]
    <3>1. CASE o = d
      BY <2>3, <2>c, <3>1
    <3>2. CASE o # d
      BY <2>c, <3>2 DEF AgentsTypeOK
    <3>. QED
      BY <3>1, <3>2
  <2>5. AgentsTypeOK'
    <3>1. setting' \in [Admins -> [kind : {"none", "create", "status", "promote"},
                               on : Agents \cup {NoAgent}, to : Statuses,
                               seen : SUBSET Agents, alone : BOOLEAN]]
      BY <2>c, <2>4
    <3>. QED
      BY <2>2, <3>1, AgentsAssumption DEF AgentsTypeOK
  <2>6. ASSUME NEW o \in Admins, setting'[o].kind = "promote"
        PROVE  /\ setting'[o].on \in Agents
               /\ setting'[o].alone =>
                    /\ setting'[o].seen = isDefault
                    /\ \A p \in Admins : setting'[p].kind = "promote" => p = o
    <3>1. CASE o = d
      <4>1. \A p \in Admins : p # d => setting'[p].kind = setting[p].kind
        BY <2>c DEF AgentsTypeOK
      <4>. QED
        BY <2>3, <2>c, <3>1, <4>1 DEF Promoting
    <3>2. CASE o # d /\ o \in Promoting
      <4>1. setting'[o] = [setting[o] EXCEPT !.alone = FALSE]
        BY <2>c, <3>2
      <4>. QED
        BY <3>2, <4>1 DEF AgentsTypeOK, Promotions, Promoting
    <3>3. CASE o # d /\ o \notin Promoting
      BY <2>c, <2>6, <3>3 DEF Promoting
    <3>. QED
      BY <3>1, <3>2, <3>3
  <2>7. Promotions'
    BY <2>2, <2>6 DEF Promotions
  <2>. QED
    BY <2>2, <2>5, <2>7 DEF SingleDefault
<1>6. ASSUME NEW d \in Admins, setting' = [setting EXCEPT ![d] = Idle],
             UNCHANGED <<isDefault, grants, rivals, settings>>,
             agentStatus' \in [Agents -> {"absent"} \cup Statuses]
      PROVE  AgentsInv'
  <2>1. AgentsTypeOK'
    BY <1>2, <1>6 DEF AgentsTypeOK
  <2>2. Promotions'
    BY <1>2, <1>6 DEF AgentsTypeOK, Promotions
  <2>. QED
    BY <1>6, <2>1, <2>2 DEF SingleDefault
<1>7. ASSUME NEW d \in Admins, Settle(d) PROVE AgentsInv'
  <2>1. CASE setting[d].kind = "promote"
    <3>1. PICK s : s = setting[d]
      OBVIOUS
    <3>2. /\ setting' = [setting EXCEPT ![d] = Idle]
          /\ isDefault' = (isDefault \ (s.seen \ {s.on})) \cup ({s.on} \ s.seen)
          /\ rivals' = ~s.alone
          /\ UNCHANGED <<agentStatus, grants, settings>>
      BY <1>7, <2>1, <3>1 DEF Settle, ClearDefaults
    <3>3. s.on \in Agents /\ s.seen \subseteq Agents /\ s.alone \in BOOLEAN
          /\ (s.alone => s.seen = isDefault /\ \A o \in Admins : setting[o].kind = "promote" => o = d)
      BY <2>1, <3>1 DEF Promotions, AgentsTypeOK
    <3>4. AgentsTypeOK'
      BY <1>2, <3>2, <3>3 DEF AgentsTypeOK
    <3>5. Promotions'
      <4>1. \A o \in Admins : setting'[o] = IF o = d THEN Idle ELSE setting[o]
        BY <3>2 DEF AgentsTypeOK
      <4>2. \A o \in Admins : o # d /\ setting[o].kind = "promote" => ~setting[o].alone
        BY <2>1 DEF Promotions
      <4>. QED
        BY <1>2, <4>1, <4>2 DEF Promotions
    <3>6. CASE s.alone
      <4>1. isDefault' = {s.on}
        BY <3>2, <3>3, <3>6
      <4>2. Cardinality(isDefault') = 1
        BY <4>1, FS_Singleton
      <4>. QED
        BY <3>4, <3>5, <4>2 DEF SingleDefault
    <3>7. CASE ~s.alone
      BY <3>2, <3>4, <3>5, <3>7 DEF SingleDefault
    <3>. QED
      BY <3>3, <3>6, <3>7
  <2>2. CASE setting[d].kind # "promote"
    BY <1>6, <1>7, <2>2 DEF Settle, AgentsTypeOK
  <2>. QED
    BY <2>1, <2>2
<1>8. ASSUME NEW d \in Admins, Drop(d) PROVE AgentsInv'
  BY <1>6, <1>8 DEF Drop, AgentsTypeOK
<1>9. CASE SetGrant
  <2>1. AgentsTypeOK'
    BY <1>9, AgentsAssumption DEF SetGrant, AgentsTypeOK
  <2>. QED
    BY <1>9, <2>1 DEF SetGrant, Promotions, SingleDefault
<1>. QED
  BY <1>1, <1>4, <1>5, <1>7, <1>8, <1>9 DEF AgentsNext

LEMMA AgentsInvariant == AgentsSpec => []AgentsInv
<1>1. AgentsInit => AgentsInv
  <2>. SUFFICES ASSUME AgentsInit PROVE AgentsInv
    OBVIOUS
  <2>1. AgentsTypeOK
    <3>1. /\ agentStatus \in [Agents -> {"absent"} \cup Statuses] /\ isDefault \subseteq Agents
          /\ grants \in [Agents -> [Tools -> {"none", "enabled", "disabled"}]]
          /\ rivals \in BOOLEAN
      BY DEF AgentsInit, Statuses
    <3>3. settings \in 0..MaxSettings
      BY AgentsAssumption DEF AgentsInit
    <3>2. Idle \in [kind : {"none", "create", "status", "promote"},
                    on : Agents \cup {NoAgent}, to : Statuses,
                    seen : SUBSET Agents, alone : BOOLEAN]
      BY DEF Idle, Statuses
    <3>. QED
      BY <3>1, <3>2, <3>3 DEF AgentsInit, AgentsTypeOK
  <2>2. Promotions
    BY DEF AgentsInit, Promotions, Idle
  <2>3. SingleDefault
    BY FS_EmptySet DEF AgentsInit, SingleDefault
  <2>. QED
    BY <2>1, <2>2, <2>3 DEF AgentsInv
<1>. QED
  BY <1>1, AgentsStep, PTL DEF AgentsSpec

-----------------------------------------------------------------------------
LEMMA TemplatesStep == TemplatesInv /\ [TemplatesNext]_templateVars => TemplatesInv'
<1>. SUFFICES ASSUME TemplatesInv, [TemplatesNext]_templateVars PROVE TemplatesInv'
  OBVIOUS
<1>. USE DEF TemplatesInv
<1>. DEFINE Sync == [stage : {"idle", "ask", "read", "write"}, page : Nat,
                     told : [Templates -> Reported \cup {"none"}],
                     read : [Templates -> Known], alone : BOOLEAN]
<1>1. CASE UNCHANGED templateVars
  BY <1>1 DEF templateVars, TemplatesTypeOK, Copies, RegistryIsLatest, CampaignMay, FollowUpMay
<1>2. CASE MetaDecides
  <2>1. TemplatesTypeOK'
    BY <1>2, TemplatesAssumption DEF MetaDecides, TemplatesTypeOK
  <2>. QED
    BY <1>2, <2>1 DEF MetaDecides, Copies, RegistryIsLatest, CampaignMay, FollowUpMay
<1>3. NoSync \in Sync /\ NoSync.stage = "idle"
  BY DEF NoSync, Unlisted, NoRegistry, Known, Reported
<1>4. ASSUME NEW r \in Syncs, NEW s \in Sync, syncing[r].stage # "idle",
             syncing' = [syncing EXCEPT ![r] = s], s.alone = syncing[r].alone \/ s = NoSync,
             s.stage = "write" => s.read = registry,
             UNCHANGED <<atMeta, registry, listed, crossing, changes, syncs>>
      PROVE  TemplatesInv'
  <2>1. TemplatesTypeOK'
    BY <1>4 DEF TemplatesTypeOK
  <2>2. Copies'
    BY <1>3, <1>4 DEF TemplatesTypeOK, Copies
  <2>. QED
    BY <1>4, <2>1, <2>2 DEF RegistryIsLatest, CampaignMay, FollowUpMay
<1>5. ASSUME NEW r \in Syncs, StartSync(r) PROVE TemplatesInv'
  <2>1. /\ syncing[r].stage = "idle" /\ syncs < MaxSyncs /\ syncs' = syncs + 1
        /\ UNCHANGED <<atMeta, registry, listed, crossing, changes>>
    BY <1>5 DEF StartSync
  <2>a. PICK alone \in BOOLEAN : alone <=> Running = {}
    OBVIOUS
  <2>b. PICK s : s = [NoSync EXCEPT !.stage = "ask", !.alone = alone]
    OBVIOUS
  <2>2. s \in Sync /\ s.stage = "ask" /\ (s.alone => Running = {})
    BY <2>a, <2>b DEF NoSync, Unlisted, NoRegistry, Known, Reported
  <2>c. syncing' = [o \in Syncs |-> IF o = r THEN s
                        ELSE IF o \in Running THEN [syncing[o] EXCEPT !.alone = FALSE]
                        ELSE syncing[o]]
    <3>1. alone = (Running = {})
      BY <2>a
    <3>. QED
      BY <1>5, <2>b, <3>1 DEF StartSync
  <2>3. ASSUME NEW o \in Syncs PROVE syncing'[o] \in Sync
    <3>1. CASE o = r
      BY <2>2, <2>c, <3>1
    <3>2. CASE o # r
      BY <2>c, <3>2 DEF TemplatesTypeOK
    <3>. QED
      BY <3>1, <3>2
  <2>4. TemplatesTypeOK'
    <3>1. syncing' \in [Syncs -> Sync]
      BY <2>c, <2>3
    <3>. QED
      BY <2>1, <3>1, TemplatesAssumption DEF TemplatesTypeOK
  <2>5. ASSUME NEW o \in Syncs, syncing'[o].stage # "idle", syncing'[o].alone
        PROVE  /\ \A p \in Syncs : syncing'[p].stage # "idle" => p = o
               /\ syncing'[o].stage # "write"
    <3>1. \A p \in Syncs : p # r => syncing'[p].stage = syncing[p].stage
      BY <2>c DEF TemplatesTypeOK
    <3>2. CASE o = r
      BY <2>2, <2>5, <2>c, <3>1, <3>2 DEF Running
    <3>3. CASE o # r /\ o \in Running
      <4>1. syncing'[o] = [syncing[o] EXCEPT !.alone = FALSE]
        BY <2>c, <3>3
      <4>. QED
        BY <2>5, <3>3, <4>1 DEF TemplatesTypeOK
    <3>4. CASE o # r /\ o \notin Running
      BY <2>5, <2>c, <3>4 DEF Running
    <3>. QED
      BY <3>2, <3>3, <3>4
  <2>6. Copies'
    BY <2>5 DEF Copies
  <2>. QED
    BY <2>1, <2>4, <2>6 DEF RegistryIsLatest, CampaignMay, FollowUpMay
<1>6. ASSUME NEW r \in Syncs, FetchPage(r) PROVE TemplatesInv'
  <2>1. PICK told : told = [t \in Templates |->
                IF PageOf[t] = syncing[r].page THEN atMeta[t] ELSE syncing[r].told[t]]
    OBVIOUS
  <2>2. told \in [Templates -> Reported \cup {"none"}]
    BY <2>1 DEF TemplatesTypeOK
  <2>3. PICK stage \in {"read", "ask"} :
            syncing' = [syncing EXCEPT ![r] = [syncing[r] EXCEPT !.told = told,
                            !.page = syncing[r].page + 1, !.stage = stage]]
    BY <1>6, <2>1 DEF FetchPage, TemplatesTypeOK
  <2>4. PICK s : s = [syncing[r] EXCEPT !.told = told, !.page = syncing[r].page + 1, !.stage = stage]
    OBVIOUS
  <2>5. s \in Sync /\ s.alone = syncing[r].alone /\ s.stage = stage
    <3>1. syncing[r] \in Sync
      BY DEF TemplatesTypeOK
    <3>2. syncing[r].page + 1 \in Nat
      BY <3>1
    <3>. QED
      BY <2>2, <2>4, <3>1, <3>2
  <2>6. syncing' = [syncing EXCEPT ![r] = s] /\ s.stage # "write"
    BY <2>3, <2>4, <2>5
  <2>7. syncing[r].stage # "idle"
        /\ UNCHANGED <<atMeta, registry, listed, crossing, changes, syncs>>
    BY <1>6 DEF FetchPage
  <2>. QED
    BY <1>4, <2>5, <2>6, <2>7
<1>7. ASSUME NEW r \in Syncs, SyncFails(r) PROVE TemplatesInv'
  BY <1>3, <1>4, <1>7 DEF SyncFails
<1>8. ASSUME NEW r \in Syncs, ReadRegistry(r) PROVE TemplatesInv'
  <2>1. PICK s : s = [syncing[r] EXCEPT !.stage = "write", !.read = registry]
    OBVIOUS
  <2>2. s \in Sync /\ s.alone = syncing[r].alone /\ s.read = registry
    BY <2>1 DEF TemplatesTypeOK
  <2>3. syncing' = [syncing EXCEPT ![r] = s]
    BY <1>8, <2>1 DEF ReadRegistry, TemplatesTypeOK
  <2>. QED
    BY <1>4, <1>8, <2>2, <2>3 DEF ReadRegistry
<1>9. ASSUME NEW r \in Syncs, CommitSync(r) PROVE TemplatesInv'
  <2>1. PICK s : s = syncing[r]
    OBVIOUS
  <2>2. PICK new : new = [t \in Templates |-> Mirrored(s.told[t], s.read[t])]
    OBVIOUS
  <2>3. s.stage = "write" /\ syncing' = [syncing EXCEPT ![r] = NoSync]
        /\ UNCHANGED <<atMeta, changes, syncs>>
    BY <1>9, <2>1 DEF CommitSync
  <2>4. CASE UNCHANGED <<registry, listed, crossing>>
    BY <1>3, <1>4, <2>1, <2>3, <2>4
  <2>5. CASE /\ registry' = [t \in Templates |->
                    IF new[t] = s.read[t] THEN registry[t] ELSE new[t]]
             /\ listed' = s.told
             /\ crossing' = ~s.alone
    <3>1. s \in Sync
      BY <2>1 DEF TemplatesTypeOK
    <3>2. \A t \in Templates : new[t] \in Known
      BY <2>2, <3>1 DEF Mirrored, Withdrawn, StatusOf, Known
    <3>3. TemplatesTypeOK'
      BY <1>3, <2>3, <2>5, <3>1, <3>2 DEF TemplatesTypeOK
    <3>4. Copies'
      <4>1. \A o \in Syncs : syncing'[o] = IF o = r THEN NoSync ELSE syncing[o]
        BY <2>3 DEF TemplatesTypeOK
      <4>2. \A o \in Syncs : o # r /\ syncing[o].stage # "idle" => ~syncing[o].alone
        BY <2>1, <2>3 DEF Copies
      <4>. QED
        BY <1>3, <4>1, <4>2 DEF Copies
    <3>5. CASE s.alone
      <4>1. s.read = registry
        BY <2>1, <2>3, <3>5 DEF Copies
      <4>2. ASSUME NEW t \in Templates
            PROVE  registry'[t] = Mirrored(s.told[t], s.read[t])
        BY <2>2, <2>5, <4>1
      <4>. QED
        BY <2>5, <3>1, <3>3, <3>4, <4>2
        DEF RegistryIsLatest, CampaignMay, FollowUpMay, Mirrored, Withdrawn, StatusOf, Reported
    <3>6. CASE ~s.alone
      BY <2>5, <3>3, <3>4, <3>6 DEF RegistryIsLatest
    <3>. QED
      BY <3>1, <3>5, <3>6
  <2>. QED
    BY <1>9, <2>1, <2>2, <2>4, <2>5 DEF CommitSync
<1>. QED
  BY <1>1, <1>2, <1>5, <1>6, <1>7, <1>8, <1>9 DEF TemplatesNext

LEMMA TemplatesInvariant == TemplatesSpec => []TemplatesInv
<1>1. TemplatesInit => TemplatesInv
  <2>. SUFFICES ASSUME TemplatesInit PROVE TemplatesInv
    OBVIOUS
  <2>1. /\ Unlisted \in [Templates -> Reported \cup {"none"}]
        /\ NoRegistry \in [Templates -> Known]
        /\ \A t \in Templates : Unlisted[t] = "none" /\ NoRegistry[t] = "absent"
    BY DEF Unlisted, NoRegistry, Known
  <2>2. NoSync \in [stage : {"idle", "ask", "read", "write"}, page : Nat,
                     told : [Templates -> Reported \cup {"none"}],
                     read : [Templates -> Known], alone : BOOLEAN]
        /\ NoSync.stage = "idle"
    BY <2>1 DEF NoSync
  <2>3. TemplatesTypeOK
    <3>1. syncing \in [Syncs -> [stage : {"idle", "ask", "read", "write"}, page : Nat,
                              told : [Templates -> Reported \cup {"none"}],
                              read : [Templates -> Known], alone : BOOLEAN]]
      BY <2>2 DEF TemplatesInit
    <3>2. changes \in 0..MaxChanges /\ syncs \in 0..MaxSyncs
      BY TemplatesAssumption DEF TemplatesInit
    <3>. QED
      BY <2>1, <3>1, <3>2 DEF TemplatesInit, TemplatesTypeOK
  <2>4. Copies
    BY <2>2 DEF TemplatesInit, Copies
  <2>5. RegistryIsLatest
    BY <2>1 DEF TemplatesInit, RegistryIsLatest, CampaignMay, FollowUpMay
  <2>. QED
    BY <2>3, <2>4, <2>5 DEF TemplatesInv
<1>. QED
  BY <1>1, TemplatesStep, PTL DEF TemplatesSpec

\* A workspace has one default agent unless promotions crossed, whatever is
\* created, promoted and disabled (AgentService.promote).
THEOREM DefaultIsSingle == AgentsSpec => []SingleDefault
<1>1. AgentsInv => SingleDefault
  BY DEF AgentsInv
<1>. QED
  BY <1>1, AgentsInvariant, PTL

\* After a synchronisation that ran alone, what may be sent is what it was told
\* (TemplateService.sync).
THEOREM RegistryIsTrue == TemplatesSpec => []RegistryIsLatest
<1>1. TemplatesInv => RegistryIsLatest
  BY DEF TemplatesInv
<1>. QED
  BY <1>1, TemplatesInvariant, PTL

-----------------------------------------------------------------------------
(* Sessions                                                                *)

\* A request has a token that was issued; once past the denylist it is one that was
\* not spent when the request began, or that is about to end.
Presenters ==
    \A b \in Browsers :
        presenting[b].stage # "idle" =>
            /\ presenting[b].token \in Tokens /\ ends[presenting[b].token] > 0
            /\ presenting[b].known => presenting[b].token \in spent
            /\ presenting[b].stage \in {"revoke", "issue"} => ~presenting[b].known

\* A token that is spent is on the denylist until its last half second.
Denylist ==
    \A t \in spent :
        ends[t] > 0 /\ (denied[t] >= ends[t] - 1 \/ clock >= ends[t] - 1)

SessionsInv == SessionsTypeOK /\ Presenters /\ Denylist /\ SpentStaysSpent

\* What is denied is denied to the last half second, if there is one left.
LEMMA RevokedHolds ==
    ASSUME SessionsTypeOK, NEW t \in Tokens
    PROVE  /\ Revoked(t) \in [Tokens -> Nat]
           /\ \A u \in Tokens : u # t => Revoked(t)[u] = denied[u]
           /\ Revoked(t)[t] >= ends[t] - 1 \/ clock >= ends[t] - 1
<1>1. clock \in Nat /\ ends[t] \in Nat /\ denied \in [Tokens -> Nat]
  BY SessionsAssumption DEF SessionsTypeOK
<1>2. PICK n \in Int : n = ends[t] - clock
  BY <1>1
<1>3. PICK r \in Int : r = n \div 2
  BY <1>2
<1>4. n = 2 * r \/ n = 2 * r + 1
  BY <1>2, <1>3
<1>5. Remaining(t) = r
  BY <1>2, <1>3 DEF Remaining
<1>6. CASE r <= 0
  BY <1>1, <1>2, <1>4, <1>5, <1>6 DEF Revoked
<1>7. CASE r > 0
  <2>1. Revoked(t) = [denied EXCEPT ![t] = clock + 2 * r]
    BY <1>5, <1>7 DEF Revoked
  <2>2. clock + 2 * r \in Nat /\ clock + 2 * r >= ends[t] - 1
    BY <1>1, <1>2, <1>4, <1>7
  <2>. QED
    BY <1>1, <2>1, <2>2
<1>. QED
  BY <1>3, <1>6, <1>7

\* Only a token that has never been issued gets an end.
LEMMA IssuedOnce ==
    ASSUME SessionsTypeOK, Presenters, Denylist, NEW t \in Tokens, Issue(t)
    PROVE  /\ ends' \in [Tokens -> Nat]
           /\ \A u \in Tokens : ends[u] > 0 => ends'[u] = ends[u]
<1>1. clock \in Nat /\ ends \in [Tokens -> Nat]
  BY SessionsAssumption DEF SessionsTypeOK
<1>2. clock \div 2 \in Nat
  BY <1>1
<1>3. EndOf(clock) \in Nat
  BY <1>2, SessionsAssumption DEF EndOf
<1>. QED
  BY <1>1, <1>3 DEF Issue

LEMMA SessionsStep == SessionsInv /\ [SessionsNext]_sessionVars => SessionsInv'
<1>. SUFFICES ASSUME SessionsInv, [SessionsNext]_sessionVars PROVE SessionsInv'
  OBVIOUS
<1>. USE DEF SessionsInv
<1>1. CASE UNCHANGED sessionVars
  BY <1>1 DEF sessionVars, SessionsTypeOK, Presenters, Denylist, SpentStaysSpent
<1>2. CASE Login
  <2>1. PICK t \in Tokens : Issue(t) /\ UNCHANGED <<clock, denied, presenting, heirs, spent, late>>
    BY <1>2 DEF Login
  <2>2. /\ ends' \in [Tokens -> Nat]
        /\ \A u \in Tokens : ends[u] > 0 => ends'[u] = ends[u]
    BY <2>1, IssuedOnce
  <2>3. SessionsTypeOK'
    BY <2>1, <2>2 DEF SessionsTypeOK
  <2>4. Presenters'
    BY <2>1, <2>2 DEF Presenters
  <2>5. Denylist'
    BY <2>1, <2>2 DEF Denylist, SessionsTypeOK
  <2>. QED
    BY <2>1, <2>3, <2>4, <2>5 DEF SpentStaysSpent
<1>3. CASE Logout
  <2>1. PICK t \in Tokens : /\ Good(t) /\ denied' = Revoked(t) /\ spent' = spent \cup {t}
                            /\ UNCHANGED <<clock, ends, presenting, heirs, late>>
    BY <1>3 DEF Logout
  <2>2. ends[t] > 0
    BY <2>1, SessionsAssumption DEF Good, SessionsTypeOK
  <2>3. SessionsTypeOK'
    BY <2>1, RevokedHolds DEF SessionsTypeOK
  <2>4. Presenters'
    BY <2>1 DEF Presenters
  <2>5. Denylist'
    BY <2>1, <2>2, RevokedHolds DEF Denylist, SessionsTypeOK
  <2>. QED
    BY <2>1, <2>3, <2>4, <2>5 DEF SpentStaysSpent
<1>4. CASE Elapse
  <2>1. SessionsTypeOK'
    BY <1>4, SessionsAssumption DEF Elapse, SessionsTypeOK
  <2>2. Denylist'
    BY <1>4, SessionsAssumption DEF Elapse, Denylist, SessionsTypeOK
  <2>. QED
    BY <1>4, <2>1, <2>2 DEF Elapse, Presenters, SpentStaysSpent
<1>5. ASSUME NEW b \in Browsers, NEW new, presenting' = [presenting EXCEPT ![b] = new],
             new \in [stage : {"idle", "check", "revoke", "issue"},
                      token : Tokens \cup {NoToken}, known : BOOLEAN],
             new.stage # "idle" =>
                /\ new.token \in Tokens /\ ends[new.token] > 0
                /\ new.known => new.token \in spent
                /\ new.stage \in {"revoke", "issue"} => ~new.known,
             UNCHANGED <<clock, ends, denied, heirs, spent, late>>
      PROVE  SessionsInv'
  <2>1. SessionsTypeOK'
    BY <1>5 DEF SessionsTypeOK
  <2>2. Presenters'
    BY <1>5 DEF SessionsTypeOK, Presenters
  <2>. QED
    BY <1>5, <2>1, <2>2 DEF Denylist, SpentStaysSpent
<1>6. /\ NotPresenting \in [stage : {"idle", "check", "revoke", "issue"},
                            token : Tokens \cup {NoToken}, known : BOOLEAN]
      /\ NotPresenting.stage = "idle"
  BY DEF NotPresenting
<1>7. ASSUME NEW b \in Browsers, Present(b) PROVE SessionsInv'
  <2>1. PICK t \in Tokens : /\ Good(t)
                            /\ presenting' = [presenting EXCEPT ![b] =
                                    [stage |-> "check", token |-> t, known |-> t \in spent]]
                            /\ UNCHANGED <<clock, ends, denied, heirs, spent, late>>
    BY <1>7 DEF Present
  <2>2. PICK known \in BOOLEAN : known <=> t \in spent
    OBVIOUS
  <2>3. PICK new : new = [stage |-> "check", token |-> t, known |-> known]
    OBVIOUS
  <2>4. presenting' = [presenting EXCEPT ![b] = new]
    <3>1. known = (t \in spent)
      BY <2>2
    <3>. QED
      BY <2>1, <2>3, <3>1
  <2>5. ends[t] > 0
    BY <2>1, SessionsAssumption DEF Good, SessionsTypeOK
  <2>. QED
    BY <1>5, <2>1, <2>2, <2>3, <2>4, <2>5
<1>8. ASSUME NEW b \in Browsers, CheckRevoked(b) PROVE SessionsInv'
  <2>1. PICK t \in Tokens : t = presenting[b].token /\ ends[t] > 0
    BY <1>8 DEF CheckRevoked, Presenters
  <2>2. CASE IsRevoked(t)
    BY <1>5, <1>6, <1>8, <2>1, <2>2 DEF CheckRevoked, Finished
  <2>3. CASE ~IsRevoked(t)
    <3>1. ~(presenting[b].known /\ clock < ends[t] - 1)
      <4>1. SUFFICES ASSUME presenting[b].known, clock < ends[t] - 1 PROVE FALSE
        OBVIOUS
      <4>2. t \in spent
        BY <1>8, <2>1, <4>1 DEF CheckRevoked, Presenters
      <4>3. clock \in Nat /\ ends[t] \in Nat /\ denied[t] \in Nat
        BY <2>1, SessionsAssumption DEF SessionsTypeOK
      <4>4. denied[t] >= ends[t] - 1
        BY <4>1, <4>2, <4>3 DEF Denylist
      <4>. QED
        BY <2>3, <4>1, <4>3, <4>4 DEF IsRevoked
    <3>2. PICK new : new = [stage |-> "revoke", token |-> t, known |-> FALSE]
      OBVIOUS
    <3>3. presenting' = [presenting EXCEPT ![b] = new]
      <4>1. (presenting[b].known /\ clock < ends[t] - 1) = FALSE
        BY <3>1
      <4>. QED
        BY <1>8, <2>1, <2>3, <3>2, <4>1 DEF CheckRevoked, SessionsTypeOK
    <3>4. UNCHANGED <<clock, ends, denied, heirs, spent, late>>
      BY <1>8 DEF CheckRevoked
    <3>. QED
      BY <1>5, <2>1, <3>2, <3>3, <3>4
  <2>. QED
    BY <2>2, <2>3
<1>9. ASSUME NEW b \in Browsers, Revoke(b) PROVE SessionsInv'
  <2>1. PICK t \in Tokens : t = presenting[b].token /\ ends[t] > 0 /\ ~presenting[b].known
    BY <1>9 DEF Revoke, Presenters
  <2>2. /\ presenting[b].stage = "revoke" /\ denied' = Revoked(t) /\ spent' = spent \cup {t}
        /\ presenting' = [presenting EXCEPT ![b].stage = "issue"]
        /\ UNCHANGED <<clock, ends, heirs, late>>
    BY <1>9, <2>1 DEF Revoke, AtStage
  <2>3. SessionsTypeOK'
    BY <2>1, <2>2, RevokedHolds DEF SessionsTypeOK
  <2>4. Presenters'
    BY <2>1, <2>2 DEF SessionsTypeOK, Presenters
  <2>5. Denylist'
    BY <2>1, <2>2, RevokedHolds DEF Denylist, SessionsTypeOK
  <2>. QED
    BY <2>2, <2>3, <2>4, <2>5 DEF SpentStaysSpent
<1>10. ASSUME NEW b \in Browsers, IssueHeir(b) PROVE SessionsInv'
  <2>1. ~presenting[b].known /\ presenting[b].stage = "issue"
    BY <1>10 DEF IssueHeir, Presenters
  <2>a. PICK t \in Tokens : t = presenting[b].token
    BY <1>10 DEF IssueHeir, Presenters
  <2>2. /\ heirs' = [heirs EXCEPT ![t] = heirs[t] + 1]
        /\ late' = late
        /\ presenting' = [presenting EXCEPT ![b] = NotPresenting]
        /\ UNCHANGED <<clock, denied, spent>>
    BY <1>10, <2>1, <2>a DEF IssueHeir, Finished
  <2>3. PICK h \in Tokens : Issue(h)
    BY <1>10 DEF IssueHeir
  <2>4. /\ ends' \in [Tokens -> Nat]
        /\ \A u \in Tokens : ends[u] > 0 => ends'[u] = ends[u]
    BY <2>3, IssuedOnce
  <2>5. SessionsTypeOK'
    <3>1. heirs' \in [Tokens -> Nat]
      BY <2>2 DEF SessionsTypeOK
    <3>2. presenting' \in [Browsers -> [stage : {"idle", "check", "revoke", "issue"},
                                       token : Tokens \cup {NoToken}, known : BOOLEAN]]
      BY <1>6, <2>2 DEF SessionsTypeOK
    <3>. QED
      BY <2>2, <2>4, <3>1, <3>2 DEF SessionsTypeOK
  <2>6. Presenters'
    BY <1>6, <2>2, <2>4 DEF SessionsTypeOK, Presenters
  <2>7. Denylist'
    BY <2>2, <2>4 DEF Denylist, SessionsTypeOK
  <2>. QED
    BY <2>2, <2>5, <2>6, <2>7 DEF SpentStaysSpent
<1>11. ASSUME NEW b \in Browsers, RefreshFails(b) PROVE SessionsInv'
  BY <1>5, <1>6, <1>11 DEF RefreshFails, Finished
<1>. QED
  BY <1>1, <1>2, <1>3, <1>4, <1>7, <1>8, <1>9, <1>10, <1>11 DEF SessionsNext

LEMMA SessionsInvariant == SessionsSpec => []SessionsInv
<1>1. SessionsInit => SessionsInv
  BY SessionsAssumption
  DEF SessionsInit, SessionsInv, SessionsTypeOK, Presenters, Denylist, SpentStaysSpent,
      NotPresenting
<1>. QED
  BY <1>1, SessionsStep, PTL DEF SessionsSpec

\* A token that was refreshed or logged out buys no other, but in its last second
\* (AuthService.refresh, TokenDenylist).
THEOREM SpentIsSpent == SessionsSpec => []SpentStaysSpent
<1>1. SessionsInv => SpentStaysSpent
  BY DEF SessionsInv
<1>. QED
  BY <1>1, SessionsInvariant, PTL

-----------------------------------------------------------------------------
(* Invitations                                                             *)

Visits(v, kind, i) == visit[v].kind = kind /\ visit[v].on = i

\* A request is about an invitation: one that is being issued is its own; what is
\* revoked or accepted has been issued.
Visited ==
    \A v \in Visitors :
        \/ visit[v] = NoVisit
        \/ /\ visit[v].kind = "issue" /\ visit[v].on \in Invites
           /\ invite[visit[v].on].status = "staged"
           /\ \A o \in Visitors : visit[o].on = visit[v].on => o = v
        \/ /\ visit[v].kind \in {"revoke", "accept"} /\ visit[v].on \in Invites
           /\ invite[visit[v].on].status \in {"pending", "revoked", "accepted"}

\* What an invitation says, it says to somebody.
Addressed ==
    \A i \in Invites :
        /\ invite[i].status # "absent" => invite[i].to \in People /\ invite[i].role \in Roles
        /\ i \in usedTo => invite[i].status \in {"accepted", "revoked"}

\* Unless it is disputed, an invitation that is being accepted is not revoked, and
\* one that is being revoked not accepted.
Undisputed ==
    \A i \in Invites \ disputed :
        /\ \A v, o \in Visitors : ~(Visits(v, "accept", i) /\ Visits(o, "revoke", i))
        /\ \A v \in Visitors :
            /\ Visits(v, "accept", i) => invite[i].status \in {"pending", "accepted"}
            /\ Visits(v, "revoke", i) => invite[i].status \in {"pending", "revoked"}
        /\ i \in withdrawn => invite[i].status = "revoked"
        /\ invite[i].status = "accepted" <=> i \in usedTo

\* An address nobody issued two invitations for at once has one.
OnePending ==
    \A i, j \in Invites :
        /\ invite[i].status \in {"staged", "pending"} /\ invite[j].status \in {"staged", "pending"}
        /\ invite[i].to = invite[j].to /\ invite[i].to \notin doubled
        => i = j

CameByInvitation ==
    \A p \in People :
        role[p] # Nobody =>
            \E i \in usedTo : invite[i].to = p /\ invite[i].role = role[p]

InvitationsInv ==
    /\ InvitationsTypeOK /\ Visited /\ Addressed /\ Undisputed /\ OnePending /\ CameByInvitation

LEMMA NoVisitIsOne ==
    /\ NoVisit \in [kind : {"none", "issue", "revoke", "accept"},
                    on : Invites \cup {Nobody}, account : BOOLEAN, member : BOOLEAN]
    /\ NoVisit.kind = "none" /\ NoVisit.on = Nobody /\ Nobody \notin Invites
BY InvitationsAssumption DEF NoVisit

\* Beginnings
LEMMA InviteStep ==
    ASSUME InvitationsInv, NEW v \in Visitors, Invite(v)
    PROVE  InvitationsInv'
<1>. USE DEF InvitationsInv
<1>1. PICK i \in Invites, p \in People, r \in Roles :
        /\ visit[v] = NoVisit
        /\ invite[i] = NoInvite
        /\ role[p] = Nobody
        /\ PendingFor(p) = {}
        /\ invite' = [invite EXCEPT ![i] = [status |-> "staged", to |-> p,
                                            role |-> r, expired |-> FALSE]]
        /\ visit' = [visit EXCEPT ![v] = [NoVisit EXCEPT !.kind = "issue", !.on = i]]
        /\ doubled' = IF \E j \in Invites : invite[j].status = "staged"
                                            /\ invite[j].to = p
                      THEN doubled \cup {p} ELSE doubled
        /\ UNCHANGED <<account, role, usedTo, withdrawn, disputed>>
  BY DEF Invite
<1>2. PICK new : new = [status |-> "staged", to |-> p, role |-> r, expired |-> FALSE]
  OBVIOUS
<1>3. PICK see : see = [NoVisit EXCEPT !.kind = "issue", !.on = i]
  OBVIOUS
<1>4. see \in [kind : {"none", "issue", "revoke", "accept"},
               on : Invites \cup {Nobody}, account : BOOLEAN, member : BOOLEAN]
      /\ see.kind = "issue" /\ see.on = i
  BY <1>3 DEF NoVisit
<1>5. /\ invite' = [invite EXCEPT ![i] = new] /\ visit' = [visit EXCEPT ![v] = see]
      /\ invite[i].status = "absent"
      /\ UNCHANGED <<account, role, usedTo, withdrawn, disputed>>
  BY <1>1, <1>2, <1>3 DEF NoInvite
<1>6. new.status = "staged" /\ new.to = p /\ new.role = r /\ new.expired = FALSE
  BY <1>2
<1>7. /\ \A j \in Invites : invite'[j] = IF j = i THEN new ELSE invite[j]
      /\ \A o \in Visitors : visit'[o] = IF o = v THEN see ELSE visit[o]
  BY <1>5 DEF InvitationsTypeOK
<1>8. InvitationsTypeOK'
  <2>1. doubled' \subseteq People
    BY <1>1 DEF InvitationsTypeOK
  <2>2. invite' \in [Invites ->
            [status : {"absent", "staged", "pending", "revoked", "accepted"},
             to : People \cup {Nobody}, role : Roles \cup {Nobody}, expired : BOOLEAN]]
    BY <1>2, <1>5 DEF InvitationsTypeOK
  <2>. QED
    BY <1>4, <1>5, <2>1, <2>2 DEF InvitationsTypeOK
<1>9. \A o \in Visitors : visit[o].on # i
  BY <1>5, NoVisitIsOne DEF Visited
<1>10. Visited'
  <2>1. ASSUME NEW o \in Visitors
        PROVE \/ visit'[o] = NoVisit
              \/ /\ visit'[o].kind = "issue" /\ visit'[o].on \in Invites
                 /\ invite'[visit'[o].on].status = "staged"
                 /\ \A q \in Visitors : visit'[q].on = visit'[o].on => q = o
              \/ /\ visit'[o].kind \in {"revoke", "accept"} /\ visit'[o].on \in Invites
                 /\ invite'[visit'[o].on].status \in {"pending", "revoked", "accepted"}
    <3>1. CASE o = v
      BY <1>4, <1>6, <1>7, <1>9, <3>1
    <3>2. CASE o # v
      <4>1. visit'[o] = visit[o] /\ visit[o].on # i
        BY <1>7, <1>9, <3>2
      <4>. QED
        BY <1>4, <1>7, <4>1 DEF Visited
    <3>. QED
      BY <3>1, <3>2
  <2>. QED
    BY <2>1 DEF Visited
<1>11. Addressed'
  BY <1>5, <1>6, <1>7 DEF Addressed
<1>12. Undisputed'
  <2>1. ASSUME NEW o \in Visitors, NEW kind \in {"accept", "revoke"}, NEW j \in Invites
        PROVE Visits(o, kind, j)' => Visits(o, kind, j)
    BY <1>4, <1>7 DEF Visits
  <2>2. ASSUME NEW j \in Invites, j \notin disputed
        PROVE  /\ \A q, o \in Visitors : ~(Visits(q, "accept", j)' /\ Visits(o, "revoke", j)')
               /\ \A q \in Visitors :
                    /\ Visits(q, "accept", j)' => invite'[j].status \in {"pending", "accepted"}
                    /\ Visits(q, "revoke", j)' => invite'[j].status \in {"pending", "revoked"}
               /\ j \in withdrawn => invite'[j].status = "revoked"
               /\ invite'[j].status = "accepted" <=> j \in usedTo
    <3>1. CASE j = i
      <4>1. \A o \in Visitors : ~Visits(o, "accept", j)' /\ ~Visits(o, "revoke", j)'
        BY <1>9, <2>1, <3>1 DEF Visits
      <4>2. i \notin usedTo /\ i \notin withdrawn
        BY <1>5, <2>2, <3>1 DEF Undisputed
      <4>. QED
        BY <1>6, <1>7, <3>1, <4>1, <4>2
    <3>2. CASE j # i
      <4>1. invite'[j] = invite[j]
        BY <1>7, <3>2
      <4>. QED
        BY <2>1, <2>2, <4>1 DEF Undisputed
    <3>. QED
      BY <3>1, <3>2
  <2>. QED
    BY <1>5, <2>2 DEF Undisputed
<1>13. OnePending'
  <2>1. ASSUME NEW j \in Invites, j # i, invite[j].status \in {"staged", "pending"},
               invite[j].to = p
        PROVE  p \in doubled'
    <3>1. invite[j].status # "pending"
      BY <1>1, <2>1 DEF PendingFor
    <3>. QED
      BY <1>1, <2>1, <3>1
  <2>2. doubled \subseteq doubled'
    BY <1>1
  <2>3. ASSUME NEW j \in Invites, NEW k \in Invites,
               invite'[j].status \in {"staged", "pending"},
               invite'[k].status \in {"staged", "pending"},
               invite'[j].to = invite'[k].to, invite'[j].to \notin doubled'
        PROVE  j = k
    <3>1. CASE j = i /\ k # i
      BY <1>6, <1>7, <2>1, <2>3, <3>1
    <3>2. CASE j # i /\ k = i
      BY <1>6, <1>7, <2>1, <2>3, <3>2
    <3>3. CASE j # i /\ k # i
      BY <1>7, <2>2, <2>3, <3>3 DEF OnePending
    <3>. QED
      BY <3>1, <3>2, <3>3
  <2>. QED
    BY <2>3 DEF OnePending
<1>14. CameByInvitation'
  <2>1. i \notin usedTo
    BY <1>5 DEF Addressed
  <2>2. \A j \in usedTo : j \in Invites /\ invite'[j] = invite[j]
    BY <1>7, <2>1 DEF InvitationsTypeOK
  <2>. QED
    BY <1>5, <2>2 DEF CameByInvitation
<1>. QED
  BY <1>8, <1>10, <1>11, <1>12, <1>13, <1>14

\* A request that is about an invitation others can see.
LEMMA VisitBegins ==
    ASSUME InvitationsInv, NEW v \in Visitors, NEW i \in Invites, NEW see,
           see \in [kind : {"none", "issue", "revoke", "accept"},
                    on : Invites \cup {Nobody}, account : BOOLEAN, member : BOOLEAN],
           see.on = i, see.kind \in {"accept", "revoke"},
           visit[v] = NoVisit, invite[i].status = "pending",
           visit' = [visit EXCEPT ![v] = see],
           Dispute(i, IF see.kind = "accept" THEN "revoke" ELSE "accept"),
           UNCHANGED <<invite, account, role, usedTo, withdrawn, doubled>>
    PROVE  InvitationsInv'
<1>. USE DEF InvitationsInv
<1>1. \A o \in Visitors : visit'[o] = IF o = v THEN see ELSE visit[o]
  BY DEF InvitationsTypeOK
<1>2. disputed \subseteq disputed' /\ disputed' \subseteq Invites
      /\ (i \notin disputed' => \A o \in Visitors :
            ~Visits(o, IF see.kind = "accept" THEN "revoke" ELSE "accept", i))
  BY DEF Dispute, Visiting, Visits, InvitationsTypeOK
<1>3. InvitationsTypeOK'
  BY <1>2 DEF InvitationsTypeOK
<1>4. Visited'
  <2>1. ASSUME NEW o \in Visitors
        PROVE \/ visit'[o] = NoVisit
              \/ /\ visit'[o].kind = "issue" /\ visit'[o].on \in Invites
                 /\ invite[visit'[o].on].status = "staged"
                 /\ \A q \in Visitors : visit'[q].on = visit'[o].on => q = o
              \/ /\ visit'[o].kind \in {"revoke", "accept"} /\ visit'[o].on \in Invites
                 /\ invite[visit'[o].on].status \in {"pending", "revoked", "accepted"}
    <3>1. CASE o = v
      BY <1>1, <3>1
    <3>2. CASE o # v
      <4>1. visit'[o] = visit[o]
        BY <1>1, <3>2
      <4>. QED
        BY <1>1, <4>1 DEF Visited
    <3>. QED
      BY <3>1, <3>2
  <2>. QED
    BY <2>1 DEF Visited
<1>5. Undisputed'
  <2>1. ASSUME NEW o \in Visitors, NEW kind \in {"accept", "revoke"}, NEW j \in Invites,
               Visits(o, kind, j)'
        PROVE Visits(o, kind, j) \/ (j = i /\ kind = see.kind)
    BY <1>1, <2>1 DEF Visits
  <2>2. ASSUME NEW j \in Invites, j \notin disputed'
        PROVE  /\ \A q, o \in Visitors : ~(Visits(q, "accept", j)' /\ Visits(o, "revoke", j)')
               /\ \A q \in Visitors :
                    /\ Visits(q, "accept", j)' => invite[j].status \in {"pending", "accepted"}
                    /\ Visits(q, "revoke", j)' => invite[j].status \in {"pending", "revoked"}
               /\ j \in withdrawn => invite[j].status = "revoked"
               /\ invite[j].status = "accepted" <=> j \in usedTo
    <3>1. j \notin disputed
      BY <1>2, <2>2
    <3>2. CASE j # i
      BY <2>1, <3>1, <3>2 DEF Undisputed
    <3>3. CASE j = i
      <4>1. CASE see.kind = "accept"
        BY <1>2, <2>1, <2>2, <3>1, <3>3, <4>1 DEF Undisputed
      <4>2. CASE see.kind = "revoke"
        BY <1>2, <2>1, <2>2, <3>1, <3>3, <4>2 DEF Undisputed
      <4>. QED
        BY <4>1, <4>2
    <3>. QED
      BY <3>2, <3>3
  <2>. QED
    BY <2>2 DEF Undisputed
<1>. QED
  BY <1>3, <1>4, <1>5 DEF Addressed, OnePending, CameByInvitation

LEMMA VisitsBegin ==
    ASSUME InvitationsInv, NEW v \in Visitors, Withdraw(v) \/ Follow(v)
    PROVE  InvitationsInv'
<1>1. CASE Withdraw(v)
  <2>1. PICK i \in Invites :
            /\ visit[v] = NoVisit
            /\ invite[i].status = "pending"
            /\ visit' = [visit EXCEPT ![v] = [NoVisit EXCEPT !.kind = "revoke", !.on = i]]
            /\ Dispute(i, "accept")
            /\ UNCHANGED <<invite, account, role, usedTo, withdrawn, doubled>>
    BY <1>1 DEF Withdraw
  <2>2. PICK see : see = [NoVisit EXCEPT !.kind = "revoke", !.on = i]
    OBVIOUS
  <2>3. see \in [kind : {"none", "issue", "revoke", "accept"},
                 on : Invites \cup {Nobody}, account : BOOLEAN, member : BOOLEAN]
        /\ see.kind = "revoke" /\ see.on = i
    BY <2>2 DEF NoVisit
  <2>4. visit' = [visit EXCEPT ![v] = see]
    BY <2>1, <2>2
  <2>5. Dispute(i, IF see.kind = "accept" THEN "revoke" ELSE "accept")
    BY <2>1, <2>3 DEF Dispute
  <2>6. /\ visit[v] = NoVisit /\ invite[i].status = "pending"
        /\ UNCHANGED <<invite, account, role, usedTo, withdrawn, doubled>>
    BY <2>1
  <2>. QED
    BY <2>3, <2>4, <2>5, <2>6, VisitBegins
<1>2. CASE Follow(v)
  <2>1. PICK i \in Invites :
            /\ visit[v] = NoVisit
            /\ CanAccept(i)
            /\ visit' = [visit EXCEPT ![v] =
                [kind |-> "accept", on |-> i, account |-> invite[i].to \in account,
                 member |-> role[invite[i].to] # Nobody]]
            /\ Dispute(i, "revoke")
            /\ UNCHANGED <<invite, account, role, usedTo, withdrawn, doubled>>
    BY <1>2 DEF Follow
  <2>2. PICK a \in BOOLEAN : a <=> invite[i].to \in account
    OBVIOUS
  <2>3. PICK m \in BOOLEAN : m <=> role[invite[i].to] # Nobody
    OBVIOUS
  <2>4. PICK see : see = [kind |-> "accept", on |-> i, account |-> a, member |-> m]
    OBVIOUS
  <2>5. visit' = [visit EXCEPT ![v] = see]
    <3>1. a = (invite[i].to \in account) /\ m = (role[invite[i].to] # Nobody)
      BY <2>2, <2>3
    <3>. QED
      BY <2>1, <2>4, <3>1
  <2>6. see \in [kind : {"none", "issue", "revoke", "accept"},
                 on : Invites \cup {Nobody}, account : BOOLEAN, member : BOOLEAN]
        /\ see.kind = "accept" /\ see.on = i
    BY <2>4
  <2>7. Dispute(i, IF see.kind = "accept" THEN "revoke" ELSE "accept")
    BY <2>1, <2>6 DEF Dispute
  <2>8. /\ visit[v] = NoVisit /\ invite[i].status = "pending"
        /\ UNCHANGED <<invite, account, role, usedTo, withdrawn, doubled>>
    BY <2>1 DEF CanAccept, IsOpen
  <2>. QED
    BY <2>5, <2>6, <2>7, <2>8, VisitBegins
<1>. QED
  BY <1>1, <1>2

\* Ends
LEMMA VisitEnds ==
    ASSUME InvitationsInv, NEW v \in Visitors, NEW i \in Invites,
           visit[v].on = i, visit' = [visit EXCEPT ![v] = NoVisit]
    PROVE  /\ \A o \in Visitors : visit'[o] = IF o = v THEN NoVisit ELSE visit[o]
           /\ visit' \in [Visitors -> [kind : {"none", "issue", "revoke", "accept"},
                              on : Invites \cup {Nobody}, account : BOOLEAN,
                              member : BOOLEAN]]
           /\ \A o \in Visitors, kind \in {"accept", "revoke"}, j \in Invites :
                Visits(o, kind, j)' => Visits(o, kind, j)
<1>. USE DEF InvitationsInv
<1>1. \A o \in Visitors : visit'[o] = IF o = v THEN NoVisit ELSE visit[o]
  BY DEF InvitationsTypeOK
<1>2. visit' \in [Visitors -> [kind : {"none", "issue", "revoke", "accept"},
                              on : Invites \cup {Nobody}, account : BOOLEAN,
                              member : BOOLEAN]]
  BY NoVisitIsOne DEF InvitationsTypeOK
<1>3. \A o \in Visitors, kind \in {"accept", "revoke"}, j \in Invites :
                Visits(o, kind, j)' => Visits(o, kind, j)
  BY <1>1, NoVisitIsOne DEF Visits
<1>. QED
  BY <1>1, <1>2, <1>3

\* An end that changes the status of what it is about, if anything.
LEMMA StatusEnds ==
    ASSUME InvitationsInv, NEW v \in Visitors, NEW i \in Invites, NEW status,
           visit[v].on = i, visit' = [visit EXCEPT ![v] = NoVisit],
           status \in {"pending", "revoked", "accepted"},
           invite' = [invite EXCEPT ![i].status = status]
    PROVE  /\ \A j \in Invites \ {i} : invite'[j] = invite[j]
           /\ invite'[i].status = status /\ invite'[i].to = invite[i].to
           /\ invite'[i].role = invite[i].role
           /\ invite' \in [Invites ->
                [status : {"absent", "staged", "pending", "revoked", "accepted"},
                 to : People \cup {Nobody}, role : Roles \cup {Nobody}, expired : BOOLEAN]]
           /\ Visited'
<1>. USE DEF InvitationsInv
<1>1. PICK new : new = [invite[i] EXCEPT !.status = status]
  OBVIOUS
<1>2. /\ new.status = status /\ new.to = invite[i].to /\ new.role = invite[i].role
      /\ new \in [status : {"absent", "staged", "pending", "revoked", "accepted"},
                 to : People \cup {Nobody}, role : Roles \cup {Nobody}, expired : BOOLEAN]
  <2>1. invite[i] \in [status : {"absent", "staged", "pending", "revoked", "accepted"},
                 to : People \cup {Nobody}, role : Roles \cup {Nobody}, expired : BOOLEAN]
    BY DEF InvitationsTypeOK
  <2>. HIDE DEF InvitationsInv
  <2>. QED
    BY <1>1, <2>1
<1>3. invite' = [invite EXCEPT ![i] = new]
  BY <1>1
<1>4. \A j \in Invites : invite'[j] = IF j = i THEN new ELSE invite[j]
  BY <1>3 DEF InvitationsTypeOK
<1>5. invite' \in [Invites ->
                [status : {"absent", "staged", "pending", "revoked", "accepted"},
                 to : People \cup {Nobody}, role : Roles \cup {Nobody}, expired : BOOLEAN]]
  BY <1>2, <1>3 DEF InvitationsTypeOK
<1>6. Visited'
  <2>1. ASSUME NEW o \in Visitors
        PROVE \/ visit'[o] = NoVisit
              \/ /\ visit'[o].kind = "issue" /\ visit'[o].on \in Invites
                 /\ invite'[visit'[o].on].status = "staged"
                 /\ \A q \in Visitors : visit'[q].on = visit'[o].on => q = o
              \/ /\ visit'[o].kind \in {"revoke", "accept"} /\ visit'[o].on \in Invites
                 /\ invite'[visit'[o].on].status \in {"pending", "revoked", "accepted"}
    <3>1. CASE o = v \/ visit[o] = NoVisit
      BY <3>1, VisitEnds
    <3>2. CASE o # v /\ visit[o] # NoVisit
      <4>1. visit'[o] = visit[o] /\ visit[o].on \in Invites
        BY <3>2, VisitEnds DEF Visited
      <4>2. CASE visit[o].kind = "issue"
        <5>1. \A q \in Visitors : visit[q].on = visit[o].on => q = o
          BY <3>2, <4>2 DEF Visited
        <5>2. visit[o].on # i
          BY <3>2, <5>1
        <5>3. \A q \in Visitors : visit'[q].on = visit[o].on => q = o
          BY <4>1, <5>1, VisitEnds, NoVisitIsOne
        <5>. QED
          BY <1>4, <3>2, <4>1, <4>2, <5>2, <5>3 DEF Visited
      <4>3. CASE visit[o].kind # "issue"
        BY <1>2, <1>4, <3>2, <4>1, <4>3 DEF Visited
      <4>. QED
        BY <4>2, <4>3
    <3>. QED
      BY <3>1, <3>2
  <2>. QED
    BY <2>1 DEF Visited
<1>. QED
  BY <1>2, <1>4, <1>5, <1>6

LEMMA IssueEnds ==
    ASSUME InvitationsInv, NEW v \in Visitors, FinishVisit(v), visit[v].kind = "issue"
    PROVE  InvitationsInv'
<1>. USE DEF InvitationsInv
<1>1. PICK i \in Invites :
        /\ visit[v].on = i /\ invite[i].status = "staged"
        /\ \A o \in Visitors : visit[o].on = i => o = v
  BY NoVisitIsOne DEF FinishVisit, Visited
<1>2. /\ visit' = [visit EXCEPT ![v] = NoVisit]
      /\ invite' = [invite EXCEPT ![i].status = "pending"]
      /\ UNCHANGED <<account, role, usedTo, withdrawn, doubled, disputed>>
  BY <1>1 DEF FinishVisit
<1>3. /\ \A j \in Invites \ {i} : invite'[j] = invite[j]
      /\ invite'[i].status = "pending" /\ invite'[i].to = invite[i].to
      /\ invite'[i].role = invite[i].role
      /\ invite' \in [Invites ->
            [status : {"absent", "staged", "pending", "revoked", "accepted"},
             to : People \cup {Nobody}, role : Roles \cup {Nobody}, expired : BOOLEAN]]
      /\ Visited'
  <2>1. "pending" \in {"pending", "revoked", "accepted"}
    OBVIOUS
  <2>2. visit' = [visit EXCEPT ![v] = NoVisit]
        /\ invite' = [invite EXCEPT ![i].status = "pending"] /\ visit[v].on = i
    BY <1>1, <1>2
  <2>. QED
    BY <2>1, <2>2, StatusEnds, Zenon
<1>4. UNCHANGED <<account, role, usedTo, withdrawn, doubled, disputed>>
      /\ visit' = [visit EXCEPT ![v] = NoVisit]
  BY <1>2
<1>5. InvitationsTypeOK'
  BY <1>1, <1>3, <1>4, VisitEnds DEF InvitationsTypeOK
<1>6. Addressed'
  <2>1. i \notin usedTo
    BY <1>1 DEF Addressed
  <2>. QED
    BY <1>1, <1>3, <1>4, <2>1 DEF Addressed
<1>7. Undisputed'
  <2>1. \A o \in Visitors, kind \in {"accept", "revoke"} : ~Visits(o, kind, i)'
    BY <1>1, <1>4, VisitEnds, NoVisitIsOne DEF Visits
  <2>2. ASSUME NEW j \in Invites, j \notin disputed
        PROVE  /\ \A q, o \in Visitors : ~(Visits(q, "accept", j)' /\ Visits(o, "revoke", j)')
               /\ \A q \in Visitors :
                    /\ Visits(q, "accept", j)' => invite'[j].status \in {"pending", "accepted"}
                    /\ Visits(q, "revoke", j)' => invite'[j].status \in {"pending", "revoked"}
               /\ j \in withdrawn => invite'[j].status = "revoked"
               /\ invite'[j].status = "accepted" <=> j \in usedTo
    <3>1. CASE j = i
      <4>1. i \notin withdrawn /\ i \notin usedTo
        BY <1>1, <2>2, <3>1 DEF Undisputed
      <4>. QED
        BY <1>3, <2>1, <3>1, <4>1
    <3>2. CASE j # i
      <4>1. invite'[j] = invite[j]
        BY <1>3, <3>2
      <4>2. \A o \in Visitors, kind \in {"accept", "revoke"} :
                Visits(o, kind, j)' => Visits(o, kind, j)
        BY <1>1, <1>4, VisitEnds
      <4>. QED
        BY <2>2, <4>1, <4>2 DEF Undisputed
    <3>. QED
      BY <3>1, <3>2
  <2>. QED
    BY <1>4, <2>2 DEF Undisputed
<1>8. OnePending'
  <2>1. \A j \in Invites : /\ invite'[j].status \in {"staged", "pending"}
                                <=> invite[j].status \in {"staged", "pending"}
                           /\ invite'[j].to = invite[j].to
    BY <1>1, <1>3
  <2>. QED
    BY <1>4, <2>1 DEF OnePending
<1>9. CameByInvitation'
  <2>1. \A j \in Invites : invite'[j].to = invite[j].to /\ invite'[j].role = invite[j].role
    BY <1>3
  <2>2. usedTo \subseteq Invites
    BY DEF InvitationsTypeOK
  <2>. QED
    BY <1>4, <2>1, <2>2 DEF CameByInvitation
<1>. QED
  BY <1>3, <1>5, <1>6, <1>7, <1>8, <1>9

LEMMA RevokeEnds ==
    ASSUME InvitationsInv, NEW v \in Visitors, FinishVisit(v), visit[v].kind = "revoke"
    PROVE  InvitationsInv'
<1>. USE DEF InvitationsInv
<1>1. PICK i \in Invites :
        visit[v].on = i /\ invite[i].status \in {"pending", "revoked", "accepted"}
  BY NoVisitIsOne DEF FinishVisit, Visited
<1>2. /\ visit' = [visit EXCEPT ![v] = NoVisit]
      /\ invite' = [invite EXCEPT ![i].status = "revoked"]
      /\ withdrawn' = withdrawn \cup {i}
      /\ UNCHANGED <<account, role, usedTo, doubled, disputed>>
  BY <1>1 DEF FinishVisit
<1>3. /\ \A j \in Invites \ {i} : invite'[j] = invite[j]
      /\ invite'[i].status = "revoked" /\ invite'[i].to = invite[i].to
      /\ invite'[i].role = invite[i].role
      /\ invite' \in [Invites ->
            [status : {"absent", "staged", "pending", "revoked", "accepted"},
             to : People \cup {Nobody}, role : Roles \cup {Nobody}, expired : BOOLEAN]]
      /\ Visited'
  <2>1. "revoked" \in {"pending", "revoked", "accepted"}
    OBVIOUS
  <2>2. visit' = [visit EXCEPT ![v] = NoVisit]
        /\ invite' = [invite EXCEPT ![i].status = "revoked"] /\ visit[v].on = i
    BY <1>1, <1>2
  <2>. QED
    BY <2>1, <2>2, StatusEnds, Zenon
<1>4. UNCHANGED <<account, role, usedTo, doubled, disputed>>
      /\ visit' = [visit EXCEPT ![v] = NoVisit] /\ withdrawn' = withdrawn \cup {i}
  BY <1>2
<1>5. InvitationsTypeOK'
  BY <1>1, <1>3, <1>4, VisitEnds DEF InvitationsTypeOK
<1>6. Addressed'
  BY <1>1, <1>3, <1>4 DEF Addressed
<1>7. Undisputed'
  <2>1. \A o \in Visitors, kind \in {"accept", "revoke"}, j \in Invites :
            Visits(o, kind, j)' => Visits(o, kind, j)
    BY <1>1, <1>4, VisitEnds
  <2>2. ASSUME NEW j \in Invites, j \notin disputed
        PROVE  /\ \A q, o \in Visitors : ~(Visits(q, "accept", j)' /\ Visits(o, "revoke", j)')
               /\ \A q \in Visitors :
                    /\ Visits(q, "accept", j)' => invite'[j].status \in {"pending", "accepted"}
                    /\ Visits(q, "revoke", j)' => invite'[j].status \in {"pending", "revoked"}
               /\ j \in withdrawn' => invite'[j].status = "revoked"
               /\ invite'[j].status = "accepted" <=> j \in usedTo
    <3>1. CASE j = i
      <4>1. Visits(v, "revoke", i)
        BY <1>1 DEF Visits
      <4>2. i \notin usedTo /\ \A q \in Visitors : ~Visits(q, "accept", i)
        BY <1>1, <2>2, <3>1, <4>1 DEF Undisputed
      <4>. QED
        BY <1>3, <2>1, <3>1, <4>2
    <3>2. CASE j # i
      <4>1. invite'[j] = invite[j] /\ (j \in withdrawn' <=> j \in withdrawn)
        BY <1>3, <1>4, <3>2
      <4>. QED
        BY <2>1, <2>2, <4>1 DEF Undisputed
    <3>. QED
      BY <3>1, <3>2
  <2>. QED
    BY <1>4, <2>2 DEF Undisputed
<1>8. OnePending'
  <2>1. \A j \in Invites : /\ invite'[j].status \in {"staged", "pending"}
                                => invite[j].status \in {"staged", "pending"}
                           /\ invite'[j].to = invite[j].to
    BY <1>3
  <2>. QED
    BY <1>4, <2>1 DEF OnePending
<1>9. CameByInvitation'
  <2>1. \A j \in Invites : invite'[j].to = invite[j].to /\ invite'[j].role = invite[j].role
    BY <1>3
  <2>2. usedTo \subseteq Invites
    BY DEF InvitationsTypeOK
  <2>. QED
    BY <1>4, <2>1, <2>2 DEF CameByInvitation
<1>. QED
  BY <1>3, <1>5, <1>6, <1>7, <1>8, <1>9

\* Whoever comes in, comes in with the invitation's role or keeps the one they have.
LEMMA AcceptEnds ==
    ASSUME InvitationsInv, NEW v \in Visitors, FinishVisit(v), visit[v].kind = "accept",
           ~BeatenToIt(v)
    PROVE  InvitationsInv'
<1>. USE DEF InvitationsInv
<1>1. PICK i \in Invites :
        visit[v].on = i /\ invite[i].status \in {"pending", "revoked", "accepted"}
  BY NoVisitIsOne DEF FinishVisit, Visited
<1>2. PICK p \in People : invite[i].to = p /\ invite[i].role \in Roles
  BY <1>1 DEF Addressed
<1>3. /\ visit' = [visit EXCEPT ![v] = NoVisit]
      /\ invite' = [invite EXCEPT ![i].status = "accepted"]
      /\ account' = account \cup {p} /\ usedTo' = usedTo \cup {i}
      /\ role' = RoleAfter(p, i)
      /\ UNCHANGED <<withdrawn, doubled, disputed>>
  BY <1>1, <1>2 DEF FinishVisit
<1>4. /\ \A j \in Invites \ {i} : invite'[j] = invite[j]
      /\ invite'[i].status = "accepted" /\ invite'[i].to = invite[i].to
      /\ invite'[i].role = invite[i].role
      /\ invite' \in [Invites ->
            [status : {"absent", "staged", "pending", "revoked", "accepted"},
             to : People \cup {Nobody}, role : Roles \cup {Nobody}, expired : BOOLEAN]]
      /\ Visited'
  <2>1. "accepted" \in {"pending", "revoked", "accepted"}
    OBVIOUS
  <2>2. visit' = [visit EXCEPT ![v] = NoVisit]
        /\ invite' = [invite EXCEPT ![i].status = "accepted"] /\ visit[v].on = i
    BY <1>1, <1>3
  <2>. QED
    BY <2>1, <2>2, StatusEnds, ZenonT(60)
<1>5. /\ visit' = [visit EXCEPT ![v] = NoVisit]
      /\ account' = account \cup {p} /\ usedTo' = usedTo \cup {i}
      /\ UNCHANGED <<withdrawn, doubled, disputed>>
  BY <1>3
<1>6. /\ role' \in [People -> Roles \cup {Nobody}]
      /\ \A q \in People : \/ role'[q] = role[q]
                           \/ q = p /\ role'[q] = invite[i].role
  BY <1>2, <1>3 DEF RoleAfter, InvitationsTypeOK
<1>7. InvitationsTypeOK'
  BY <1>1, <1>4, <1>5, <1>6, VisitEnds DEF InvitationsTypeOK
<1>8. Addressed'
  BY <1>1, <1>4, <1>5 DEF Addressed
<1>9. Undisputed'
  <2>1. \A o \in Visitors, kind \in {"accept", "revoke"}, j \in Invites :
            Visits(o, kind, j)' => Visits(o, kind, j)
    BY <1>1, <1>5, VisitEnds
  <2>2. ASSUME NEW j \in Invites, j \notin disputed
        PROVE  /\ \A q, o \in Visitors : ~(Visits(q, "accept", j)' /\ Visits(o, "revoke", j)')
               /\ \A q \in Visitors :
                    /\ Visits(q, "accept", j)' => invite'[j].status \in {"pending", "accepted"}
                    /\ Visits(q, "revoke", j)' => invite'[j].status \in {"pending", "revoked"}
               /\ j \in withdrawn => invite'[j].status = "revoked"
               /\ invite'[j].status = "accepted" <=> j \in usedTo'
    <3>1. CASE j = i
      <4>1. Visits(v, "accept", i)
        BY <1>1 DEF Visits
      <4>2. i \notin withdrawn /\ \A q \in Visitors : ~Visits(q, "revoke", i)
        BY <1>1, <2>2, <3>1, <4>1 DEF Undisputed
      <4>. QED
        BY <1>4, <1>5, <2>1, <3>1, <4>2
    <3>2. CASE j # i
      <4>1. invite'[j] = invite[j] /\ (j \in usedTo' <=> j \in usedTo)
        BY <1>4, <1>5, <3>2
      <4>. QED
        BY <2>1, <2>2, <4>1 DEF Undisputed
    <3>. QED
      BY <3>1, <3>2
  <2>. QED
    BY <1>5, <2>2 DEF Undisputed
<1>10. OnePending'
  <2>1. \A j \in Invites : /\ invite'[j].status \in {"staged", "pending"}
                                => invite[j].status \in {"staged", "pending"}
                           /\ invite'[j].to = invite[j].to
    BY <1>4
  <2>. QED
    BY <1>5, <2>1 DEF OnePending
<1>11. CameByInvitation'
  <2>1. \A j \in Invites : invite'[j].to = invite[j].to /\ invite'[j].role = invite[j].role
    BY <1>4
  <2>2. usedTo \subseteq Invites
    BY DEF InvitationsTypeOK
  <2>3. ASSUME NEW q \in People, role'[q] # Nobody
        PROVE  \E j \in usedTo' : invite'[j].to = q /\ invite'[j].role = role'[q]
    <3>1. CASE role'[q] = role[q]
      BY <1>5, <2>1, <2>2, <2>3, <3>1 DEF CameByInvitation
    <3>2. CASE q = p /\ role'[q] = invite[i].role
      BY <1>2, <1>5, <2>1, <3>2
    <3>. QED
      BY <1>6, <3>1, <3>2
  <2>. QED
    BY <2>3 DEF CameByInvitation
<1>. QED
  BY <1>4, <1>7, <1>8, <1>9, <1>10, <1>11

\* An end that changes nothing else.
LEMMA NothingEnds ==
    ASSUME InvitationsInv, NEW v \in Visitors, visit[v].kind \in {"revoke", "accept"},
           visit' = [visit EXCEPT ![v] = NoVisit],
           UNCHANGED <<invite, account, role, usedTo, withdrawn, doubled, disputed>>
    PROVE  InvitationsInv'
<1>. USE DEF InvitationsInv
<1>1. PICK i \in Invites : visit[v].on = i
  BY NoVisitIsOne DEF Visited
<1>2. /\ \A o \in Visitors : visit'[o] = IF o = v THEN NoVisit ELSE visit[o]
      /\ \A o \in Visitors, kind \in {"accept", "revoke"}, j \in Invites :
            Visits(o, kind, j)' => Visits(o, kind, j)
  BY <1>1, VisitEnds
<1>3. InvitationsTypeOK'
  BY <1>1, VisitEnds DEF InvitationsTypeOK
<1>4. Visited'
  <2>1. ASSUME NEW o \in Visitors
        PROVE \/ visit'[o] = NoVisit
              \/ /\ visit'[o].kind = "issue" /\ visit'[o].on \in Invites
                 /\ invite[visit'[o].on].status = "staged"
                 /\ \A q \in Visitors : visit'[q].on = visit'[o].on => q = o
              \/ /\ visit'[o].kind \in {"revoke", "accept"} /\ visit'[o].on \in Invites
                 /\ invite[visit'[o].on].status \in {"pending", "revoked", "accepted"}
    <3>1. CASE o = v \/ visit[o] = NoVisit
      BY <1>2, <3>1
    <3>2. CASE o # v /\ visit[o] # NoVisit
      <4>1. visit'[o] = visit[o] /\ visit[o].on \in Invites
        BY <1>2, <3>2 DEF Visited
      <4>. QED
        BY <1>2, <3>2, <4>1, NoVisitIsOne DEF Visited
    <3>. QED
      BY <3>1, <3>2
  <2>. QED
    BY <2>1 DEF Visited
<1>5. Undisputed'
  BY <1>2 DEF Undisputed
<1>. QED
  BY <1>3, <1>4, <1>5 DEF Addressed, OnePending, CameByInvitation

\* What had been flushed is gone.
LEMMA IssueIsUndone ==
    ASSUME InvitationsInv, NEW v \in Visitors, AbandonVisit(v), visit[v].kind = "issue"
    PROVE  InvitationsInv'
<1>. USE DEF InvitationsInv
<1>1. PICK i \in Invites :
        /\ visit[v].on = i /\ invite[i].status = "staged"
        /\ \A o \in Visitors : visit[o].on = i => o = v
  BY NoVisitIsOne DEF AbandonVisit, Visited
<1>2. /\ visit' = [visit EXCEPT ![v] = NoVisit]
      /\ invite' = [invite EXCEPT ![i] = NoInvite]
      /\ UNCHANGED <<account, role, usedTo, withdrawn, doubled, disputed>>
  BY <1>1 DEF AbandonVisit
<1>3. NoInvite.status = "absent" /\ NoInvite \in
            [status : {"absent", "staged", "pending", "revoked", "accepted"},
             to : People \cup {Nobody}, role : Roles \cup {Nobody}, expired : BOOLEAN]
  BY DEF NoInvite
<1>4. \A j \in Invites : invite'[j] = IF j = i THEN NoInvite ELSE invite[j]
  BY <1>2 DEF InvitationsTypeOK
<1>5. /\ \A o \in Visitors : visit'[o] = IF o = v THEN NoVisit ELSE visit[o]
      /\ \A o \in Visitors, kind \in {"accept", "revoke"}, j \in Invites :
            Visits(o, kind, j)' => Visits(o, kind, j)
  BY <1>1, <1>2, VisitEnds
<1>6. InvitationsTypeOK'
  <2>1. visit' \in [Visitors -> [kind : {"none", "issue", "revoke", "accept"},
                              on : Invites \cup {Nobody}, account : BOOLEAN,
                              member : BOOLEAN]]
    BY <1>1, <1>2, VisitEnds
  <2>2. invite' \in [Invites ->
            [status : {"absent", "staged", "pending", "revoked", "accepted"},
             to : People \cup {Nobody}, role : Roles \cup {Nobody}, expired : BOOLEAN]]
    BY <1>2, <1>3 DEF InvitationsTypeOK
  <2>. QED
    BY <1>2, <2>1, <2>2 DEF InvitationsTypeOK
<1>7. Visited'
  <2>1. ASSUME NEW o \in Visitors
        PROVE \/ visit'[o] = NoVisit
              \/ /\ visit'[o].kind = "issue" /\ visit'[o].on \in Invites
                 /\ invite'[visit'[o].on].status = "staged"
                 /\ \A q \in Visitors : visit'[q].on = visit'[o].on => q = o
              \/ /\ visit'[o].kind \in {"revoke", "accept"} /\ visit'[o].on \in Invites
                 /\ invite'[visit'[o].on].status \in {"pending", "revoked", "accepted"}
    <3>1. CASE o = v \/ visit[o] = NoVisit
      BY <1>5, <3>1
    <3>2. CASE o # v /\ visit[o] # NoVisit
      <4>1. visit'[o] = visit[o] /\ visit[o].on \in Invites /\ visit[o].on # i
        BY <1>1, <1>5, <3>2 DEF Visited
      <4>2. invite'[visit'[o].on] = invite[visit[o].on]
        BY <1>4, <4>1
      <4>. QED
        BY <1>5, <3>2, <4>1, <4>2, NoVisitIsOne DEF Visited
    <3>. QED
      BY <3>1, <3>2
  <2>. QED
    BY <2>1 DEF Visited
<1>8. i \notin usedTo
  BY <1>1 DEF Addressed
<1>9. Addressed'
  BY <1>2, <1>3, <1>4, <1>8 DEF Addressed
<1>10. Undisputed'
  <2>1. \A o \in Visitors, kind \in {"accept", "revoke"} : ~Visits(o, kind, i)'
    BY <1>1, <1>5, NoVisitIsOne DEF Visits
  <2>2. ASSUME NEW j \in Invites, j \notin disputed
        PROVE  /\ \A q, o \in Visitors : ~(Visits(q, "accept", j)' /\ Visits(o, "revoke", j)')
               /\ \A q \in Visitors :
                    /\ Visits(q, "accept", j)' => invite'[j].status \in {"pending", "accepted"}
                    /\ Visits(q, "revoke", j)' => invite'[j].status \in {"pending", "revoked"}
               /\ j \in withdrawn => invite'[j].status = "revoked"
               /\ invite'[j].status = "accepted" <=> j \in usedTo
    <3>1. CASE j = i
      <4>1. i \notin withdrawn
        BY <1>1, <2>2, <3>1 DEF Undisputed
      <4>. QED
        BY <1>3, <1>4, <1>8, <2>1, <3>1, <4>1
    <3>2. CASE j # i
      <4>1. invite'[j] = invite[j]
        BY <1>4, <3>2
      <4>. QED
        BY <1>5, <2>2, <4>1 DEF Undisputed
    <3>. QED
      BY <3>1, <3>2
  <2>. QED
    BY <1>2, <2>2 DEF Undisputed
<1>11. OnePending'
  BY <1>2, <1>3, <1>4 DEF OnePending
<1>12. CameByInvitation'
  <2>1. \A j \in usedTo : invite'[j] = invite[j]
    BY <1>4, <1>8 DEF InvitationsTypeOK
  <2>. QED
    BY <1>2, <2>1 DEF CameByInvitation
<1>. QED
  BY <1>6, <1>7, <1>9, <1>10, <1>11, <1>12

LEMMA VisitsEnd ==
    ASSUME InvitationsInv, NEW v \in Visitors, FinishVisit(v) \/ AbandonVisit(v)
    PROVE  InvitationsInv'
<1>1. visit[v].kind \in {"issue", "revoke", "accept"}
  BY DEF FinishVisit, AbandonVisit, InvitationsInv, Visited
<1>2. CASE FinishVisit(v) /\ visit[v].kind = "issue"
  BY <1>2, IssueEnds
<1>3. CASE FinishVisit(v) /\ visit[v].kind = "revoke"
  BY <1>3, RevokeEnds
<1>4. CASE FinishVisit(v) /\ visit[v].kind = "accept" /\ ~BeatenToIt(v)
  BY <1>4, AcceptEnds
<1>5. CASE FinishVisit(v) /\ visit[v].kind = "accept" /\ BeatenToIt(v)
  <2>1. /\ visit' = [visit EXCEPT ![v] = NoVisit]
        /\ UNCHANGED <<invite, account, role, usedTo, withdrawn, doubled, disputed>>
    BY <1>5 DEF FinishVisit
  <2>. QED
    BY <1>1, <1>5, <2>1, NothingEnds
<1>6. CASE AbandonVisit(v) /\ visit[v].kind = "issue"
  BY <1>6, IssueIsUndone
<1>7. CASE AbandonVisit(v) /\ visit[v].kind # "issue"
  <2>1. /\ visit' = [visit EXCEPT ![v] = NoVisit]
        /\ UNCHANGED <<invite, account, role, usedTo, withdrawn, doubled, disputed>>
    BY <1>7 DEF AbandonVisit
  <2>. QED
    BY <1>1, <1>7, <2>1, NothingEnds
<1>. QED
  BY <1>1, <1>2, <1>3, <1>4, <1>5, <1>6, <1>7

LEMMA ExpireStep ==
    ASSUME InvitationsInv, Expire
    PROVE  InvitationsInv'
<1>. USE DEF InvitationsInv
<1>1. PICK i \in Invites :
        /\ invite' = [invite EXCEPT ![i].expired = TRUE]
        /\ UNCHANGED <<account, role, visit, usedTo, withdrawn, doubled, disputed>>
  BY DEF Expire
<1>2. PICK new : new = [invite[i] EXCEPT !.expired = TRUE]
  OBVIOUS
<1>3. /\ new.status = invite[i].status /\ new.to = invite[i].to /\ new.role = invite[i].role
      /\ new \in [status : {"absent", "staged", "pending", "revoked", "accepted"},
                 to : People \cup {Nobody}, role : Roles \cup {Nobody}, expired : BOOLEAN]
  <2>1. invite[i] \in [status : {"absent", "staged", "pending", "revoked", "accepted"},
                 to : People \cup {Nobody}, role : Roles \cup {Nobody}, expired : BOOLEAN]
    BY DEF InvitationsTypeOK
  <2>. HIDE DEF InvitationsInv
  <2>. QED
    BY <1>2, <2>1
<1>4. invite' = [invite EXCEPT ![i] = new]
  BY <1>1, <1>2
<1>5. UNCHANGED <<account, role, visit, usedTo, withdrawn, doubled, disputed>>
  BY <1>1
<1>6. \A j \in Invites : /\ invite'[j].status = invite[j].status
                         /\ invite'[j].to = invite[j].to /\ invite'[j].role = invite[j].role
  BY <1>3, <1>4 DEF InvitationsTypeOK
<1>7. InvitationsTypeOK'
  BY <1>3, <1>4, <1>5 DEF InvitationsTypeOK
<1>8. Visited'
  <2>1. ASSUME NEW v \in Visitors, visit[v] # NoVisit
        PROVE  invite'[visit[v].on].status = invite[visit[v].on].status
    BY <1>6, <2>1 DEF Visited
  <2>. QED
    BY <1>5, <2>1 DEF Visited
<1>9. Undisputed'
  BY <1>5, <1>6 DEF Undisputed, Visits
<1>10. CameByInvitation'
  <2>1. usedTo \subseteq Invites
    BY DEF InvitationsTypeOK
  <2>. QED
    BY <1>5, <1>6, <2>1 DEF CameByInvitation
<1>. QED
  BY <1>5, <1>6, <1>7, <1>8, <1>9, <1>10 DEF Addressed, OnePending

LEMMA RegisterStep ==
    ASSUME InvitationsInv, Register
    PROVE  InvitationsInv'
BY DEF InvitationsInv, Register, InvitationsTypeOK, Visited, Addressed, Undisputed, Visits,
       OnePending, CameByInvitation

LEMMA InvitationsInvariant == InvitationsSpec => []InvitationsInv
<1>1. InvitationsInit => InvitationsInv
  <2>1. NoInvite.status = "absent" /\ NoInvite \in
            [status : {"absent", "staged", "pending", "revoked", "accepted"},
             to : People \cup {Nobody}, role : Roles \cup {Nobody}, expired : BOOLEAN]
    BY DEF NoInvite
  <2>. QED
    BY <2>1, NoVisitIsOne DEF InvitationsInit, InvitationsInv, InvitationsTypeOK, Visited,
         Addressed, Undisputed, Visits, OnePending, CameByInvitation
<1>2. InvitationsInv /\ [InvitationsNext]_inviteVars => InvitationsInv'
  <2>1. ASSUME InvitationsInv, UNCHANGED inviteVars
        PROVE  InvitationsInv'
    BY <2>1 DEF inviteVars, InvitationsInv, InvitationsTypeOK, Visited, Addressed,
         Undisputed, Visits, OnePending, CameByInvitation
  <2>2. ASSUME InvitationsInv, NEW v \in Visitors,
               \/ Invite(v) \/ Withdraw(v) \/ Follow(v) \/ FinishVisit(v) \/ AbandonVisit(v)
        PROVE  InvitationsInv'
    BY <2>2, InviteStep, VisitsBegin, VisitsEnd
  <2>. QED
    BY <2>1, <2>2, ExpireStep, RegisterStep DEF InvitationsNext
<1>. QED
  BY <1>1, <1>2, PTL DEF InvitationsSpec

LEMMA DoorKept ==
    ASSUME InvitationsInv
    PROVE  DoorIsKept
<1>. USE DEF InvitationsInv
<1>1. \A i \in Invites \ disputed : i \in withdrawn => i \notin usedTo
  BY DEF Undisputed
<1>2. ASSUME NEW p \in People, p \notin doubled
      PROVE  Cardinality(PendingFor(p)) <= 1
  <2>1. \A i, j \in PendingFor(p) : i = j
    BY <1>2 DEF PendingFor, OnePending
  <2>2. CASE PendingFor(p) = {}
    BY <2>2, FS_EmptySet
  <2>3. CASE PendingFor(p) # {}
    <3>1. PICK i : PendingFor(p) = {i}
      BY <2>1, <2>3
    <3>. QED
      BY <3>1, FS_Singleton
  <2>. QED
    BY <2>2, <2>3
<1>. QED
  BY <1>1, <1>2 DEF DoorIsKept, CameByInvitation, Undisputed

\* Whoever is in came by an invitation to them that stood, however requests cross
\* and whichever of them fail (InvitationService.accept, revoke).
THEOREM DoorStaysKept == InvitationsSpec => []DoorIsKept
BY InvitationsInvariant, DoorKept, PTL

-----------------------------------------------------------------------------
(* The limiter                                                             *)

\* The requests counted in a window that may still go through.
Underway(n) == {c \in Callers : /\ calling[c].stage # "idle" /\ calling[c].of = n
                                /\ calling[c].used <= Quota}

\* What went through and may still is within what was counted, and within the limit.
Counted(n) ==
    /\ IsFiniteSet(Underway(n))
    /\ through[n] + Cardinality(Underway(n)) <= Quota
    /\ n = window /\ counter # NoKey =>
            through[n] + Cardinality(Underway(n)) <= counter.count
    /\ n > window => through[n] = 0 /\ n \notin turnedAway

\* Whoever decides has seen that the key of its window expires.
Called(c) ==
    calling[c].stage # "idle" =>
        /\ 1 <= calling[c].of /\ calling[c].of <= window
        /\ calling[c].stage = "decide" /\ calling[c].of = window => counter.ttl # Never

RateLimitInv ==
    /\ RateLimitTypeOK
    /\ \A n \in 1..MaxWindows : Counted(n)
    /\ \A c \in Callers : Called(c)
    /\ counter # NoKey => window # 0
    /\ window \in turnedAway => counter.ttl # Never

Call == [stage : {"idle", "ttl", "expire", "decide"},
         used : 0..MaxCounted, of : 0..MaxWindows]

\* One request has moved.
LEMMA RequestMoves ==
    ASSUME RateLimitTypeOK, NEW c \in Callers, NEW call \in Call,
           calling' = [calling EXCEPT ![c] = call]
    PROVE  /\ \A o \in Callers : calling'[o] = IF o = c THEN call ELSE calling[o]
           /\ calling' \in [Callers -> Call]
BY DEF RateLimitTypeOK, Call

\* Fewer are underway, and nothing more has been counted or let through.
LEMMA FewerUnderway ==
    ASSUME RateLimitInv, NEW n \in 1..MaxWindows,
           Underway(n)' \subseteq Underway(n), through'[n] = through[n],
           window' = window,
           counter' # NoKey => counter # NoKey /\ counter'.count = counter.count,
           n > window => n \notin turnedAway'
    PROVE  Counted(n)'
<1>1. IsFiniteSet(Underway(n)) /\ Counted(n)
  BY DEF RateLimitInv, Counted
<1>2. /\ IsFiniteSet(Underway(n)')
      /\ Cardinality(Underway(n)') <= Cardinality(Underway(n))
      /\ Cardinality(Underway(n)') \in Nat /\ Cardinality(Underway(n)) \in Nat
  BY <1>1, FS_Subset, FS_CardinalityType
<1>3. through[n] \in Nat /\ window \in Nat /\ Quota \in Nat /\ counter.count \in Nat
  BY RateLimitAssumption DEF RateLimitInv, RateLimitTypeOK
<1>. QED
  BY <1>1, <1>2, <1>3 DEF Counted

\* The first request of a window.
LEMMA FirstCounted ==
    ASSUME RateLimitInv, NEW c \in Callers, Incr(c), counter = NoKey
    PROVE  RateLimitInv'
<1>. USE DEF RateLimitInv
<1>1. PICK call : call = [stage |-> "expire", used |-> 1, of |-> window + 1]
  OBVIOUS
<1>2. /\ calling[c] = NotCalling /\ window < MaxWindows /\ window' = window + 1
      /\ counter' = [count |-> 1, ttl |-> Never]
      /\ UNCHANGED <<through, turnedAway, outages>>
  BY DEF Incr
<1>3. counter'.count = 1 /\ counter'.ttl = Never /\ counter' # NoKey
      /\ counter' \in [count : 0..MaxCounted, ttl : -1..Window]
  BY <1>2, RateLimitAssumption DEF Never, NoKey
<1>4. calling' = [calling EXCEPT ![c] = call]
  BY <1>1, <1>2, <1>3 DEF Incr
<1>5. window \in Nat /\ window' \in 1..MaxWindows /\ MaxWindows \in Nat /\ MaxCounted \in Nat
      /\ MaxCounted >= 1 /\ Quota \in Nat
  BY <1>2, RateLimitAssumption DEF RateLimitTypeOK
<1>6. call \in Call /\ call.stage = "expire" /\ call.used = 1 /\ call.of = window'
  BY <1>1, <1>2, <1>5 DEF Call
<1>7. RateLimitTypeOK'
  BY <1>2, <1>3, <1>4, <1>5, <1>6, RequestMoves DEF RateLimitTypeOK, Call
<1>8. \A o \in Callers : calling'[o] = IF o = c THEN call ELSE calling[o]
  BY <1>4, <1>6, RequestMoves
<1>9. ASSUME NEW n \in 1..MaxWindows
      PROVE  Counted(n)'
  <2>1. c \notin Underway(n)
    BY <1>2 DEF Underway, NotCalling
  <2>2. CASE n # window'
    <3>1. Underway(n)' = Underway(n)
      BY <1>6, <1>8, <2>1, <2>2 DEF Underway
    <3>2. Counted(n) /\ n \in Nat /\ (n > window' => n > window)
      BY <1>2, <1>5
    <3>. QED
      BY <1>2, <2>2, <3>1, <3>2 DEF Counted
  <2>3. CASE n = window'
    <3>1. Counted(n) /\ n > window
      BY <1>2, <1>5, <2>3
    <3>2. through[n] = 0
      BY <3>1 DEF Counted
    <3>3. Underway(n) = {}
      <4>1. ASSUME NEW o \in Callers, calling[o].stage # "idle"
            PROVE  calling[o].of # n
        <5>1. calling[o].of <= window /\ calling[o].of \in Nat
          BY <4>1, <1>5 DEF Called, RateLimitTypeOK
        <5>. QED
          BY <1>2, <1>5, <2>3, <5>1
      <4>. QED
        BY <4>1 DEF Underway
    <3>4. CASE Quota >= 1
      <4>1. Underway(n)' = {c}
        BY <1>6, <1>8, <2>3, <3>3, <3>4 DEF Underway
      <4>2. IsFiniteSet(Underway(n)') /\ Cardinality(Underway(n)') = 1
        BY <4>1, FS_Singleton
      <4>. QED
        BY <1>2, <1>3, <1>5, <2>3, <3>2, <3>4, <4>2 DEF Counted
    <3>5. CASE ~(Quota >= 1)
      <4>1. Underway(n)' = {}
        BY <1>5, <1>6, <1>8, <3>3, <3>5 DEF Underway
      <4>2. IsFiniteSet(Underway(n)') /\ Cardinality(Underway(n)') = 0
        BY <4>1, FS_EmptySet
      <4>. QED
        BY <1>2, <1>3, <1>5, <2>3, <3>2, <4>2 DEF Counted
    <3>. QED
      BY <3>4, <3>5
  <2>. QED
    BY <2>2, <2>3
<1>10. \A o \in Callers : Called(o)'
  <2>1. ASSUME NEW o \in Callers, o # c, calling[o].stage # "idle"
        PROVE  1 <= calling[o].of /\ calling[o].of <= window' /\ calling[o].of # window'
    <3>1. 1 <= calling[o].of /\ calling[o].of <= window /\ calling[o].of \in Nat
      BY <1>5, <2>1 DEF Called, RateLimitTypeOK
    <3>. QED
      BY <1>2, <1>5, <3>1
  <2>2. 1 <= window' /\ window' <= window'
    BY <1>5
  <2>. QED
    BY <1>6, <1>8, <2>1, <2>2 DEF Called
<1>11. window' \notin turnedAway'
  <2>1. Counted(window') /\ window' > window
    BY <1>2, <1>5
  <2>. QED
    BY <1>2, <2>1 DEF Counted
<1>12. window' # 0
  BY <1>5
<1>. QED
  BY <1>7, <1>9, <1>10, <1>11, <1>12

\* One more request in a window.
LEMMA NextCounted ==
    ASSUME RateLimitInv, NEW c \in Callers, Incr(c), counter # NoKey
    PROVE  RateLimitInv'
<1>. USE DEF RateLimitInv
<1>1. calling[c] = NotCalling /\ counter.count < MaxCounted /\ window' = window
      /\ UNCHANGED <<through, turnedAway, outages>>
      /\ counter' = [counter EXCEPT !.count = @ + 1]
  BY DEF Incr
<1>2. /\ counter'.count = counter.count + 1 /\ counter'.ttl = counter.ttl
      /\ counter.count \in Nat
      /\ counter' \in [count : 0..MaxCounted, ttl : -1..Window]
  <2>1. counter \in [count : 0..MaxCounted, ttl : -1..Window]
    BY DEF RateLimitTypeOK
  <2>. HIDE DEF RateLimitInv
  <2>. QED
    BY <1>1, <2>1, RateLimitAssumption
<1>3. UNCHANGED <<window, through, turnedAway, outages>> /\ calling[c] = NotCalling
  BY <1>1
<1>4. PICK stage \in {"expire", "ttl"} :
        stage = IF counter'.count = 1 THEN "expire" ELSE "ttl"
  OBVIOUS
<1>5. PICK call : call = [stage |-> stage, used |-> counter'.count, of |-> window]
  OBVIOUS
<1>6. calling' = [calling EXCEPT ![c] = call]
  BY <1>3, <1>4, <1>5 DEF Incr
<1>7. window \in 0..MaxWindows /\ counter'.count \in 0..MaxCounted
      /\ MaxWindows \in Nat /\ MaxCounted \in Nat /\ Quota \in Nat
  BY <1>2, RateLimitAssumption DEF RateLimitTypeOK
<1>8. call \in Call /\ call.stage = stage /\ call.used = counter'.count /\ call.of = window
  BY <1>5, <1>7 DEF Call
<1>9. RateLimitTypeOK'
  BY <1>2, <1>3, <1>6, <1>8, RequestMoves DEF RateLimitTypeOK, Call
<1>10. 1 <= window
  BY <1>7
<1>11. \A o \in Callers : calling'[o] = IF o = c THEN call ELSE calling[o]
  BY <1>6, <1>8, RequestMoves
<1>12. ASSUME NEW n \in 1..MaxWindows
       PROVE  Counted(n)'
  <2>1. c \notin Underway(n)
    BY <1>3 DEF Underway, NotCalling
  <2>2. IsFiniteSet(Underway(n)) /\ Cardinality(Underway(n)) \in Nat /\ through[n] \in Nat
        /\ Counted(n)
    BY FS_CardinalityType DEF Counted, RateLimitTypeOK
  <2>3. CASE n = window /\ counter'.count <= Quota
    <3>1. Underway(n)' = Underway(n) \cup {c}
      BY <1>4, <1>8, <1>11, <2>3 DEF Underway
    <3>2. IsFiniteSet(Underway(n)') /\ Cardinality(Underway(n)') = Cardinality(Underway(n)) + 1
      BY <2>1, <2>2, <3>1, FS_AddElement
    <3>3. through[n] + Cardinality(Underway(n)) <= counter.count
      BY <2>2, <2>3 DEF Counted
    <3>4. through[n] + Cardinality(Underway(n)') <= counter'.count
      BY <1>2, <2>2, <3>2, <3>3
    <3>5. through[n] + Cardinality(Underway(n)') <= Quota
      BY <1>2, <1>7, <2>2, <2>3, <3>2, <3>4
    <3>. QED
      BY <1>3, <1>7, <2>2, <2>3, <3>2, <3>4, <3>5 DEF Counted
  <2>4. CASE ~(n = window /\ counter'.count <= Quota)
    <3>1. Underway(n)' = Underway(n)
      BY <1>8, <1>11, <2>1, <2>4 DEF Underway
    <3>. QED
      BY <1>2, <1>3, <1>7, <2>2, <3>1 DEF Counted
  <2>. QED
    BY <2>3, <2>4
<1>13. \A o \in Callers : Called(o)'
  BY <1>2, <1>3, <1>4, <1>7, <1>8, <1>10, <1>11 DEF Called
<1>. QED
  BY <1>2, <1>3, <1>9, <1>10, <1>12, <1>13

\* A request goes on, or is let through because Redis failed.
LEMMA RequestGoesOn ==
    ASSUME RateLimitInv, NEW c \in Callers, NEW call \in Call,
           calling' = [calling EXCEPT ![c] = call],
           \/ call.stage = "idle"
           \/ /\ call.of = calling[c].of /\ call.used = calling[c].used
              /\ calling[c].stage # "idle"
              /\ call.stage = "decide" /\ call.of = window => counter'.ttl # Never,
           UNCHANGED <<window, through, turnedAway>>, outages' \in 0..MaxOutages,
           counter' \in [count : 0..MaxCounted, ttl : -1..Window],
           counter' # NoKey => counter # NoKey /\ counter'.count = counter.count,
           counter'.ttl = Never => counter.ttl = Never
    PROVE  RateLimitInv'
<1>. USE DEF RateLimitInv
<1>1. RateLimitTypeOK'
  BY RequestMoves DEF RateLimitTypeOK, Call
<1>2. \A o \in Callers : calling'[o] = IF o = c THEN call ELSE calling[o]
  BY RequestMoves
<1>3. ASSUME NEW n \in 1..MaxWindows
      PROVE  Counted(n)'
  <2>1. Underway(n)' \subseteq Underway(n)
    BY <1>2 DEF Underway
  <2>2. n > window => n \notin turnedAway'
    BY DEF Counted
  <2>. QED
    BY <2>1, <2>2, FewerUnderway
<1>4. \A o \in Callers : Called(o)'
  <2>1. ASSUME NEW o \in Callers, o # c
        PROVE  Called(o)'
    BY <1>2, <2>1 DEF Called
  <2>2. Called(c)'
    BY <1>2 DEF Called
  <2>. QED
    BY <2>1, <2>2
<1>. QED
  BY <1>1, <1>3, <1>4

\* A request that is counted is decided on.
LEMMA DecideStep ==
    ASSUME RateLimitInv, NEW c \in Callers, Decide(c)
    PROVE  RateLimitInv'
<1>. USE DEF RateLimitInv
<1>1. NotCalling \in Call /\ NotCalling.stage = "idle"
  BY RateLimitAssumption DEF NotCalling, Call
<1>2. /\ calling[c].stage = "decide" /\ calling' = [calling EXCEPT ![c] = NotCalling]
      /\ UNCHANGED <<counter, window, outages>>
  BY DEF Decide
<1>3. PICK w \in 1..MaxWindows : /\ w = calling[c].of /\ w <= window
                                 /\ w = window => counter.ttl # Never
  <2>1. /\ calling[c].of \in 0..MaxWindows /\ 1 <= calling[c].of /\ calling[c].of <= window
        /\ calling[c].of = window => counter.ttl # Never
    BY <1>2 DEF Called, RateLimitTypeOK
  <2>2. calling[c].of \in 1..MaxWindows
    BY <2>1, RateLimitAssumption
  <2>. QED
    BY <2>1, <2>2
<1>4. calling[c].used \in Nat /\ Quota \in Nat /\ window \in Nat
  BY RateLimitAssumption DEF RateLimitTypeOK
<1>5. \A o \in Callers : calling'[o] = IF o = c THEN NotCalling ELSE calling[o]
  BY <1>1, <1>2, RequestMoves
<1>6. ASSUME NEW n \in 1..MaxWindows
      PROVE  Underway(n)' = Underway(n) \ {c}
  BY <1>1, <1>5 DEF Underway
<1>7. \A o \in Callers : Called(o)'
  BY <1>1, <1>2, <1>5 DEF Called
<1>8. calling' \in [Callers -> Call]
  BY <1>1, <1>2, RequestMoves
<1>9. CASE WithinQuota(calling[c].used)
  <2>1. through' = [through EXCEPT ![w] = @ + 1] /\ turnedAway' = turnedAway
    BY <1>3, <1>9 DEF Decide
  <2>2. through' \in [1..MaxWindows -> Nat]
        /\ \A n \in 1..MaxWindows : through'[n] = IF n = w THEN through[n] + 1 ELSE through[n]
    <3>1. through \in [1..MaxWindows -> Nat]
      BY DEF RateLimitTypeOK
    <3>. HIDE DEF RateLimitInv
    <3>. QED
      BY <2>1, <3>1
  <2>3. RateLimitTypeOK'
    BY <1>2, <1>8, <2>1, <2>2 DEF RateLimitTypeOK, Call
  <2>4. ASSUME NEW n \in 1..MaxWindows, n # w
        PROVE  Counted(n)'
    BY <1>2, <1>6, <2>1, <2>2, <2>4, FewerUnderway DEF Counted
  <2>5. Counted(w)'
    <3>1. c \in Underway(w)
      BY <1>2, <1>3, <1>9 DEF Underway, WithinQuota
    <3>2. IsFiniteSet(Underway(w)) /\ Counted(w) /\ Cardinality(Underway(w)) \in Nat
          /\ through[w] \in Nat
      BY FS_CardinalityType DEF Counted, RateLimitTypeOK
    <3>3. /\ IsFiniteSet(Underway(w)')
          /\ Cardinality(Underway(w)') = Cardinality(Underway(w)) - 1
      BY <1>6, <3>1, <3>2, FS_RemoveElement
    <3>4. through'[w] + Cardinality(Underway(w)') = through[w] + Cardinality(Underway(w))
      BY <2>2, <3>2, <3>3
    <3>5. ~(w > window')
      BY <1>2, <1>3, <1>4
    <3>. QED
      BY <1>2, <3>2, <3>3, <3>4, <3>5 DEF Counted
  <2>. QED
    BY <1>2, <1>7, <2>1, <2>3, <2>4, <2>5
<1>10. CASE ~WithinQuota(calling[c].used)
  <2>1. turnedAway' = turnedAway \cup {w} /\ through' = through
    BY <1>3, <1>10 DEF Decide
  <2>2. RateLimitTypeOK'
    BY <1>2, <1>8, <2>1 DEF RateLimitTypeOK, Call
  <2>3. ASSUME NEW n \in 1..MaxWindows
        PROVE  Counted(n)'
    <3>1. n > window => n \notin turnedAway'
      BY <1>3, <1>4, <2>1 DEF Counted
    <3>. QED
      BY <1>2, <1>6, <2>1, <3>1, FewerUnderway
  <2>. QED
    BY <1>2, <1>3, <1>7, <2>1, <2>2, <2>3
<1>. QED
  BY <1>9, <1>10

LEMMA RequestSteps ==
    ASSUME RateLimitInv, NEW c \in Callers, ReadTtl(c) \/ SetExpiry(c) \/ FailOpen(c)
    PROVE  RateLimitInv'
<1>. USE DEF RateLimitInv
<1>1. calling[c] \in Call /\ counter \in [count : 0..MaxCounted, ttl : -1..Window]
      /\ outages \in 0..MaxOutages
  BY DEF RateLimitTypeOK, Call
<1>2. NotCalling \in Call /\ NotCalling.stage = "idle"
  BY RateLimitAssumption DEF NotCalling, Call
<1>3. CASE ReadTtl(c)
  <2>1. PICK stage \in {"expire", "decide"} :
            stage = IF NeedsExpiry(counter.ttl) THEN "expire" ELSE "decide"
    OBVIOUS
  <2>2. PICK call : call = [calling[c] EXCEPT !.stage = stage]
    OBVIOUS
  <2>3. call \in Call /\ call.stage = stage
        /\ call.of = calling[c].of /\ call.used = calling[c].used
    <3>. HIDE DEF RateLimitInv
    <3>. QED
      BY <1>1, <2>1, <2>2 DEF Call
  <2>4. calling' = [calling EXCEPT ![c] = call]
    BY <1>3, <2>1, <2>2 DEF ReadTtl
  <2>5. /\ calling[c].stage # "idle" /\ UNCHANGED <<counter, window, through, turnedAway, outages>>
        /\ stage = "decide" => counter.ttl # Never
    BY <1>3, <2>1 DEF ReadTtl, NeedsExpiry
  <2>. QED
    BY <1>1, <2>3, <2>4, <2>5, RequestGoesOn
<1>4. CASE SetExpiry(c)
  <2>1. PICK call : call = [calling[c] EXCEPT !.stage = "decide"]
    OBVIOUS
  <2>2. call \in Call /\ call.stage = "decide"
        /\ call.of = calling[c].of /\ call.used = calling[c].used
    <3>. HIDE DEF RateLimitInv
    <3>. QED
      BY <1>1, <2>1 DEF Call
  <2>3. calling' = [calling EXCEPT ![c] = call]
    BY <1>4, <2>1 DEF SetExpiry
  <2>4. calling[c].stage # "idle" /\ UNCHANGED <<window, through, turnedAway, outages>>
    BY <1>4 DEF SetExpiry
  <2>5. /\ counter' \in [count : 0..MaxCounted, ttl : -1..Window]
        /\ counter' # NoKey => counter # NoKey /\ counter'.count = counter.count
        /\ counter'.ttl # Never
    <3>1. CASE counter = NoKey
      BY <1>1, <1>4, <3>1 DEF SetExpiry, NoKey, Never
    <3>2. CASE counter # NoKey
      <4>1. counter' = [counter EXCEPT !.ttl = Window]
        BY <1>4, <3>2 DEF SetExpiry
      <4>. HIDE DEF RateLimitInv
      <4>. QED
        BY <1>1, <3>2, <4>1, RateLimitAssumption DEF Never
    <3>. QED
      BY <3>1, <3>2
  <2>. QED
    BY <1>1, <2>2, <2>3, <2>4, <2>5, RequestGoesOn
<1>5. CASE FailOpen(c)
  <2>1. /\ calling' = [calling EXCEPT ![c] = NotCalling]
        /\ UNCHANGED <<counter, window, through, turnedAway>>
    BY <1>5 DEF FailOpen
  <2>2. outages' \in 0..MaxOutages
    BY <1>1, <1>5, RateLimitAssumption DEF FailOpen, Outage
  <2>. QED
    BY <1>1, <1>2, <2>1, <2>2, RequestGoesOn
<1>. QED
  BY <1>3, <1>4, <1>5

LEMMA TimePassesStep ==
    ASSUME RateLimitInv, TimePasses
    PROVE  RateLimitInv'
<1>. USE DEF RateLimitInv
<1>1. counter \in [count : 0..MaxCounted, ttl : -1..Window]
  BY DEF RateLimitTypeOK
<1>2. counter.ttl > 0 /\ UNCHANGED <<window, calling, through, turnedAway, outages>>
      /\ counter' = IF counter.ttl = 1 THEN NoKey ELSE [counter EXCEPT !.ttl = @ - 1]
  BY DEF TimePasses
<1>3. /\ counter' \in [count : 0..MaxCounted, ttl : -1..Window] /\ counter'.ttl # Never
      /\ counter' # NoKey => counter # NoKey /\ counter'.count = counter.count
  <2>. HIDE DEF RateLimitInv
  <2>1. CASE counter.ttl = 1
    BY <1>2, <2>1, RateLimitAssumption DEF NoKey, Never
  <2>2. CASE counter.ttl # 1
    <3>1. counter' = [counter EXCEPT !.ttl = @ - 1]
      BY <1>2, <2>2
    <3>2. counter'.count = counter.count /\ counter'.ttl = counter.ttl - 1
          /\ counter' \in [count : 0..MaxCounted, ttl : -1..Window]
      BY <1>1, <1>2, <2>2, <3>1, RateLimitAssumption
    <3>3. counter # NoKey
      BY <1>2 DEF NoKey
    <3>. QED
      BY <1>1, <1>2, <2>2, <3>2, <3>3 DEF Never
  <2>. QED
    BY <2>1, <2>2
<1>4. UNCHANGED <<window, calling, through, turnedAway, outages>>
  BY <1>2
<1>5. RateLimitTypeOK'
  BY <1>3, <1>4 DEF RateLimitTypeOK
<1>6. ASSUME NEW n \in 1..MaxWindows
      PROVE  Counted(n)'
  <2>1. Underway(n)' = Underway(n) /\ (n > window => n \notin turnedAway')
    BY <1>4 DEF Underway, Counted
  <2>. QED
    BY <1>3, <1>4, <2>1, FewerUnderway
<1>. QED
  BY <1>3, <1>4, <1>5, <1>6 DEF Called

LEMMA RateLimitInvariant == RateLimitSpec => []RateLimitInv
<1>1. RateLimitInit => RateLimitInv
  <2>. SUFFICES ASSUME RateLimitInit PROVE RateLimitInv
    OBVIOUS
  <2>1. /\ NoKey \in [count : 0..MaxCounted, ttl : -1..Window] /\ NoKey.ttl = 0
        /\ NotCalling.stage = "idle"
        /\ NotCalling \in [stage : {"idle", "ttl", "expire", "decide"},
                                used : 0..MaxCounted, of : 0..MaxWindows]
    BY RateLimitAssumption DEF NoKey, NotCalling
  <2>2. RateLimitTypeOK
    BY <2>1, RateLimitAssumption DEF RateLimitInit, RateLimitTypeOK
  <2>3. \A n : Underway(n) = {}
    BY <2>1 DEF RateLimitInit, Underway
  <2>4. \A n \in 1..MaxWindows : Counted(n)
    BY <2>3, FS_EmptySet, RateLimitAssumption DEF RateLimitInit, Counted
  <2>5. \A c \in Callers : Called(c)
    BY <2>1 DEF RateLimitInit, Called
  <2>. QED
    BY <2>2, <2>4, <2>5 DEF RateLimitInit, RateLimitInv
<1>2. RateLimitInv /\ [RateLimitNext]_rateVars => RateLimitInv'
  <2>1. ASSUME RateLimitInv, UNCHANGED rateVars
        PROVE  RateLimitInv'
    BY <2>1 DEF rateVars, RateLimitInv, RateLimitTypeOK, Counted, Called, Underway
  <2>2. ASSUME RateLimitInv, NEW c \in Callers,
               Incr(c) \/ ReadTtl(c) \/ SetExpiry(c) \/ Decide(c) \/ FailOpen(c)
        PROVE  RateLimitInv'
    BY <2>2, FirstCounted, NextCounted, RequestSteps, DecideStep
  <2>. QED
    BY <2>1, <2>2, TimePassesStep DEF RateLimitNext
<1>. QED
  BY <1>1, <1>2, PTL DEF RateLimitSpec

\* However requests interleave, die and expire, no window lets more through than
\* the limit, and who was refused is let through in the end (RateLimiter.check).
THEOREM LimitHolds == RateLimitSpec => []WindowsHold
<1>1. RateLimitInv => WindowsHold
  <2>1. ASSUME RateLimitInv, NEW n \in 1..MaxWindows
        PROVE  through[n] <= Quota
    <3>1. through[n] \in Nat /\ Quota \in Nat /\ Cardinality(Underway(n)) \in Nat
          /\ through[n] + Cardinality(Underway(n)) <= Quota
      BY <2>1, FS_CardinalityType, RateLimitAssumption
         DEF RateLimitInv, RateLimitTypeOK, Counted
    <3>. QED
      BY <3>1
  <2>. QED
    BY <2>1 DEF RateLimitInv, WindowsHold
<1>. QED
  BY <1>1, RateLimitInvariant, PTL
=============================================================================
