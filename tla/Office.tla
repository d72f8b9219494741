------------------------------- MODULE Office --------------------------------
(***************************************************************************)
(* The parts of a workspace that share no rows and no keys with each other.*)
(* A behaviour is about one of them: to interleave them would multiply the *)
(* states and show nothing more.                                           *)
(***************************************************************************)
EXTENDS Delivery, Knowledge, Leads, Agents, Rounds, Entitlements, Sessions,
        Invitations, RateLimit, Templates, Runner

VARIABLE part    \* the part this behaviour is about

OfficeInit ==
    /\ part \in {"delivery", "documents", "leads", "agents", "rounds", "plan",
                 "sessions", "members", "limiter", "templates", "workers"}
    /\ DeliveryInit /\ KnowledgeInit /\ LeadsInit /\ AgentsInit /\ RoundsInit
    /\ EntitlementsInit /\ SessionsInit /\ InvitationsInit /\ RateLimitInit
    /\ TemplatesInit /\ RunnerInit
    /\ part # "plan" => slotKind = "agents"

OfficeNext ==
    /\ UNCHANGED part
    /\ IF part = "delivery" THEN DeliveryNext ELSE UNCHANGED deliveryVars
    /\ IF part = "documents" THEN KnowledgeNext ELSE UNCHANGED knowledgeVars
    /\ IF part = "leads" THEN LeadsNext ELSE UNCHANGED leadsVars
    /\ IF part = "agents" THEN AgentsNext ELSE UNCHANGED agentsVars
    /\ IF part = "rounds" THEN RoundsNext ELSE UNCHANGED roundsVars
    /\ IF part = "plan" THEN EntitlementsNext ELSE UNCHANGED planVars
    /\ IF part = "sessions" THEN SessionsNext ELSE UNCHANGED sessionVars
    /\ IF part = "members" THEN InvitationsNext ELSE UNCHANGED inviteVars
    /\ IF part = "limiter" THEN RateLimitNext ELSE UNCHANGED rateVars
    /\ IF part = "templates" THEN TemplatesNext ELSE UNCHANGED templateVars
    /\ IF part = "workers" THEN RunnerNext ELSE UNCHANGED runnerVars

officeVars == <<part, deliveryVars, knowledgeVars, leadsVars, agentsVars,
                roundsVars, planVars, sessionVars, inviteVars, rateVars,
                templateVars, runnerVars>>

OfficeSpec == OfficeInit /\ [][OfficeNext]_officeVars

\* Every variable of every part has its type.
OfficeTypeOK ==
    /\ DeliveryTypeOK /\ KnowledgeTypeOK /\ LeadsTypeOK /\ AgentsTypeOK
    /\ RoundsTypeOK /\ AllowancesTypeOK /\ SlotsTypeOK /\ SessionsTypeOK
    /\ InvitationsTypeOK /\ RateLimitTypeOK /\ TemplatesTypeOK /\ RunnerTypeOK

\* What administrators have set is one thing: a single default agent, and a
\* registry that says what Meta said last.
SettingsHold == SingleDefault /\ RegistryIsLatest

\* Who is not to come in does not: a token that is spent buys no other, and
\* nobody is a member but by an invitation to them that stood.
AccessHolds == SpentStaysSpent /\ DoorIsKept

=============================================================================
