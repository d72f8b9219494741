-------------------------------- MODULE Agents --------------------------------
(***************************************************************************)
(* The agents of one workspace: which of them answers, and which tools it  *)
(* is offered.                                                             *)
(*                                                                         *)
(* Source: app/services/agent_service.py,                                  *)
(* app/repositories/agent_repository.py, app/db/models/agent.py,           *)
(* app/api/v1/agents.py, ToolRegistry of app/agents/registry.py.           *)
(*                                                                         *)
(* An administrator's request reads without locks and writes, at its       *)
(* commit, the columns that differ from what it read.  No index allows     *)
(* only one default: clear_defaults is what keeps it single.               *)
(***************************************************************************)
EXTENDS Naturals, FiniteSets

CONSTANTS
    Agents,         \* rows
    Tools,          \* names a grant may have
    Registered,     \* the tools this build implements
    Admins,         \* requests of administrators
    NoAgent,
    MaxSettings     \* bound: requests begun

ASSUME AgentsAssumption ==
    NoAgent \notin Agents /\ Registered \subseteq Tools /\ MaxSettings \in Nat

VARIABLES
    agentStatus,   \* the committed status of each agent
    isDefault,     \* the agents whose row says it is the default
    grants,        \* per agent, the tools granted: enabled or not
    setting,       \* what each request has in hand
    rivals,        \* history: promotions crossed since one last ran alone
    settings       \* bound: requests begun so far

agentsVars == <<agentStatus, isDefault, grants, setting, rivals, settings>>

Statuses == {"draft", "active", "disabled"}
Idle == [kind |-> "none", on |-> NoAgent, to |-> "draft", seen |-> {},
         alone |-> TRUE]

AgentsInit ==
    /\ agentStatus = [a \in Agents |-> "absent"]
    /\ isDefault = {}
    /\ grants = [a \in Agents |-> [t \in Tools |-> "none"]]
    /\ setting = [d \in Admins |-> Idle]
    /\ rivals = FALSE
    /\ settings = 0

\* The agent that replies when a job names none: one of several, if several are.
AnsweringDefaults == {a \in isDefault : agentStatus[a] = "active"}

\* What the model is told of: enabled grants of tools that are implemented.
Specs(a) == {t \in Registered : grants[a][t] = "enabled"}

-----------------------------------------------------------------------------

Ask(d, ask) ==
    /\ setting[d] = Idle
    /\ settings < MaxSettings
    /\ settings' = settings + 1
    /\ setting' = [setting EXCEPT ![d] = ask]
    /\ UNCHANGED <<agentStatus, isDefault, grants, rivals>>

\* create: a draft.
Create(d) ==
    \E a \in Agents :
        /\ agentStatus[a] = "absent"
        /\ Ask(d, [Idle EXCEPT !.kind = "create", !.on = a])

\* update of the status.  A default that is disabled remains the default.
Update(d) ==
    \E a \in Agents, to \in Statuses :
        /\ agentStatus[a] \in Statuses \ {to}
        /\ Ask(d, [Idle EXCEPT !.kind = "status", !.on = a, !.to = to])

\* make_default: an active agent; the defaults to clear are read.
Promoting == {d \in Admins : setting[d].kind = "promote"}

MakeDefault(d) ==
    \E a \in Agents :
        /\ agentStatus[a] = "active"
        /\ setting[d] = Idle
        /\ settings < MaxSettings
        /\ settings' = settings + 1
        /\ setting' =
              [o \in Admins |->
                IF o = d THEN [Idle EXCEPT !.kind = "promote", !.on = a,
                                           !.seen = isDefault,
                                           !.alone = Promoting = {}]
                ELSE IF o \in Promoting THEN [setting[o] EXCEPT !.alone = FALSE]
                ELSE setting[o]]
        /\ UNCHANGED <<agentStatus, isDefault, grants, rivals>>

\* grant_tool refuses a name this build cannot run; revoke_tool one that was
\* never granted.  A second insert of a grant fails and changes nothing.
SetGrant ==
    \E a \in Agents, t \in Tools, to \in {"enabled", "disabled"} :
        /\ agentStatus[a] # "absent"
        /\ settings < MaxSettings
        /\ t \in Registered \/ (to = "disabled" /\ grants[a][t] # "none")
        /\ grants[a][t] # to
        /\ grants' = [grants EXCEPT ![a][t] = to]
        /\ settings' = settings + 1
        /\ UNCHANGED <<agentStatus, isDefault, setting, rivals>>

\* Mutant: the others are left as they are.
ClearNone(seen) == isDefault

\* clear_defaults: of the rows it saw.
ClearDefaults(seen) == isDefault \ seen

\* A default that is promoted again keeps its flag without a write.
Settle(d) ==
    LET s == setting[d] IN
    /\ s # Idle
    /\ setting' = [setting EXCEPT ![d] = Idle]
    /\ \/ /\ s.kind = "promote"
          /\ isDefault' = ClearDefaults(s.seen \ {s.on})
                            \cup ({s.on} \ s.seen)
          /\ rivals' = ~s.alone
          /\ UNCHANGED <<agentStatus, grants>>
       \/ /\ s.kind # "promote"
          /\ agentStatus' = [agentStatus EXCEPT ![s.on] = s.to]
          /\ UNCHANGED <<isDefault, grants, rivals>>
    /\ UNCHANGED settings

Drop(d) ==
    /\ setting[d] # Idle
    /\ setting' = [setting EXCEPT ![d] = Idle]
    /\ UNCHANGED <<agentStatus, isDefault, grants, rivals, settings>>

AgentsNext ==
    \/ \E d \in Admins : \/ Create(d) \/ Update(d) \/ MakeDefault(d)
                         \/ Settle(d) \/ Drop(d)
    \/ SetGrant

AgentsSpec == AgentsInit /\ [][AgentsNext]_agentsVars

-----------------------------------------------------------------------------
(* Properties                                                              *)

\* Every variable has its type.
AgentsTypeOK ==
    /\ agentStatus \in [Agents -> {"absent"} \cup Statuses]
    /\ isDefault \subseteq Agents
    /\ grants \in [Agents -> [Tools -> {"none", "enabled", "disabled"}]]
    /\ setting \in [Admins -> [kind : {"none", "create", "status", "promote"},
                              on : Agents \cup {NoAgent}, to : Statuses,
                              seen : SUBSET Agents, alone : BOOLEAN]]
    /\ rivals \in BOOLEAN
    /\ settings \in 0..MaxSettings

\* A workspace has one default at most, unless two promotions crossed; the next
\* one that runs alone repairs that.
SingleDefault == rivals \/ Cardinality(isDefault) <= 1

=============================================================================
