------------------------------ MODULE Templates ------------------------------
(***************************************************************************)
(* The registry of message templates: a copy of what Meta says, made page  *)
(* by page when an administrator asks for it.                              *)
(*                                                                         *)
(* Source: app/services/template_service.py,                               *)
(* app/repositories/template_repository.py,                                *)
(* app/db/models/whatsapp_template.py, app/api/v1/templates.py,            *)
(* WhatsAppClient.list_templates of app/integrations/whatsapp/client.py.   *)
(*                                                                         *)
(* A synchronisation asks first and reads the registry afterwards; it      *)
(* writes, at its commit, the columns that differ from what it read.       *)
(* Nothing keeps two of them apart, or Meta from changing its mind.        *)
(***************************************************************************)
EXTENDS Naturals

CONSTANTS
    Templates,      \* names with a language
    PageOf,         \* the page of Meta's list each of them is on
    LastPage,       \* pages of the list
    MaxPages,       \* MAX_TEMPLATE_PAGES
    Syncs,          \* requests that synchronise
    MaxChanges,     \* bound: changes at Meta
    MaxSyncs        \* bound: synchronisations begun

ASSUME TemplatesAssumption ==
    /\ LastPage \in Nat \ {0} /\ MaxPages \in Nat \ {0}
    /\ PageOf \in [Templates -> 1..LastPage]
    /\ MaxChanges \in Nat /\ MaxSyncs \in Nat

VARIABLES
    atMeta,      \* what Meta has of each template
    registry,    \* the committed status of each row
    syncing,     \* where each synchronisation is
    listed,      \* history: what the last one that committed was told
    crossing,    \* history: TRUE unless it was the only one of its time
    changes,     \* bound: changes at Meta so far
    syncs        \* bound: synchronisations begun so far

templateVars == <<atMeta, registry, syncing, listed, crossing, changes, syncs>>

\* At Meta: "novel" is a status introduced after this was written.
Reported == {"approved", "paused", "novel"}
Unlisted == [t \in Templates |-> "none"]

NoRegistry == [t \in Templates |-> "absent"]

NoSync == [stage |-> "idle", page |-> 1, told |-> Unlisted, read |-> NoRegistry,
           alone |-> TRUE]

TemplatesInit ==
    /\ atMeta = Unlisted
    /\ registry = NoRegistry
    /\ syncing = [r \in Syncs |-> NoSync]
    /\ listed = Unlisted
    /\ crossing = FALSE
    /\ changes = 0
    /\ syncs = 0

MetaDecides ==
    \E t \in Templates, to \in Reported \cup {"none"} :
        /\ changes < MaxChanges
        /\ changes' = changes + 1
        /\ atMeta[t] # to
        /\ atMeta' = [atMeta EXCEPT ![t] = to]
        /\ UNCHANGED <<registry, syncing, listed, crossing, syncs>>

-----------------------------------------------------------------------------

Running == {r \in Syncs : syncing[r].stage # "idle"}

StartSync(r) ==
    /\ syncing[r].stage = "idle"
    /\ syncs < MaxSyncs
    /\ syncs' = syncs + 1
    /\ syncing' = [o \in Syncs |->
            IF o = r THEN [NoSync EXCEPT !.stage = "ask", !.alone = Running = {}]
            ELSE IF o \in Running THEN [syncing[o] EXCEPT !.alone = FALSE]
            ELSE syncing[o]]
    /\ UNCHANGED <<atMeta, registry, listed, crossing, changes>>

\* list_templates: one page.  The last that is asked for need not be the last.
FetchPage(r) ==
    LET p == syncing[r].page IN
    /\ syncing[r].stage = "ask"
    /\ syncing' = [syncing EXCEPT
            ![r].told = [t \in Templates |->
                            IF PageOf[t] = p THEN atMeta[t] ELSE @[t]],
            ![r].page = p + 1,
            ![r].stage = IF p = LastPage \/ p = MaxPages THEN "read" ELSE "ask"]
    /\ UNCHANGED <<atMeta, registry, listed, crossing, changes, syncs>>

\* A page that cannot be had, or cannot be read, is the end of it, as are a
\* failure and a crash.
SyncFails(r) ==
    /\ syncing[r].stage # "idle"
    /\ syncing' = [syncing EXCEPT ![r] = NoSync]
    /\ UNCHANGED <<atMeta, registry, listed, crossing, changes, syncs>>

\* list_for_account
ReadRegistry(r) ==
    /\ syncing[r].stage = "read"
    /\ syncing' = [syncing EXCEPT ![r].stage = "write", ![r].read = registry]
    /\ UNCHANGED <<atMeta, registry, listed, crossing, changes, syncs>>

\* META_STATUSES
StatusOf(report) ==
    CASE report = "approved" -> "approved"
      [] report = "paused" -> "paused"
      [] OTHER -> "unknown"

\* Mutant: what Meta no longer has stays what it was.
KeptAsItWas(old) == old

\* A row that was not listed; one that was never made is not made.
Withdrawn(old) == IF old = "absent" THEN old ELSE "disabled"

Mirrored(told, old) ==
    IF told = "none" THEN Withdrawn(old) ELSE StatusOf(told)

\* Two that insert the same row: the second fails on the unique constraint.
CommitSync(r) ==
    LET s == syncing[r]
        new == [t \in Templates |-> Mirrored(s.told[t], s.read[t])]
    IN
    /\ s.stage = "write"
    /\ syncing' = [syncing EXCEPT ![r] = NoSync]
    /\ IF \E t \in Templates : s.read[t] = "absent" /\ new[t] # "absent"
                               /\ registry[t] # "absent"
       THEN UNCHANGED <<registry, listed, crossing>>
       ELSE /\ registry' = [t \in Templates |->
                    IF new[t] = s.read[t] THEN registry[t] ELSE new[t]]
            /\ listed' = s.told
            /\ crossing' = ~s.alone
    /\ UNCHANGED <<atMeta, changes, syncs>>

TemplatesNext ==
    \/ MetaDecides
    \/ \E r \in Syncs : \/ StartSync(r) \/ FetchPage(r) \/ SyncFails(r)
                        \/ ReadRegistry(r) \/ CommitSync(r)

TemplatesSpec == TemplatesInit /\ [][TemplatesNext]_templateVars

-----------------------------------------------------------------------------
(* Who asks the registry                                                   *)

\* refusal_reason_for: what it has never heard of is no objection to a follow-up.
FollowUpMay(t) == registry[t] \in {"absent", "approved"}

\* create and _send_blocker of campaigns: the row must be there.
CampaignMay(t) == registry[t] = "approved"

-----------------------------------------------------------------------------
(* Properties                                                              *)

Known == {"absent", "approved", "paused", "disabled", "unknown"}

\* Every variable has its type.
TemplatesTypeOK ==
    /\ atMeta \in [Templates -> Reported \cup {"none"}]
    /\ registry \in [Templates -> Known]
    /\ syncing \in [Syncs -> [stage : {"idle", "ask", "read", "write"}, page : Nat,
                              told : [Templates -> Reported \cup {"none"}],
                              read : [Templates -> Known], alone : BOOLEAN]]
    /\ listed \in [Templates -> Reported \cup {"none"}]
    /\ crossing \in BOOLEAN
    /\ changes \in 0..MaxChanges /\ syncs \in 0..MaxSyncs

\* Whatever Meta does between two pages and whatever earlier synchronisations
\* left, once one that ran alone has committed a campaign may send exactly what
\* that one was told is approved, and a follow-up nothing it was told otherwise of:
\* what vanished, was paused, or is in a state nobody knew of is not sent.
RegistryIsLatest ==
    \/ crossing
    \/ \A t \in Templates :
        /\ CampaignMay(t) <=> listed[t] = "approved"
        /\ FollowUpMay(t) => listed[t] \in {"approved", "none"}
        /\ FollowUpMay(t) /\ listed[t] = "none" => registry[t] = "absent"

=============================================================================
