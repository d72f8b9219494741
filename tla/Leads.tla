-------------------------------- MODULE Leads --------------------------------
(***************************************************************************)
(* The leads of one customer: filled in by the agent in its turns, edited  *)
(* and moved through the pipeline by people.                               *)
(*                                                                         *)
(* Source: app/services/lead_service.py,                                   *)
(* app/repositories/lead_repository.py, app/db/models/lead.py,             *)
(* app/api/v1/leads.py.                                                    *)
(*                                                                         *)
(* Every operation reads the row, without a lock, and writes the columns   *)
(* that differ from what it read when its transaction commits: for a       *)
(* person at the end of the request, for the agent at the end of the turn, *)
(* after all that remains to be asked of the model.                        *)
(***************************************************************************)
EXTENDS Integers, FiniteSets

CONSTANTS
    Leads,          \* rows
    Fields,         \* AGENT_WRITABLE_FIELDS
    Staff,          \* requests of people
    Turns,          \* turns of the agent
    NoLead,
    MaxScore,       \* MAX_SCORE
    MaxOperations   \* bound: operations begun

ASSUME LeadsAssumption ==
    /\ NoLead \notin Leads
    /\ MaxScore \in Nat \ {0} /\ MaxOperations \in Nat

VARIABLES
    lead,        \* the committed rows
    colleague,   \* TRUE once a person has the conversation
    editing,     \* what each person and each turn has in hand
    logged,      \* the status the last entry of the timeline ends in
    vouched,     \* history: fields a person has committed, per row
    contested,    \* history: rows two transactions had in hand at once
    operations   \* bound: operations begun so far

leadsVars == <<lead, colleague, editing, logged, vouched, contested, operations>>

Open == {"new", "contacted", "qualified", "proposal"}
Terminal == {"won", "lost"}
Writers == {"nobody", "agent", "person"}

\* by: whose value each field holds; closed, qualified: the dates are set.
Lead == [status : {"absent"} \cup Open \cup Terminal, closed : BOOLEAN,
         qualified : BOOLEAN, assigned : BOOLEAN, score : 0..MaxScore,
         by : [Fields -> Writers], verified : SUBSET Fields]

NoRow == [status |-> "absent", closed |-> FALSE, qualified |-> FALSE,
          assigned |-> FALSE, score |-> 0, by |-> [f \in Fields |-> "nobody"],
          verified |-> {}]

\* kind: what is to be committed of a row read as "read".
Nothing == [kind |-> "none", on |-> NoLead, read |-> NoRow, new |-> NoRow]

LeadsInit ==
    /\ lead = [l \in Leads |-> NoRow]
    /\ colleague = FALSE
    /\ editing = [a \in Staff \cup Turns |-> Nothing]
    /\ logged = [l \in Leads |-> "absent"]
    /\ vouched = [l \in Leads |-> {}]
    /\ contested = {}
    /\ operations = 0

\* The partial unique index: one open lead of a customer.
SlotFree == \A l \in Leads : lead[l].status \notin Open

\* An insert that is flushed makes others of the customer wait for its commit.
Opening == {a \in Staff \cup Turns : editing[a].kind = "create"}

Begin(a, kind, l, read, new) ==
    /\ editing[a] = Nothing
    /\ operations < MaxOperations
    /\ operations' = operations + 1
    /\ editing' = [editing EXCEPT ![a] =
            [kind |-> kind, on |-> l, read |-> read, new |-> new]]
    /\ contested' = IF \E o \in Staff \cup Turns : editing[o].on = l
                   THEN contested \cup {l} ELSE contested
    /\ UNCHANGED <<lead, colleague, logged, vouched>>

Change(a, kind, l, new) ==
    /\ lead[l].status # "absent"
    /\ new # lead[l]
    /\ Begin(a, kind, l, lead[l], new)

-----------------------------------------------------------------------------
(* A person's operations                                                   *)

Written(row, fields, writer) ==
    [row EXCEPT !.by = [f \in Fields |-> IF f \in fields THEN writer ELSE @[f]]]

\* create_lead: what is entered by hand is verified; flushed at once.
CreateLead(s) ==
    \E l \in Leads, fields \in SUBSET Fields :
        /\ lead[l].status = "absent"
        /\ SlotFree
        /\ Opening = {}
        /\ Begin(s, "create", l, NoRow,
                 [Written(NoRow, fields, "person") EXCEPT
                    !.status = "new", !.verified = fields])

\* update_lead: a value that is confirmed, or cleared, is verified as well.
UpdateLead(s) ==
    \E l \in Leads, fields \in SUBSET Fields \ {{}}, confirms \in BOOLEAN :
        Change(s, "edit", l,
               LET row == [lead[l] EXCEPT !.verified = @ \cup fields] IN
               IF confirms THEN row ELSE Written(row, fields, "person"))

AllowedTransitions(status) ==
    CASE status = "new" -> {"contacted", "qualified", "lost"}
      [] status = "contacted" -> {"qualified", "proposal", "lost"}
      [] status = "qualified" -> {"proposal", "won", "lost"}
      [] status = "proposal" -> {"won", "lost"}
      [] status = "won" -> {}
      [] status = "lost" -> {"new"}
      [] OTHER -> {}

\* change_status: the dates follow the status.
ChangeStatus(s) ==
    \E l \in Leads : \E to \in AllowedTransitions(lead[l].status) :
        Change(s, "move", l,
               [lead[l] EXCEPT
                    !.status = to,
                    !.qualified = @ \/ to = "qualified",
                    !.closed = IF to \in Terminal THEN TRUE
                               ELSE IF lead[l].status \in Terminal THEN FALSE
                               ELSE @])

Assign(s) ==
    \E l \in Leads : Change(s, "other", l, [lead[l] EXCEPT !.assigned = ~@])

ClampScore(score) == IF score < 0 THEN 0
                     ELSE IF score > MaxScore THEN MaxScore ELSE score

SetScore(s) ==
    \E l \in Leads, score \in -1..(MaxScore + 1) :
        Change(s, "other", l, [lead[l] EXCEPT !.score = ClampScore(score)])

-----------------------------------------------------------------------------
(* The agent: capture_from_conversation                                    *)

\* Mutant: whatever the model proposes is applied.
Proposed(row, fields) == fields

\* A field that was verified when the row was read is left alone.
Unprotected(row, fields) == fields \ row.verified

\* The open lead of the conversation's contact, or a new one.  A conversation
\* a person has is refused.
CaptureFromConversation(t) ==
    \E l \in Leads, fields \in SUBSET Fields \ {{}} :
        /\ ~colleague
        /\ \/ /\ lead[l].status \in Open
              /\ Change(t, "edit", l,
                        Written(lead[l], Unprotected(lead[l], fields), "agent"))
           \/ /\ lead[l].status = "absent"
              /\ SlotFree
              /\ Opening = {}
              /\ Begin(t, "create", l, NoRow,
                       [Written(NoRow, fields, "agent") EXCEPT !.status = "new"])

\* A colleague takes the conversation, or gives it back.
HandOver ==
    /\ operations < MaxOperations
    /\ operations' = operations + 1
    /\ colleague' = ~colleague
    /\ UNCHANGED <<lead, editing, logged, vouched, contested>>

-----------------------------------------------------------------------------
(* Commit                                                                  *)

\* Mutant: the row is written as it was changed.
RowWritten(read, new, now) == new

\* SQLAlchemy writes a column only if it differs from what the session read.
Stored(read, new, now) ==
    [column \in DOMAIN now |->
        IF column = "by"
        THEN [f \in Fields |-> IF new.by[f] = read.by[f] THEN now.by[f]
                               ELSE new.by[f]]
        ELSE IF new[column] = read[column] THEN now[column] ELSE new[column]]

\* A lead that is reopened waits for one that is being created, and beside an
\* open one violates the index: all is lost.
Commit(a) ==
    LET e == editing[a]
        row == Stored(e.read, e.new, lead[e.on])
        refused == /\ row.status \in Open
                   /\ \E l \in Leads \ {e.on} : lead[l].status \in Open
    IN
    /\ e # Nothing
    /\ e.read.status \in Terminal => Opening = {}
    /\ editing' = [editing EXCEPT ![a] = Nothing]
    /\ IF refused THEN UNCHANGED <<lead, logged, vouched>>
       ELSE /\ lead' = [lead EXCEPT ![e.on] = row]
            /\ logged' = IF e.kind \in {"create", "move"}
                         THEN [logged EXCEPT ![e.on] = e.new.status] ELSE logged
            /\ vouched' = IF a \in Staff
                          THEN [vouched EXCEPT ![e.on] =
                                    @ \cup (e.new.verified \ e.read.verified)]
                          ELSE vouched
    /\ UNCHANGED <<colleague, contested, operations>>

\* A request or a turn that fails leaves nothing.
Rollback(a) ==
    /\ editing[a] # Nothing
    /\ editing' = [editing EXCEPT ![a] = Nothing]
    /\ UNCHANGED <<lead, colleague, logged, vouched, contested, operations>>

-----------------------------------------------------------------------------

LeadsNext ==
    \/ \E s \in Staff : \/ CreateLead(s) \/ UpdateLead(s) \/ ChangeStatus(s)
                        \/ Assign(s) \/ SetScore(s)
    \/ \E t \in Turns : CaptureFromConversation(t)
    \/ HandOver
    \/ \E a \in Staff \cup Turns : Commit(a) \/ Rollback(a)

LeadsSpec == LeadsInit /\ [][LeadsNext]_leadsVars

-----------------------------------------------------------------------------
(* Properties                                                              *)

\* Every variable has its type.
LeadsTypeOK ==
    /\ lead \in [Leads -> Lead]
    /\ colleague \in BOOLEAN
    /\ editing \in [Staff \cup Turns ->
            [kind : {"none", "create", "edit", "move", "other"},
             on : Leads \cup {NoLead}, read : Lead, new : Lead]]
    /\ logged \in [Leads -> {"absent"} \cup Open \cup Terminal]
    /\ vouched \in [Leads -> SUBSET Fields]
    /\ contested \subseteq Leads
    /\ operations \in 0..MaxOperations

\* However operations cross, the timeline's last word on the status is the
\* status: no operation on something else undoes a move it did not see.
TimelineExplains == \A l \in Leads : lead[l].status = logged[l]

\* A row no two transactions had in hand at once: what people vouched for is
\* marked, and with it safe from the agent; a lead has a closing date just when
\* it is closed.
OrderlyRows ==
    \A l \in Leads \ contested :
        /\ lead[l].verified = vouched[l]
        /\ lead[l].closed <=> lead[l].status \in Terminal

\* A lead's timeline explains its status; its dates and its verified marks are
\* what people made them, on rows nobody else had in hand.
LeadsHold == TimelineExplains /\ OrderlyRows

\* A row no two transactions had in hand at once keeps, of a verified field, what
\* a person left there.
VerifiedIsKept ==
    [][\A l \in Leads \ contested', f \in Fields :
          f \in lead[l].verified /\ lead'[l].by[f] # lead[l].by[f]
            => lead'[l].by[f] = "person"]_leadsVars

\* Violated: "The core rule: a human's entry wins over a model's inference."
\* (lead_service.py).  The agent's turn has read the row before the person's
\* commit, and commits after it.
HumanEntryWins ==
    [][\A l \in Leads, f \in Fields :
          f \in lead[l].verified /\ lead'[l].by[f] # lead[l].by[f]
            => lead'[l].by[f] = "person"]_leadsVars

=============================================================================
