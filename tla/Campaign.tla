------------------------------ MODULE Campaign ------------------------------
(***************************************************************************)
(* Campaigns: composing, scheduling, and the worker that sends them.       *)
(*                                                                         *)
(* Source: app/services/campaign_service.py, app/workers/campaign_worker.py,*)
(* app/repositories/campaign_repository.py, app/db/models/campaign.py.     *)
(*                                                                         *)
(* A sweep of a worker replica is ONE database transaction: it locks the   *)
(* due campaign rows (FOR UPDATE SKIP LOCKED), sends a batch for each of   *)
(* them, and commits at the very end.  Until then its writes live in the   *)
(* images wcamp and wrcpt, and a crash discards them, although the         *)
(* messages WhatsApp accepted meanwhile stay accepted.  An API request     *)
(* reads a row without a lock and writes it when the request ends; its     *)
(* UPDATE waits for a sweep that holds the row and then changes only the   *)
(* columns whose value differs from the one it had read.                   *)
(*                                                                         *)
(* Time is relative: due and next count the slots left until scheduled_at  *)
(* and next_send_at.  One slot is 1/messages_per_minute of a minute, the   *)
(* time the rate limit books for one message.                              *)
(***************************************************************************)
EXTENDS Integers, FiniteSets

CONSTANTS
    Campaigns,    \* campaign ids
    Contacts,     \* contact ids; all of them have a conversation on the number
    Workers,      \* replicas of the campaign worker
    Requests,     \* API requests that may be in progress at once
    None,         \* no worker, no campaign, no contact
    BatchLimit,   \* the allowance: max(1, min(batch_limit, messages_per_minute))
    ClaimLimit,   \* DEFAULT_CAMPAIGN_CLAIM_LIMIT
    MaxAttempts,  \* MAX_RECIPIENT_ATTEMPTS
    MaxDelay,     \* bound: slots a campaign may be scheduled ahead
    Faults        \* which failures may occur, see FaultKinds

\* "crash": the process dies, or the session fails and the sweep rolls back.
\* "ambiguous": WhatsApp accepts a message whose answer never arrives (a read
\* timeout or a 5xx).  "exception": an unforeseen error inside one batch.
FaultKinds == {"crash", "ambiguous", "exception"}

ASSUME CampaignAssumption ==
    /\ IsFiniteSet(Contacts) /\ IsFiniteSet(Workers)
    /\ BatchLimit \in Nat \ {0}
    /\ ClaimLimit \in Nat \ {0}
    /\ MaxAttempts \in Nat \ {0}
    /\ MaxDelay \in Nat
    /\ Faults \subseteq FaultKinds
    /\ None \notin Campaigns \cup Contacts \cup Workers

VARIABLES
    camp,      \* committed campaign rows
    rcpt,      \* committed recipient rows, per campaign and contact
    optOut,    \* contacts with marketing_opt_out_at set
    sendable,  \* the number is active and the template approved
    holder,    \* the worker whose sweep holds the lock of a campaign row
    wcamp,     \* uncommitted image of a held campaign row
    wrcpt,     \* uncommitted image of a held campaign's recipient rows
    sweep,     \* where each worker is in its sweep
    req,       \* what each API request has read and is about to write
    accepted,  \* history: messages WhatsApp accepted, per campaign and contact
    pace,      \* history: slots booked by accepted messages and not yet elapsed
    late       \* history: messages a contact got since opting out

rows == <<camp, rcpt>>
images == <<holder, wcamp, wrcpt>>
world == <<optOut, sendable>>
history == <<accepted, pace, late>>
vars == <<camp, rcpt, optOut, sendable, holder, wcamp, wrcpt, sweep, req,
          accepted, pace, late>>

-----------------------------------------------------------------------------
(* Rows *)

Unset == -1                             \* a NULL next_send_at

CampaignStatus == {"absent", "draft", "scheduled", "running", "paused",
                   "completed", "cancelled", "failed"}
TerminalStatus == {"completed", "cancelled", "failed"}
\* Mutant: a cancelled campaign may be scheduled again.
SchedulableOnceCancelled == {"draft", "paused", "failed", "cancelled"}
SchedulableFrom == {"draft", "paused", "failed"}
AlreadyOver == {"completed", "cancelled"}
Sending == {"scheduled", "running"}

RecipientStatus == {"absent", "pending", "sent", "failed", "skipped"}

CampaignRow == [status : CampaignStatus, due : 0..MaxDelay,
                next : {Unset} \cup 0..BatchLimit]
RecipientRow == [status : RecipientStatus, attempts : 0..MaxAttempts]

NoCampaign == [status |-> "absent", due |-> 0, next |-> Unset]
NoRecipient == [status |-> "absent", attempts |-> 0]
NoRecipients == [p \in Contacts |-> NoRecipient]

Least(a, b) == IF a <= b THEN a ELSE b
LateCap == Cardinality(Workers) + 1     \* where late stops counting
Elapse(n) == IF n > 0 THEN n - 1 ELSE n

\* Mutant: a recipient whose attempts ran out is claimed again.
PendingOrFailedIn(list) == {p \in Contacts : list[p].status \in {"pending", "failed"}}
PendingIn(list) == {p \in Contacts : list[p].status = "pending"}

\* Mutants: the claim takes a paused campaign; it forgets the running ones.
IsDueOrPaused(row) ==
    \/ row.status = "scheduled" /\ row.due = 0
    \/ row.status \in {"running", "paused"} /\ row.next \in {Unset, 0}
IsDueOnlyScheduled(row) == row.status = "scheduled" /\ row.due = 0

(* What a sweep's claim finds: DueCampaignClaim.claim_due *)
IsDue(row) ==
    \/ row.status = "scheduled" /\ row.due = 0
    \/ row.status = "running" /\ row.next \in {Unset, 0}

\* Mutant: the claim does not lock.
DueIgnoringLocks == {c \in Campaigns : IsDue(camp[c])}
DueUnlocked == {c \in Campaigns : holder[c] = None /\ IsDue(camp[c])}

(* A worker's sweep *)
Stage == {"idle", "choose", "deliver", "send"}
Idle == [stage |-> "idle", todo |-> {}, cur |-> None, batch |-> {},
         size |-> 0, target |-> None, age |-> 0]

(* What a request carries between its read and its write *)
NoRequest == [op |-> "none", cmp |-> None, hadNext |-> FALSE, adds |-> {}]

Init ==
    /\ camp = [c \in Campaigns |-> NoCampaign]
    /\ rcpt = [c \in Campaigns |-> NoRecipients]
    /\ optOut = {}
    /\ sendable = TRUE
    /\ holder = [c \in Campaigns |-> None]
    /\ wcamp = [c \in Campaigns |-> NoCampaign]
    /\ wrcpt = [c \in Campaigns |-> NoRecipients]
    /\ sweep = [w \in Workers |-> Idle]
    /\ req = [r \in Requests |-> NoRequest]
    /\ accepted = [c \in Campaigns |-> [p \in Contacts |-> 0]]
    /\ pace = [c \in Campaigns |-> 0]
    /\ late = [p \in Contacts |-> 0]

-----------------------------------------------------------------------------
(* The API: each request reads, then writes                                *)

\* create: one INSERT of a draft; refused on a disabled number or a template
\* WhatsApp has not approved.
Create(c) ==
    /\ camp[c].status = "absent"
    /\ sendable
    /\ camp' = [camp EXCEPT ![c].status = "draft"]
    /\ UNCHANGED <<rcpt, world, images, sweep, req, history>>

Remember(r, operation, c, adds) ==
    /\ req[r] = NoRequest
    /\ req' = [req EXCEPT ![r] = [op |-> operation, cmp |-> c, adds |-> adds,
                                  hadNext |-> camp[c].next # Unset]]
    /\ UNCHANGED <<rows, world, images, sweep, history>>

\* set_audience: a draft's filter selects among the contacts that have not
\* opted out, and those not yet on the list are added.
ReadAudience(r, c) ==
    /\ camp[c].status = "draft"
    /\ \E chosen \in SUBSET (Contacts \ optOut) :
         Remember(r, "audience", c,
                  {p \in chosen : rcpt[c][p].status = "absent"})

\* schedule: somebody is left to send to, and the plan allows it (a refused
\* request writes nothing and is not a step).
ReadSchedule(r, c) ==
    /\ camp[c].status \in SchedulableFrom
    /\ PendingIn(rcpt[c]) # {}
    /\ Remember(r, "schedule", c, {})

\* pause: not finished and not a draft; pausing a paused campaign writes nothing.
ReadPause(r, c) ==
    /\ camp[c].status \notin TerminalStatus \cup {"absent", "draft", "paused"}
    /\ Remember(r, "pause", c, {})

\* cancel: a no-op on a campaign that is already over.
ReadCancel(r, c) ==
    /\ camp[c].status \notin AlreadyOver \cup {"absent"}
    /\ Remember(r, "cancel", c, {})

\* The write of request r; it waits for the row lock of the campaign.
Finish(r, operation) ==
    /\ req[r].op = operation
    /\ holder[req[r].cmp] = None
    /\ req' = [req EXCEPT ![r] = NoRequest]
    /\ UNCHANGED <<world, images, sweep>>

\* The recipient rows are inserted; a row another request inserted meanwhile
\* violates the unique constraint and rolls this request back.
WriteAudience(r) ==
    LET c == req[r].cmp
        new == req[r].adds
    IN  /\ Finish(r, "audience")
        /\ rcpt' = IF \A p \in new : rcpt[c][p].status = "absent"
                   THEN [rcpt EXCEPT ![c] = [p \in Contacts |->
                          IF p \in new THEN [status |-> "pending", attempts |-> 0]
                                       ELSE rcpt[c][p]]]
                   ELSE rcpt
        /\ UNCHANGED <<camp, history>>

\* next_send_at is written only when the row as read had one.  Whoever schedules
\* again lifts the rate limit, so the pace is counted anew from here.
WriteSchedule(r) ==
    LET c == req[r].cmp
    IN  /\ Finish(r, "schedule")
        /\ \E delay \in 0..MaxDelay :
             camp' = [camp EXCEPT ![c] =
                        [status |-> "scheduled", due |-> delay,
                         next |-> IF req[r].hadNext THEN Unset ELSE camp[c].next]]
        /\ pace' = [pace EXCEPT ![c] = 0]
        /\ UNCHANGED <<rcpt, accepted, late>>

WritePause(r) ==
    /\ Finish(r, "pause")
    /\ camp' = [camp EXCEPT ![req[r].cmp].status = "paused"]
    /\ UNCHANGED <<rcpt, history>>

WriteCancel(r) ==
    /\ Finish(r, "cancel")
    /\ camp' = [camp EXCEPT ![req[r].cmp].status = "cancelled"]
    /\ UNCHANGED <<rcpt, history>>

Api ==
    \/ \E c \in Campaigns : Create(c)
    \/ \E r \in Requests, c \in Campaigns :
         \/ ReadAudience(r, c)
         \/ ReadSchedule(r, c)
         \/ ReadPause(r, c)
         \/ ReadCancel(r, c)
    \/ \E r \in Requests :
         \/ WriteAudience(r)
         \/ WriteSchedule(r)
         \/ WritePause(r)
         \/ WriteCancel(r)

-----------------------------------------------------------------------------
(* The contacts, the number and the clock                                  *)

SetOptOut(p) ==
    /\ p \notin optOut
    /\ optOut' = optOut \cup {p}
    /\ UNCHANGED <<rows, sendable, images, sweep, req, history>>

ClearOptOut(p) ==
    /\ p \in optOut
    /\ optOut' = optOut \ {p}
    /\ late' = [late EXCEPT ![p] = 0]
    /\ UNCHANGED <<rows, sendable, images, sweep, req, accepted, pace>>

\* The number is disabled or enabled, the template paused or approved again.
ChangeSendable ==
    /\ sendable' = ~sendable
    /\ UNCHANGED <<rows, optOut, images, sweep, req, history>>

Older(row) == [row EXCEPT !.due = Elapse(row.due), !.next = Elapse(row.next)]

\* One slot passes.  age is how long ago a sweep took its moment.
Tick ==
    /\ camp' = [c \in Campaigns |-> Older(camp[c])]
    /\ wcamp' = [c \in Campaigns |-> Older(wcamp[c])]
    /\ pace' = [c \in Campaigns |-> Elapse(pace[c])]
    /\ sweep' = [w \in Workers |->
                   IF sweep[w].stage = "idle" THEN sweep[w]
                   ELSE [sweep[w] EXCEPT !.age = Least(BatchLimit, sweep[w].age + 1)]]
    /\ UNCHANGED <<rcpt, world, holder, wrcpt, req, accepted, late>>

Environment ==
    \/ \E p \in Contacts : SetOptOut(p) \/ ClearOptOut(p)
    \/ ChangeSendable
    \/ Tick

-----------------------------------------------------------------------------
(* The worker: CampaignWorker.run_once                                     *)

\* claim_due: as many due, unlocked rows as the limit allows.
Claim(w) ==
    /\ sweep[w].stage = "idle"
    /\ \E due \in SUBSET DueUnlocked :
         /\ due # {}
         /\ Cardinality(due) = Least(ClaimLimit, Cardinality(DueUnlocked))
         /\ holder' = [c \in Campaigns |-> IF c \in due THEN w ELSE holder[c]]
         /\ wcamp' = [c \in Campaigns |-> IF c \in due THEN camp[c] ELSE wcamp[c]]
         /\ wrcpt' = [c \in Campaigns |-> IF c \in due THEN rcpt[c] ELSE wrcpt[c]]
         /\ sweep' = [sweep EXCEPT ![w] = [Idle EXCEPT !.stage = "choose", !.todo = due]]
    /\ UNCHANGED <<rows, world, req, history>>

\* The campaign is left for the next one of the sweep.
NextCampaign(w, c) ==
    sweep' = [sweep EXCEPT ![w] = [Idle EXCEPT !.stage = "choose",
                                   !.todo = sweep[w].todo \ {c}, !.age = sweep[w].age]]

Chosen(w, c) == sweep[w].stage = "choose" /\ c \in sweep[w].todo

\* dispatch_batch: the number or the template refuses; the campaign fails.
BlockedBatch(w, c) ==
    /\ Chosen(w, c)
    /\ ~sendable
    /\ wcamp' = [wcamp EXCEPT ![c].status = "failed", ![c].next = Unset]
    /\ NextCampaign(w, c)
    /\ UNCHANGED <<rows, world, holder, wrcpt, req, history>>

\* Mutant: the campaign completes without asking whether anybody is left.
EmptyBatchUnchecked(w, c) ==
    /\ Chosen(w, c)
    /\ sendable
    /\ wcamp' = [wcamp EXCEPT ![c].status = "completed", ![c].next = Unset]
    /\ NextCampaign(w, c)
    /\ UNCHANGED <<rows, world, holder, wrcpt, req, history>>

\* dispatch_batch: nobody is pending; the campaign completes.
EmptyBatch(w, c) ==
    /\ Chosen(w, c)
    /\ sendable
    /\ PendingIn(wrcpt[c]) = {}
    /\ wcamp' = [wcamp EXCEPT ![c].status = "completed", ![c].next = Unset]
    /\ NextCampaign(w, c)
    /\ UNCHANGED <<rows, world, holder, wrcpt, req, history>>

\* dispatch_batch: the campaign runs, and a batch of pending rows is claimed.
StartBatch(w, c) ==
    /\ Chosen(w, c)
    /\ sendable
    /\ wcamp' = [wcamp EXCEPT ![c].status = "running"]
    /\ \E batch \in SUBSET PendingIn(wrcpt[c]) :
         /\ batch # {}
         /\ Cardinality(batch) = Least(BatchLimit, Cardinality(PendingIn(wrcpt[c])))
         /\ sweep' = [sweep EXCEPT ![w].stage = "deliver", ![w].cur = c,
                                   ![w].batch = batch,
                                   ![w].size = Cardinality(batch)]
    /\ UNCHANGED <<rows, world, holder, wrcpt, req, history>>

\* _deliver: the contact has opted out since the audience was built.
SkipOptedOut(w, p) ==
    /\ sweep[w].stage = "deliver"
    /\ p \in sweep[w].batch \cap optOut
    /\ wrcpt' = [wrcpt EXCEPT ![sweep[w].cur][p].status = "skipped"]
    /\ sweep' = [sweep EXCEPT ![w].batch = sweep[w].batch \ {p}]
    /\ UNCHANGED <<rows, world, holder, wcamp, req, history>>

\* Mutant: the opt-out is not asked again before sending.
AddressAnyone(w, p) ==
    /\ sweep[w].stage = "deliver"
    /\ p \in sweep[w].batch
    /\ sweep' = [sweep EXCEPT ![w].stage = "send", ![w].target = p]
    /\ UNCHANGED <<rows, world, images, req, history>>

\* _deliver: the contact accepts campaigns; the template is sent to it next.
Address(w, p) ==
    /\ sweep[w].stage = "deliver"
    /\ p \in sweep[w].batch \ optOut
    /\ sweep' = [sweep EXCEPT ![w].stage = "send", ![w].target = p]
    /\ UNCHANGED <<rows, world, images, req, history>>

NextRecipient(w) ==
    sweep' = [sweep EXCEPT ![w].stage = "deliver", ![w].target = None,
                           ![w].batch = sweep[w].batch \ {sweep[w].target}]

\* WhatsApp takes the message: counted, paced, and counted as late after an
\* opt-out.  The counters stop at a value every property already tells apart.
WhatsAppAccepts(c, p) ==
    /\ accepted' = [accepted EXCEPT ![c][p] = Least(2, accepted[c][p] + 1)]
    /\ pace' = [pace EXCEPT ![c] = Least(2 * BatchLimit + 1, pace[c] + 1)]
    /\ late' = IF p \in optOut
               THEN [late EXCEPT ![p] = Least(LateCap, late[p] + 1)]
               ELSE late

\* Mutant: one attempt too many before the row fails.
FailRecipientLate(row) ==
    [status |-> IF row.attempts + 1 > MaxAttempts THEN "failed" ELSE row.status,
     attempts |-> row.attempts + 1]

\* _fail_recipient: one attempt more; the row fails when they run out.
FailRecipient(row) ==
    [status |-> IF row.attempts + 1 >= MaxAttempts THEN "failed" ELSE row.status,
     attempts |-> Least(MaxAttempts, row.attempts + 1)]

\* _deliver: accepted, the row is sent.
Sent(w) ==
    LET c == sweep[w].cur
        p == sweep[w].target
    IN  /\ sweep[w].stage = "send"
        /\ WhatsAppAccepts(c, p)
        /\ wrcpt' = [wrcpt EXCEPT ![c][p].status = "sent"]
        /\ NextRecipient(w)
        /\ UNCHANGED <<rows, world, holder, wcamp, req>>

\* Mutant: the failed state of the returned message is not looked at.
RefusedMarkedSent(w) ==
    LET c == sweep[w].cur
        p == sweep[w].target
    IN  /\ sweep[w].stage = "send"
        /\ wrcpt' = [wrcpt EXCEPT ![c][p].status = "sent"]
        /\ NextRecipient(w)
        /\ UNCHANGED <<rows, world, holder, wcamp, req, history>>

\* _deliver: rejected by WhatsApp or by the messaging service.
Refused(w) ==
    LET c == sweep[w].cur
        p == sweep[w].target
    IN  /\ sweep[w].stage = "send"
        /\ wrcpt' = [wrcpt EXCEPT ![c][p] = FailRecipient(wrcpt[c][p])]
        /\ NextRecipient(w)
        /\ UNCHANGED <<rows, world, holder, wcamp, req, history>>

\* WhatsApp took the message and the answer was lost: recorded as rejected.
Unanswered(w) ==
    LET c == sweep[w].cur
        p == sweep[w].target
    IN  /\ "ambiguous" \in Faults
        /\ sweep[w].stage = "send"
        /\ WhatsAppAccepts(c, p)
        /\ wrcpt' = [wrcpt EXCEPT ![c][p] = FailRecipient(wrcpt[c][p])]
        /\ NextRecipient(w)
        /\ UNCHANGED <<rows, world, holder, wcamp, req>>

\* No access token (DependencyUnavailableError): the campaign fails, the rest
\* of the batch stays pending.
NoCredential(w) ==
    LET c == sweep[w].cur
    IN  /\ sweep[w].stage = "send"
        /\ wcamp' = [wcamp EXCEPT ![c].status = "failed", ![c].next = Unset]
        /\ NextCampaign(w, c)
        /\ UNCHANGED <<rows, world, holder, wrcpt, req, history>>

\* run_once contains any other exception to the one campaign.
BatchRaises(w) ==
    /\ "exception" \in Faults
    /\ sweep[w].stage = "send"
    /\ NextCampaign(w, sweep[w].cur)
    /\ UNCHANGED <<rows, world, images, req, history>>

\* Mutant: next_send_at is not advanced.
EndBatchUnpaced(w) ==
    /\ sweep[w].stage = "deliver"
    /\ sweep[w].batch = {}
    /\ NextCampaign(w, sweep[w].cur)
    /\ UNCHANGED <<rows, world, images, req, history>>

\* The batch is done: next_send_at is the sweep's moment plus one slot per
\* claimed recipient.  Whether anybody is left is asked of the database, and the
\* session does not flush before it asks (autoflush=False): the recipient that
\* was handled last still counts as pending, so the batch never completes the
\* campaign, and a later sweep that finds nobody does (EmptyBatch).
EndBatch(w) ==
    LET c == sweep[w].cur
        wait == sweep[w].size - sweep[w].age
    IN  /\ sweep[w].stage = "deliver"
        /\ sweep[w].batch = {}
        /\ wcamp' = [wcamp EXCEPT ![c].next = IF wait > 0 THEN wait ELSE 0]
        /\ NextCampaign(w, c)
        /\ UNCHANGED <<rows, world, holder, wrcpt, req, history>>

Release(w) ==
    /\ holder' = [c \in Campaigns |-> IF holder[c] = w THEN None ELSE holder[c]]
    /\ wcamp' = [c \in Campaigns |-> IF holder[c] = w THEN NoCampaign ELSE wcamp[c]]
    /\ wrcpt' = [c \in Campaigns |-> IF holder[c] = w THEN NoRecipients ELSE wrcpt[c]]
    /\ sweep' = [sweep EXCEPT ![w] = Idle]
    /\ UNCHANGED <<world, req, history>>

Commit(w) ==
    /\ sweep[w].stage = "choose"
    /\ sweep[w].todo = {}
    /\ camp' = [c \in Campaigns |-> IF holder[c] = w THEN wcamp[c] ELSE camp[c]]
    /\ rcpt' = [c \in Campaigns |-> IF holder[c] = w THEN wrcpt[c] ELSE rcpt[c]]
    /\ Release(w)

\* The process dies or the transaction aborts; PostgreSQL rolls back.
Crash(w) ==
    /\ "crash" \in Faults
    /\ sweep[w].stage # "idle"
    /\ Release(w)
    /\ UNCHANGED rows

SweepStep(w) ==
    \/ Claim(w)
    \/ \E c \in Campaigns :
         \/ BlockedBatch(w, c)
         \/ EmptyBatch(w, c)
         \/ StartBatch(w, c)
    \/ \E p \in Contacts :
         \/ SkipOptedOut(w, p)
         \/ Address(w, p)
    \/ Sent(w)
    \/ Refused(w)
    \/ NoCredential(w)
    \/ EndBatch(w)
    \/ Commit(w)

Failure(w) == Unanswered(w) \/ BatchRaises(w) \/ Crash(w)

Next ==
    \/ Api
    \/ Environment
    \/ \E w \in Workers : SweepStep(w) \/ Failure(w)

Spec == Init /\ [][Next]_vars

\* A worker polls for ever and its loop survives a failed sweep; the clock
\* advances.  Nobody is obliged to make a request.
FairSpec == Spec /\ WF_vars(Tick) /\ \A w \in Workers : WF_vars(SweepStep(w))

-----------------------------------------------------------------------------
(* Properties *)

SweepState ==
    [stage : Stage, todo : SUBSET Campaigns, cur : Campaigns \cup {None},
     batch : SUBSET Contacts, size : 0..BatchLimit,
     target : Contacts \cup {None}, age : 0..BatchLimit]

RequestState ==
    [op : {"none", "audience", "schedule", "pause", "cancel"},
     cmp : Campaigns \cup {None}, hadNext : BOOLEAN, adds : SUBSET Contacts]

\* Every variable has the type its comment says.
TypeOK ==
    /\ camp \in [Campaigns -> CampaignRow]
    /\ rcpt \in [Campaigns -> [Contacts -> RecipientRow]]
    /\ optOut \subseteq Contacts
    /\ sendable \in BOOLEAN
    /\ holder \in [Campaigns -> Workers \cup {None}]
    /\ wcamp \in [Campaigns -> CampaignRow]
    /\ wrcpt \in [Campaigns -> [Contacts -> RecipientRow]]
    /\ sweep \in [Workers -> SweepState]
    /\ req \in [Requests -> RequestState]
    /\ accepted \in [Campaigns -> [Contacts -> 0..2]]
    /\ pace \in [Campaigns -> 0..(2 * BatchLimit + 1)]
    /\ late \in [Contacts -> 0..LateCap]

\* The recipient rows as the sweep that holds the campaign sees them.
Current(c) == IF holder[c] = None THEN rcpt[c] ELSE wrcpt[c]

\* No person gets one campaign's message twice, whatever replicas and requests
\* interleave (claim_due, claim_pending and the SENT mark in _deliver).
AtMostOnce == \A c \in Campaigns, p \in Contacts : accepted[c][p] <= 1

\* A row says "sent" exactly when WhatsApp accepted that person's message, so a
\* restart can trust the rows and nothing else.
LedgerExact ==
    \A c \in Campaigns, p \in Contacts :
        Current(c)[p].status = "sent" <=> accepted[c][p] > 0

\* Even when processes die and answers are lost, "sent" is never a guess: the
\* message was accepted.
SentWasAccepted ==
    \A c \in Campaigns, p \in Contacts :
        Current(c)[p].status = "sent" => accepted[c][p] > 0

\* Once a pause, a cancellation or a failure is committed, not one more message
\* of the campaign leaves: the requests wait for the lock of the sweep that is
\* sending, and the next sweep does not claim the row.
NothingSentOnceStopped ==
    [][\A c \in Campaigns :
          accepted'[c] # accepted[c] => camp[c].status \in Sending]_vars

\* A completed campaign owes nobody a message.
CompletedMeansDone ==
    \A c \in Campaigns :
        camp[c].status = "completed" => PendingIn(rcpt[c]) = {}

\* A campaign runs only while somebody is left: the batch that reaches the last
\* person completes it (dispatch_batch as its tests describe it).
RunningMeansOwing ==
    \A c \in Campaigns :
        camp[c].status = "running" => PendingIn(rcpt[c]) # {}

\* Cancelling is final: neither a sweep in progress nor a later request brings
\* a cancelled campaign back.
CancelledIsFinal ==
    [][\A c \in Campaigns :
          camp[c].status = "cancelled" => camp'[c].status = "cancelled"]_vars

\* The rate limit as a bucket: accepted messages book a slot each.  A sweep
\* counts its wait from the moment it began, so a slow sweep may put two
\* allowances next to each other, and never three.
NoBurst == \A c \in Campaigns : pace[c] <= 2 * BatchLimit

\* After somebody says stop, each worker can be past the check with at most one
\* message to them, whatever number of campaigns it is sweeping.
StopIsHeard ==
    \A p \in Contacts : late[p] <= Cardinality(Workers)

Delivery == INSTANCE Broadcast WITH
    waiting <- [c \in Campaigns |-> PendingIn(Current(c))],
    reached <- [c \in Campaigns |-> {p \in Contacts : accepted[c][p] > 0}],
    dropped <- [c \in Campaigns |->
                  {p \in Contacts : Current(c)[p].status \in {"failed", "skipped"}}]

\* The rows, locks and images together do what a broadcast promises: everybody
\* on the list is reached once or dropped once, and nobody is both.
ImplementsBroadcast == Delivery!Spec

\* A scheduled campaign does not stay scheduled or running for ever: it
\* completes, fails, or is stopped by a person.
CampaignEnds ==
    \A c \in Campaigns :
        camp[c].status = "scheduled" ~> camp[c].status \notin Sending
=============================================================================
