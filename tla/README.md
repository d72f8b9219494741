# wasla in TLA+

A verification development of the back end of wasla (`src/app`): a multi-tenant service that answers a
business's WhatsApp conversations with AI agents, hands them to people, follows up, and sends marketing
campaigns. An API process and six kinds of worker share PostgreSQL and Redis, and every worker may run as
several replicas. What is hard is not any one function but what these processes do to the same rows at the same
time, and what is left when one dies between a side effect and its commit.

Paths below are relative to `src/`.

## 1. The system

### Components

| Component | State it keeps | Correct when | Module |
|---|---|---|---|
| Campaigns (`app/services/campaign_service.py`, `app/workers/campaign_worker.py`) | campaign and recipient rows | nobody is written to twice; stopping stops; the rate limit holds; a completed campaign owes nobody; opt-outs are heard | `Campaign` |
| Inbound ingestion (`app/services/whatsapp_service.py`, `app/api/v1/webhooks.py`) | recorded events, conversations, messages, media rows | an event counts once; every message gets the attention of a turn | `Turns`, `FollowUps`, `Delivery` |
| Redis queues (`app/workers/queue.py`, `media_queue.py`, `ingestion_queue.py`) | pending, in-flight and failed lists | no job vanishes | `Turns`, `Knowledge` |
| AI worker and agents (`app/workers/ai_worker.py`, `app/agents/`, `app/services/agent_service.py`) | agents, tool grants; a turn's staged changes | one answer per occasion; silent once a person took over; what is said is sent | `Turns`, `Rounds`, `Agents` |
| Sentiment (`app/services/sentiment_service.py`) | one reading per message, the priority | a message is judged once | `Turns` |
| Media (`app/workers/media_worker.py`, `app/services/media_service.py`) | one row per file | several files of one delivery get one answer; none stays unread for ever | `Turns` |
| Conversations and messaging (`conversation_service.py`, `messaging_service.py`, `inbox_service.py`) | mode, status, priority, outbound messages | a message is never sent twice; statuses move forward | `Turns`, `Delivery`, `FollowUps` |
| Follow-ups (`app/services/follow_up_service.py`, `app/workers/follow_up_worker.py`) | at most one pending nudge per conversation | one nudge; none after the customer replied; each is settled | `FollowUps` |
| Subscriptions and invoices (`subscription_service.py`, `invoice_service.py`, `billing_worker.py`) | period and status, invoices, payments | every day is billed once; the books balance; nothing ends unasked | `Billing` |
| Entitlements and usage (`entitlement_service.py`, `usage_service.py`) | usage events | a plan is exceeded by no more than was under way | `Allowances`, `Slots`, `Entitlements` |
| Authentication (`auth_service.py`, `token_store.py`) | denylist of spent refresh tokens | a spent token buys nothing | `Sessions` |
| Invitations and memberships (`invitation_service.py`) | invitations, accounts, memberships | who is in was let in, with that role | `Invitations` |
| Knowledge (`knowledge_service.py`, `ingestion_worker.py`) | documents, their passages, jobs | a ready document is whole; a waiting one has its job | `Knowledge` |
| Leads (`lead_service.py`) | a lead's fields, status and timeline | the timeline explains the status; a verified value is a person's | `Leads` |
| Templates, WhatsApp accounts (`template_service.py`, `whatsapp_account_service.py`) | registry of templates, numbers | nothing is sent with what Meta withdrew | `Templates`, `Delivery` |
| WhatsApp client (`app/integrations/whatsapp/`) | none | no retry sends twice | `Delivery`, `Templates` |
| Rate limiting (`app/core/rate_limit.py`) | a Redis counter per window | the window is bounded, and ends | `RateLimit` |
| Runner, heartbeat (`app/workers/runner.py`, `heartbeat.py`) | heartbeat keys | what lives is not reported dead; what is stopped stops | `Runner` |
| OpenAI client, database session, analytics, audit, metrics, platform administration, API wiring, configuration, deployment | see section 7 | | — |

### How they interact

* **PostgreSQL.** A request is one transaction; so is an agent turn, the reading of one file, and *a whole sweep* of
  the campaign, follow-up and billing workers. Requests read rows without a lock. An `UPDATE` waits for the
  transaction that holds the row and then writes the columns that differ from what was *read*, whatever is
  there now: nearly every module has an operator of that kind (`Written`, `Stored`, `ColumnsWritten`). Campaign and
  follow-up sweeps claim with `FOR UPDATE SKIP LOCKED`; the media gate locks the conversation with `FOR UPDATE`; billing
  claims without a lock and relies on unique constraints.
* **Redis** knows nothing of those transactions: a job is visible the moment it is enqueued, before the rows it
  names are committed, and it stays in the in-flight list when its worker dies. Nothing reclaims it by itself;
  `docs/RUNBOOK.md` tells an operator how.
* **WhatsApp.** A send is a side effect no rollback undoes. Deliveries repeat and their order is arbitrary.
* **People** take conversations over, set priorities, pause and cancel campaigns while workers are in the middle
  of something.

### Hazards

`PROJECT.json` lists them at the line where each bites, with the properties that would notice. They are mostly of
five kinds: a row read without a lock and written later (campaign requests, priorities, invoices, nudges,
leads, invitations, promotions of agents); an effect before its commit (campaign and follow-up sweeps, jobs enqueued
before the rows they name); two replicas at the same instant; a job run again; one step of several failing.

## 2. Modules

| Module | What it is |
|---|---|
| `Broadcast` | what a campaign promises: each person on the list waits until the message reaches them once, or they are dropped once (abstract) |
| `Campaign` | campaign rows, requests and sweeps; `MCCampaign` instances, `CampaignProofs` theorems, `BroadcastProofs` that it implements `Broadcast` |
| `Turns` | one conversation: webhook, agent queue and turn, media queue and reading, people; `MCTurns`, `TurnsProofs` |
| `FollowUps` | nudges: requests, webhooks, sweeps; `MCFollowUps`, `FollowUpsProofs` |
| `Billing` | subscriptions, the sweep, invoices, payments, a calendar; `MCBilling`, `BillingProofs` |
| `Delivery` | one outgoing message and the status webhooks that report on it; numbers; `DeliveryProofs` |
| `Knowledge` | documents, passages, the ingestion queue and its workers |
| `Leads` | a lead edited by people and filled in by the agent |
| `Agents` | the workspace's agents: status, default, tool grants |
| `Rounds` | inside a turn: rounds of the model, tool calls, handoff, reply; colleagues who change the mode beside it |
| `Allowances`, `Slots`, `Entitlements` | a period's AI requests; agents, documents, numbers, members; both under one plan |
| `Sessions`, `Invitations` | refresh tokens; how a person comes into a workspace |
| `RateLimit` | the limiter's counter and its expiry |
| `Templates` | the registry of templates and its synchronisation |
| `Runner` | worker loops, stopping, heartbeats |
| `Office` | the eleven small modules, from `Delivery` to `Runner`, of which a behaviour is about one; `MCOffice` is its instance for TLC. `WorkspaceProofs` has the theorems on `Agents`, `Entitlements`, `Sessions`, `Invitations`, `RateLimit` and `Templates`, `OfficeProofs` those on `Knowledge`, `Leads`, `Rounds`, `Runner` and the whole |

`PROJECT.json` maps each definition to the lines it models. Some definitions are preceded, under the word
*Mutant*, by a variant with a plausible mistake (a dropped guard, a check not repeated); the properties are tried
on those variants too, where each must fail.

### Campaign

A **sweep** is one transaction with many side effects. `Claim(w)` locks the due rows nobody holds and copies them
into the images `wcamp` and `wrcpt`; `BlockedBatch`, `EmptyBatch` and `StartBatch` are the three ways `dispatch_batch`
begins; `SkipOptedOut` and `Address` are the check at the head of `_deliver`, and `Sent`, `Refused`, `Unanswered`
and `NoCredential` the ways a send returns; `EndBatch` is the tail of `dispatch_batch`. Only `Commit(w)` makes the
images the rows; `Crash(w)` discards them while `accepted`, what WhatsApp took, stays. Each of these is a step of
its own, so anything can happen between two messages of a batch.

A **request** is a read (`ReadSchedule`, `ReadPause`, `ReadCancel`, `ReadAudience`: the guards of the service
method) and later a write, which waits for the lock and sets the columns the session saw change. In particular
`next_send_at` is written only if the row, as read, had one.

**Time** is relative: `due` and `next` count the slots left until `scheduled_at` and `next_send_at`, one slot being
the time the rate limit books for one message. `age` is how long ago a sweep took its `now`: the wait after
a batch is counted from there, as in the code.

`EndBatch` never completes a campaign although `dispatch_batch` has a branch for it. The session does not
autoflush (`app/db/session.py`), so the count of pending recipients still includes the one just handled; a later,
empty sweep completes the campaign (run `campaign_last_batch`).

Where the model is coarser than the code: one template and one number, whose usability is the switch
`sendable`; the audience filter is any set of contacts; the preview, the listings and the counters on the response
change no state and are absent; the plan's allowance is a refusal that writes nothing.

### Turns

One conversation. Its rows (`stored`, `latest`, `file`, `conv`, `reading`) change at commits only, and what an
open transaction has in hand is in the process that holds it: `hook`, `turn[a]`, `reader[r]`.

* **Webhook.** `Ingest` (events recorded, messages projected, the conversation row updated and so locked),
  `Enqueue` (jobs into Redis, *before* the commit), `CommitDelivery`; or `EnqueueLost` (Redis fails, which the code
  logs and passes over) and `RollBack`. Since every delivery updates the same conversation row, two deliveries of
  one conversation are serialised by its lock; messages already stored are duplicates and change nothing.
* **Agent worker.** `Take` moves a job to in-flight; `StaySilent` is every early return of the worker and the
  orchestrator; `BeginTurn` reads the conversation once; `NoReading` and `Read` are `SentimentService.assess`;
  `ReadHistory` the memory; `SayNothing`, or `Stage` and `Send`, the answer; `Leave` the commit; `Release`. An error
  is `CannotAnswer` or `TurnFails`, followed by `DeadLetter`: failing a job is two Redis commands, and a crash between
  them loses it.
* **Media worker.** `TakeFile`, `RowMissing` or `OpenFile` (the gate's `FOR UPDATE`), then the outcome of the file
  together with the count of what is unread (`KeepWaiting`, `AskTurn`, `AskLost`), `CommitFile`, `ReleaseFile`.
* **People** change mode and priority, the workspace loses and regains its ability to answer (`ChangeAnswerer`), and an
  operator requeues stranded and failed jobs (`Requeue`).

`lock` is the lock on the conversation row. Besides the updates, a message that refers to the conversation holds
a key-share lock on it until its transaction ends (`Referenced`), which is what keeps the media gate out while a
reply is being sent.

Moods are reduced to *calm* and *angry* (past the agent's escalation threshold) and priorities to ranks; jobs of one
conversation are equal, so the agent queue is three counts. The tools a turn calls are in `Rounds`; the contents of
replies and the memory window are left out. The history variables `heard`, `missed`, `owed` and `overruled` record what the
properties speak about and guard nothing, but for the saturation of two counters.

### FollowUps

Rows of `follow_ups` (`nudge`), the lock on a conversation's row, and what each transaction has in hand. A **request**
reads (`ReadSchedule`, `ReadCancel`) and later writes (`Create`, `Reschedule`, `Cancel`): a reschedule sets the columns
that differ from what it read, and the status is not among them. A **webhook** reads the pending nudges
(`ReadPending`), updates the conversation (`TouchConversation`), and then the nudges (`CancelOnReply`), queueing if a sweep
holds one (`Queue`). A **sweep** claims up to `ClaimLimit` due rows (`Claim`), and for each decides (`Decision`: closed
conversation, 24-hour window, template) to `Skip` or to `Stage` and send; `Sent`, `Refused`, `Unanswered` and `Escapes` are
the ways a send ends, with back-off and giving up in `Failed`. `Commit` is the one commit of the sweep.

The session flushes what it has changed when the next message is staged, and with it the conversation rows of the
nudges sent before (`touched`); so a sweep and a webhook can wait for each other. PostgreSQL then aborts one of
them: `AbortSweep` or `AbortHook`. The window and the registry's verdict are any answer, and a tick is the first
back-off. `accepted`, `silenced`, `afterClose` and `spare` are history.

### Billing

A workspace's row (`sub`), its invoices by start of period, and a calendar of days whose months have the lengths
`MonthLengths`, so that `AddInterval` clamps as `add_interval` does. `ReadDue` takes the due rows, without a lock; for
each tenant `RollUnbilled` (a trial, or an invoice that exists) or `Prepare` and then `Issue`, `Collide` (the unique
constraint, which costs the whole sweep its session) or `InvoiceFails` (contained, and the period rolled over all the
same); `Commit`. An insert waits for another's uncommitted row (`InTheWay`). Owners (`Start`, `ChangePlan`,
`CancelAtPeriodEnd`, `CancelImmediately`, `Resume`, then `Write`) and platform staff (`ReadForPayment`, `ReadForVoid`, then
`Finish`) read and write in two steps. No transaction lives over midnight.

### The smaller modules

* **`Delivery`**: staging a message, uploading, posting with the client's retries (`Unreachable` posts again,
  `Ambiguous` does not), the copy of a file, the commit; a number that is enabled and disabled; the reports WhatsApp owes,
  their webhooks (`ReadEvent`, `ProjectStatus`) in any order, repeated, crossing, or before the sender's commit.
* **`Knowledge`**: submitting, reingesting and deleting against the worker's steps `Reserve`, `ReadDocument`,
  `MarkProcessing`, `Embed`, `Store`, with the row locks their statements take and the deadlock of `Store` with a deletion.
* **`Leads`**: each operation of people and of the assistant's tool reads the row and commits later (`Stored` writes the
  columns that differ); the partial unique index on open leads; the timeline's last word.
* **`Agents`**: `MakeDefault` reads the defaults it will clear; statuses, grants and what the model is offered.
* **`Rounds`**: the loop inside a turn: `Respond` is a call of the model with words and tool calls in any mixture,
  `RunCall` one tool with usable or unusable arguments, `SendReply`, `CommitTurn`; `Escalate` is a customer too angry for an
  agent. A colleague's `set_mode` is `ReadMode`, without a lock, and later `CommitMode`, which writes the row and the event
  as decided on what was read. `came` counts the changes of hands there were and `events` those reported; `overtaken` are
  those who read the mode before another changed it, and `overlapped` tells that one of them has changed it too.
* **`Allowances`, `Slots`, `Entitlements`**: a check counts what is committed, and what it allowed is committed later.
  The period's bound passes before the sweep moves it. `Entitlements` composes the two under one plan.
* **`Sessions`**: a refresh is presented, looked up in the denylist, revoked and answered in separate steps; time is in
  halves of a second because both a token and its entry end on whole ones.
* **`Invitations`**: issuing, withdrawing, following a link; accounts and memberships with their constraints.
* **`RateLimit`**: `INCR`, `TTL` and `EXPIRE` as separate commands, between which requests interleave and die.
* **`Templates`**: pages fetched one by one while Meta changes its mind, the registry read afterwards, and written by
  columns.
* **`Runner`**: the loops of a process, the beats of its kinds, `SIGTERM`.
* **`Office`** composes these. They share no rows and no keys, so a behaviour chooses one of them (`part`) and
  the others stand still: their product would show nothing more. What they do share with `Campaign`, `Turns` or
  `FollowUps` is in those modules as an outcome (a plan that refuses, a template that is withdrawn, a turn that answers).

## 3. What TLC checks

All runs finish within the times given, with two TLC workers.

| Run | Instance | States, time | Properties |
|---|---|---|---|
| `campaign_core` | 1 campaign, 3 contacts, 2 replicas, 1 request, no faults | 470k, 80 s | `TypeOK`, `AtMostOnce`, `LedgerExact`, `NoBurst`, `CancelledIsFinal`, `ImplementsBroadcast` |
| `campaign_faults` | 1 campaign, 2 contacts, 2 replicas, 1 request, crashes and lost answers | 1.0M, 70 s | `SentWasAccepted`, `CompletedMeansDone`, `NothingSentOnceStopped` |
| `campaign_optout` | 2 campaigns, 1 contact, 1 replica, unforeseen exceptions | 475k, 30 s | `StopIsHeard` |
| `campaign_liveness` | 1 campaign, 1 contact, 2 replicas, 2 requests, lost answers, fairness | 220k, 40 s | `CampaignEnds` |
| `turns_core` | 1 text, 2 files, 2 agent and 2 media workers, 1 delivery, allowance | 1.5M, 100 s | `TypeOK`, `OneAnswerPerDelivery`, `JudgedOnce` |
| `turns_faults` | 1 text, 1 file, 1 agent and 1 media worker, 2 deliveries, any one fault, requeueing, fairness | 300k, 55 s | `NobodyForgotten`, `SpeaksOverAtMostOnce`, `EveryoneIsHeard` |
| `followups_core` | 2 rows, 1 conversation, 2 replicas, a webhook, 2 requests, 2 attempts, one loss, fairness | 56k, 25 s | `TypeOK`, `NudgesHold`, `FinishedIsFinal`, `EveryNudgeSettles` |
| `followups_batch` | 2 conversations with a nudge each, claimed together, text or template only | 136k, 15 s | `NudgesHold`, `SilencedStaysSilent` |
| `billing_core` | 1 workspace, 2 plans, months of 2 and 1 days, 2 replicas, 2 owner's requests, 2 staff requests, one failure, fairness | 473k, 100 s | `TypeOK`, `EveryDayBilledOnce`, `BooksBalance`, `EndsOnlyIfMeant`, `DueIsHandled` |
| `office` | each small module by itself | 1.1M, 155 s | `OfficeTypeOK`, `OneSendPerRow`, `RowsHold`, `DocumentsAreServed`, `LeadsHold`, `VerifiedIsKept`, `TurnsHold`, `PlanHolds`, `SettingsHold`, `AccessHolds`, `WindowsHold`, `WorkersAreSound` |

What they show:

* **Nobody is written to twice** as long as no process dies and no answer is lost, whatever two replicas and a
  request do (`AtMostOnce`), and a row says *sent* exactly when WhatsApp took the message (`LedgerExact`). Rows, locks and
  images together implement `Broadcast`. With crashes and lost answers the first fails (section 5), and what remains
  is that *sent* is never a guess (`SentWasAccepted`).
* **Stopping stops** (`NothingSentOnceStopped`), even with crashes: the request that pauses waits for the lock of the
  sweep, so no message leaves after its commit. A contact who says stop gets at most one message per worker more
  (`StopIsHeard`): the one already past the check.
* **The pace**: the wait is counted from the beginning of a sweep, so a slow sweep can put two allowances
  next to each other and never a third (`NoBurst`). Scheduling again clears `next_send_at`, so the bucket starts anew
  there. A crash between sends and commit breaks this bound as it breaks `AtMostOnce`, so the run has no crash.
* **A campaign ends** (`CampaignEnds`): every attempt is counted, so a recipient who keeps failing is given up on.
* **Nobody who writes is forgotten without a trace** (`NobodyForgotten`). The exceptions, recorded in `missed`, are
  real: a job that ran before its message was committed, a lost enqueue, a crash between the two commands of `fail`.
  With fair workers every stored message is heard, or something lies where an operator finds it (`EveryoneIsHeard`).
* **Files of one delivery get one answer** (`OneAnswerPerDelivery`): the row lock around *record the outcome, count the
  unread* makes exactly one of two workers the last.
* **A message is judged once** (`JudgedOnce`), and **an agent speaks over a person at most once per worker**
  (`SpeaksOverAtMostOnce`): the mode is not read again before a reply is sent, but no turn begins either.
* **A nudge** is repeated only by a loss (a crash or deadlock after its send, a lost answer), its row says what happened,
  its attempts are bounded, and closing the conversation is heard but for one (`NudgesHold`); after a committed
  cancellation nothing more of it is sent (`SilencedStaysSilent`); a finished one is never revived although requests write what
  they read earlier (`FinishedIsFinal`); and each settles (`EveryNudgeSettles`), deadlocks and back-off included.
* **Every day is billed once** (`EveryDayBilledOnce`) although replicas read without locks: the constraint on the
  start of a period makes the second sweep fail as a whole, and what a slow sweep writes back is a period the next one
  finds invoiced. The books balance (`BooksBalance`) and nothing ends unasked (`EndsOnlyIfMeant`). All three except the rows
  that an owner's or clerk's request had read together with another transaction; section 5 tells what is lost there. What is
  due is handled (`DueIsHandled`).
* **In the office**: no retry sends a message twice; the evidence of delivery is kept whatever the order of webhooks;
  a ready document is found whole and a waiting one has its job; the timeline explains a lead's status and a verified value
  is a person's; a turn sends exactly what was said, and no change of hands between agent and people goes unreported or,
  unless changes cross, is reported twice; a plan is exceeded by at most what was let through at once; one
  default agent, and a registry that agrees with the last synchronisation that ran alone; a spent token buys nothing after
  its last second, and whoever is in was invited; a rate-limit window is bounded and ends; a live worker is not
  reported dead for one missed beat and begins at most one job after it was asked to stop.

Two runs end in a violation, each of one property that the repository states, and are recorded as findings:

| Run | What happens | What it contradicts |
|---|---|---|
| `campaign_last_batch` | the batch that reaches the last person leaves the campaign running | `docs/CAMPAIGNS.md:73`, `tests/integration/test_campaigns.py:526` |
| `billing_unbilled` | the period whose invoice failed is rolled over in the same sweep and never billed | `app/workers/billing_worker.py:158` |

### Bounds, and why they are enough

`BatchLimit = 1` makes every batch boundary a place where something may interleave; `MaxAttempts = 2` leaves one retry
and one giving up; `MaxDelay` of 0 or 1 slots tells *due now* from *due later*. Three contacts make a campaign of three
sweeps, so that one replica may be in its second when another request arrives; two campaigns are there for the one
property about a sweep of several, where one replica is enough: with as many replicas as campaigns nobody could be late
twice. Two replicas are what locks are about. In `Turns`, two files of one delivery are
the gate's case and two deliveries that of a redelivery; two agents are needed for `JudgedOnce`, and one fault at any
place, followed by requeueing, for the faults. `MaxRank = 1` lets a priority differ. `delivered` and `mishaps` are the
only counters that are guarded; the saturating histories (`accepted` at 2, `late` one above the number of workers,
`pace` one above its limit, `overruled` one above the number of workers, `owed` at -1) stop one past the value at which their
property fails.

The follow-ups are two runs because their hazards are: one nudge with retries, back-off and two requests, and two nudges of
one claim, which the deadlock and a closing in mid-sweep need, with one attempt. `spare` and `afterClose` stop one past
their limits. In billing, months of two and one day bring clamping, a year of two months both intervals, and a clock of two
months several renewals; a trial of one day expires. Two owner's and two staff requests are a race each. In the office, two
transactions on one row are what each hazard needs; three requests for slots exceed a ceiling of two by more than two could;
two turns of two rounds, two colleagues and two requests let any two changes of the mode cross (`handoff` is the tool that
changes the mode and `lead` one that looks at it, either may be rejected; the other tools do neither, and only the
proofs have them); four operations on a lead let two edits cross while a third has committed; a lifetime of two seconds, in halves, tells a
token's last second from the one before, with a second left over for what comes after; the two templates are on different
pages; two lost beats, and one process that is started twice, cover the heartbeats of a process (what replicas do to a key
they share is in section 5). Every bound is a
constant whose comment says *bound*.

Symmetry is used in runs without liveness only: no action or property tells one id from another. (`followups_batch`
and the campaigns use it; the office does not.)

`CHECK_DEADLOCK FALSE` stands in the configurations of `Turns`, `FollowUps`, `Billing` and the office: once the bounded
deliveries, requests, days or operations are used up and everything they led to is done, the system rightly stops. The
campaigns run on, and there TLC checks it.

### Fairness

`Campaign`: weak fairness of the clock and of each worker's own steps. `CampaignWorker.run_forever` polls until
stopped and catches whatever a sweep raises. Requests, opt-outs, crashes and lost answers get no fairness: `CampaignEnds`
holds although requests may pause and reschedule for ever. `Turns`: weak fairness of each worker's step (the same
loops) and of a request that has begun (`Enqueue`, `CommitDelivery`). Faults, people and requeueing get none, so
`EveryoneIsHeard` does not rest on an operator. `FollowUps`: weak fairness of the clock, of each sweep's steps, of a request
and a webhook that have begun; PostgreSQL's resolution of a deadlock is among the steps of both parties. `Billing`: weak
fairness of the sweep: while one can go on, some replica's does, since its loop outlives a failed one; the clock has none.

## 4. What is proved

TLAPS checks these for every value of the constants that satisfies the modules' assumptions: any number of campaigns,
contacts, messages, files, nudges, replicas and concurrent requests, any allowance, number of attempts and deliveries. The
assumptions are that the sets which are counted are finite, that the limits are natural (or positive) numbers, that
constants which stand for records or choices have their types, and that `None`, `Nobody` or `Nothing` is none of the ids.
Every safety property of a passing run is stated by a theorem.

**`CampaignProofs`**

* `TypeCorrect`: `Spec => []TypeOK`.
* `SweepsHoldTheirLocks`: a sweep holds the lock of every campaign it still has to handle. Types alone are not
  inductive, since `Sent` writes `accepted[cur][target]` and needs both to be ids; this shape of a sweep (`SweepShape`)
  says they are, and with the shape of a request it is the inductive `TypeInv`.
* `StoppedMeansSilent`: `Spec => NothingSentOnceStopped`, with every kind of fault. `LockInv`: a held campaign is
  committed as scheduled or running, because the claim takes no other and requests wait for the lock. A step that
  makes WhatsApp accept a message is a step of the lock's holder.
* `NobodyTwice` and `LedgerIsExact`: without crashes and lost answers, `Spec => []AtMostOnce`, `[]LedgerExact`. The strengthening is
  `BatchPending`: who is in a batch is still pending in the image, so a send is the first one.
* `SentIsNoGuess`: `Spec => []SentWasAccepted`, whatever fails. `GuessInv` says it of the images as well, which become
  rows at a commit; `accepted` only grows.
* `StopIsHeardSoon`: `Spec => []StopIsHeard`. A worker that was about to send when the contact said stop has heard of it once
  it sends or leaves; `HeardInv` counts: the late messages are no more than the workers that have heard since, and a worker
  that has heard is not addressing that contact.

* `CompletedIsDone`: while one request is handled at a time, `Spec => []CompletedMeansDone`, whatever fails. `DoneInv`: in
  the rows and in the sweeps' images alike, who is completed has nobody pending, and a request about to set an audience has
  a draft. The hypothesis is needed: two requests can cross (section 5).
* `PaceIsKept`: without crashes and exceptions, lost answers included, `Spec => []NoBurst`, for any allowance. `PaceInv` is an
  account of the window: the row's `next_send_at` bounds the slots booked when a sweep may claim it; from then on the age
  of the sweep pays for what was booked before it, and what is left of its batch for what it may still add. A batch cut
  short by a crash books sends its row never hears of, hence the hypothesis.
* `CancelledForGood`: while one request is handled at a time, `Spec => CancelledIsFinal`. `FinalInv`: no image is of a
  cancelled campaign, and what a request has read has not been cancelled since.

**`BroadcastProofs`**

* `CampaignIsABroadcast`: without crashes and lost answers, `Spec => ImplementsBroadcast`. Under `LedgerInv` each
  change of a committed row, or of an image by the lock's holder, is one abstract step or none: an audience enlists, a
  message that is taken reaches, a recipient given up on or skipped is dropped; claims, commits and everything else stutter,
  because the refinement mapping reads the image while the lock is held and the row otherwise (`Current`).

**`TurnsProofs`**

* `TurnsTypeCorrect`: `Spec => []TypeOK`, whatever fails. The in-flight count stays a natural number because the list
  holds a job for each agent at work (`Counted`, an argument about cardinalities); `owed` stays in range because a delivery
  in progress is not owed an answer yet (`OwedBound`). `ReaderInv` (a media worker that is not idle holds a job) is
  inductive by itself and is proved first.
* `NeverRejudged`: `Spec => JudgedOnce`. `JudgeInv`: a turn that has the row lock and a reading to insert has a
  message nobody has judged. `Stage` checks it when it takes the lock, `Leave` when it takes none, and no other turn can
  commit a reading meanwhile, since that needs the lock.
* `PersonIsHeeded`: `Spec => []SpeaksOverAtMostOnce`. `SpeakInv`: the replies sent over a person plus the turns
  underway are never more than the workers, and while the agent has the conversation there are none of the former. `Send`
  moves one from one summand to the other; only `BeginTurn` adds a turn, and it needs mode *ai*.

* `NobodyIsForgotten`: `Spec => []NobodyForgotten`, whatever crashes and however often WhatsApp delivers. `Gate` says that who is
  about to enqueue a job, or is judging whether files are left, is still there, so no message falls between a commit and
  its job; `Heeded` is the property with the sources of jobs that are yet to come.
* `OneAnswerForEach`: unless jobs are requeued by hand, `Spec => []OneAnswerPerDelivery`. A job is in one
  list or in one worker's hands (`JobInv`); a file whose job is still to run is pending and its delivery owed an answer
  (`AskInv`), so the worker that finds nothing left unread asks for an answer that is owed.

**`FollowUpsProofs`**

* `NudgesAreKept`: the invariant `NudgeInv`. What the properties say of rows is not inductive, since a sweep commits
  images; the strengthening is about what a sweep has in hand. The rows it has claimed are pending and nobody else writes
  them (`Held`, `Apart`), so its image can be compared with the row: whether the message went out, and which attempts
  are still to be counted or, should the transaction roll back, taken back. A conversation has one pending row (`Alone`).
* `NudgesHoldAlways`, `FinishedForGood`, `SilencedForGood`: `NudgesHold`, `FinishedIsFinal`, `SilencedStaysSilent` follow, with
  every crash, deadlock and lost answer.
* `FollowUpsTypesCorrect`: `Spec => []TypeOK`. A claim takes only pending rows with attempts to spare, so counting one more
  stays within the limit. Nothing the provers have says that a power of two is a natural number; `BackoffIsNatural`
  shows it by the library's count of the subsets of a set with one element for each earlier attempt.

**`DeliveryProofs`**

* `OneSend` and `RowsAreTrue`: `DeliverySpec => []OneSendPerRow`, `[]RowsHold`, with any number of messages, senders and
  webhooks and every mishap. The invariant `DeliveryInv` says who has a row in hand: one sender until the row carries
  WhatsApp's identifier (`Fits`, `Apart`), and webhooks from then on. A sender that may still post has a message
  WhatsApp does not have. What a webhook has read of a known row may be out of date when it commits, but is never more
  than the row says, and is all of it unless another webhook has read the row too (`Recent`); writing only the columns
  that changed therefore loses no timestamp (`WrittenAdds`). Reports are only of messages WhatsApp has (`Grounded`).
* `DeliveryTypesCorrect`: `DeliverySpec => []DeliveryTypeOK`. `PostsLeft`: the client gives up before its posts reach their bound, so
  counting one more stays in range.

**`BillingProofs`**

* `BooksAreTrue` and `EndsAsMeant`: `Spec => []BooksBalance`, `[]EndsOnlyIfMeant`, with any number of workspaces, plans,
  replicas, owners and clerks, on any calendar. Nothing locks a row, so neither property is inductive: what a transaction
  commits was decided when it read. `BillingInv` says what each has read. An owner who is alone with a subscription has read
  it as it is, and a sweep's image agrees with the owner's last word (`Alone`, `Meant`); a clerk has read no more money
  than there is, and all of it when nobody else has read the invoice (`Tasked`); an uncommitted invoice is of a period that
  has none and that no other replica is inserting (`Unbilled`), so a commit adds invoices and touches none that is there.
  What two have read at once, which `raced` records, the properties except.
* `EveryDayIsBilledOnce`: `Spec => []EveryDayBilledOnce`, on every calendar whose months have a day. No step counts
  periods, so the argument puts the row's period, every sweep's image and every invoice on one line (`OnOneLine`, `Joins`):
  `Following(end, plan)` is the smallest set of days that holds `end` and is closed under `AddInterval`, which makes what
  would be an induction over periods an instance of that set. An older image only repeats what is on the line already, so a
  slow sweep that writes it back moves the row along the line and never off it. `DayInv` adds that the invoices before the
  row's start leave no day out (`Covered`) and that a sweep has invoiced whom it is through with (`Done`). TLC checked
  `DayInv` before it was proved, and refuted the property as it first stood, without the exception of `raced` (section 5).

* `BillingTypesCorrect`: `Spec => []TypeOK`. Rows, images and prepared writes hold dates throughout (`Dated`). What remains is a
  recursive function, `AddDays`, applied to a trial's days: `AddDaysIsDate` takes the least number of days for which it
  were no date, which is not 0 and whose predecessor gives one. `Least`, every set of natural numbers with a member
  has a least one, comes from the library's `WFMin`, whose parameters are sets; its induction theorems take an operator,
  which the installed provers cannot instantiate.

**`WorkspaceProofs`**

* `PlanTypesCorrect` and `PlanIsKept`: `EntitlementsSpec => []PlanHolds`. A bound on what is used is not inductive,
  because a check sees only what is committed. `PromiseInv` bounds the use together with what the workers that were let
  through may still use; `CrowdInv` does so for slots and the requests that were let through.
* `DefaultIsSingle`: `AgentsSpec => []SingleDefault`. A promotion clears the defaults it has read; `Promotions` says that an
  administrator who is alone has read all there are.
* `RegistryIsTrue`: `TemplatesSpec => []RegistryIsLatest`. `Copies`: what a synchronisation that runs alone has read of the
  registry is what stands there when it writes the columns that differ.
* `SpentIsSpent`: `SessionsSpec => []SpentStaysSpent`, for tokens of any lifetime and any number of requests. Between the
  look at the denylist and the revocation a token is in a request's hands (`Presenters`); afterwards its entry stands until
  the last whole second (`Denylist`).
* `DoorStaysKept`: `InvitationsSpec => []DoorIsKept`, with any number of people, invitations and requests. `CameByInvitation`
  is the property on the rows. Its strengthening says what each request has read: an acceptance is of an invitation to its
  own account (`Visited`, `Addressed`), whose status only a concurrent request can have changed (`Undisputed`), and of
  two pending ones one was issued across the other (`OnePending`).
* `LimitHolds`: `RateLimitSpec => []WindowsHold`, for any quota, window and number of clients. What a window let through
  and the requests that have been counted and not yet decided are together no more than the counter, and with it no
  more than the quota (`Counted`); a request that decides has seen an expiry on the key or set it (`Called`), so
  whoever is turned away is let in again, also when the request that made the key died before giving it an expiry.

**`OfficeProofs`**

* `DocumentsServed`: `KnowledgeSpec => []DocumentsAreServed`, whichever workers and requests die. Who has marked or reset a
  row holds its lock (`Locked`); an insert is of a row nobody sees, one at a time (`Inserting`); a row that waits, or that a
  request is about to make wait, has a job, lies in the failed list or is excused (`Waiting`).
* `DeletionsHold`: `KnowledgeSpec => DeletedForGood`, which no run checks: nobody brings a deleted document back, because
  whoever would write it holds the lock the deletion waits for, or finds the row gone.
* `LeadsAreExplained` and `VerifiedStays`: `LeadsSpec => []LeadsHold`, `VerifiedIsKept`. A row that one operation has in hand
  is written as that operation read it (`Alone`), so its timeline's last word and its dates move together (`Sound`); crossing
  operations are the exception the property makes.
* `TurnsAreHonest`: `RoundsSpec => []TurnsHold`, for any number of rounds, tools, turns and colleagues, crossing or not.
  `Coherent` relates what a turn has said in all its rounds, what it has sent and whether it has handed over, at every
  point of the loop, and its event to the mode it read. `UpToDate`: who has read the mode and has not been overtaken has
  read the one that stands; so its commit reports exactly the change it makes, and the commit of anybody else at least
  that (`CommitIsCounted`).
* `WorkersSound`: `RunnerSpec => []WorkersAreSound`, for any interval and any lateness below a third of it. `Beating`: the time
  a key has left and the time since its last beat are together the key's whole life; `Stopping`: a stopped loop has begun no job
  but the one it was waiting for.
* `OfficeTypesCorrect`, `SettingsAreOne`, `AccessIsKept`: a behaviour of `Office` is one of each part (`OfficeIsItsParts`), so
  what holds of the parts holds of it, every type invariant among them.

Only model-checked: `CampaignEnds`, `EveryoneIsHeard`, `EveryNudgeSettles` and `DueIsHandled`, since TLAPS does not prove liveness
under fairness, and the two violations. No module has a recursive operator.

## 5. Known divergences

What the models show of the code that a reader of its documentation would not expect. Definitions whose comment begins
with *Violated* state the sentence in question; TLC refutes each in seconds when it is added to its module's
configuration.

* **Campaigns.** A schedule that read the row before a cancellation was committed writes *scheduled* over it
  (`docs/CAMPAIGNS.md:89`; `CancelledIsFinal` is therefore checked with one request). A worker that dies after a send and
  before the sweep's commit leaves the message to be sent again (`docs/CAMPAIGNS.md:55`, `:93`). Setting the audience
  across a schedule adds people to a scheduled campaign.
* **Turns.** A requeued media job whose file was read asks for a second answer (`docs/RUNBOOK.md:74`); a text's job lets an
  agent answer while a file is unread (`NoAnswerUnread`; `app/agents/memory.py:165`); a turn overwrites the higher
  priority a person has set meanwhile (`NeverLowered`; `app/db/models/sentiment.py:102`).
* **Rounds.** A handoff whose arguments are rejected silences the agent and hands nothing over (`HandedOffMeansHuman`;
  `app/agents/orchestrator.py:241`). Two colleagues who take one conversation at the same time, or a colleague and a turn
  that hands it over, both read that it is the agent's and report one handoff twice (`OnlyRealChanges`;
  `app/services/inbox_service.py:111`), and a mode that was changed back meanwhile is overwritten by who read it before.
  The registry runs any tool it implements, granted or not.
* **Delivery.** Two crossing status webhooks move a message backwards (`conversation_repository.py:338`,
  `tests/integration/test_conversation_projection.py:223`), which is why `EvidenceKept` excepts them; a send that ends in an
  exception nobody catches leaves no evidence (`AttemptLeavesEvidence`; `conversation_repository.py:295`); a status that arrives
  before the sender's commit is dropped.
* **Knowledge.** The status *failed* is never committed; a job pushed before the commit may be consumed too early; the
  in-flight list is never recovered and `list_pending` has no caller; reingesting a ready document that then fails leaves it
  unsearchable (`ReingestIsSafe`; `app/api/v1/knowledge.py:152`).
* **Leads.** The agent's turn overwrites what a person verified since it read the row (`HumanEntryWins`;
  `app/services/lead_service.py:566`); crossed edits lose verified marks; crossed moves leave a *won* lead
  (`app/db/models/lead.py:122`) or contradict `closed_at`.
* **Agents.** Two crossing promotions leave two defaults; a disabled default stays the default.
* **Plans.** Requests made after the period's end and before the sweep count against nothing, and for ever after the end
  of a subscription (`CountedSinceStart`; `app/services/entitlement_service.py:14`). `Plan.limit_for` says a limit that is
  not positive is unlimited (`app/db/models/billing.py:196`) while 0 is returned as 0. Several campaigns scheduled before any is
  sent all pass the check; enabling a number and accepting an invitation are not checked; `is_serving` has no reader.
* **Billing.** Besides the run: when a plan is changed to a yearly one while a slow sweep holds an older row, the sweep
  writes its period back and the year that follows contains months already invoiced; that year's start has an invoice, so
  the days since the choice are never billed (`app/services/invoice_service.py:19`). An invoice is voided while a payment arrives, an upgrade or a resumption is undone by a
  sweep that read earlier, and of two crossing payments the balance keeps one. One collision loses a whole sweep. A workspace
  whose subscription ended cannot start another; leaving at once or changing plan invoices nothing for the days used;
  nothing sets *past due* and nothing calls `collect`.
* **Sessions.** Overlapping refreshes of one token all succeed; the denylist's entry lapses up to a second before the token;
  a refused workspace costs the token; nothing changes `is_active`.
* **Invitations.** A pending invitation that has expired still blocks a new one; acceptance and revocation can cross; two that
  are issued at once are both pending.
* **Templates.** A list longer than its page bound withdraws what it did not reach; crossing synchronisations can
  restore an older status; a template listed twice costs the synchronisation.
* **Runner.** The third beat is due when the key expires, so two missed beats can already be a death
  (`TwoMissesAreABlip`; `app/workers/heartbeat.py:45`). Replicas share a key per kind, so a hung container is healthy while
  another beats (`docs/RUNBOOK.md:24`).

## 6. What the plan has left

An abstract queue that the Redis lists of `Turns` and `Knowledge` implement: a job is pending, held, failed or done, and is
lost only between two commands. `NobodyForgotten` and `DocumentsAreServed` say today what follows from it.

## 7. What is not modelled, and why

The OpenAI client and the media download are pure I/O whose outcomes are actions of the modules that call them.
Analytics, audit and metrics are append-only rows and reads on which nothing in the system decides; platform administration
aggregates them. API wiring, configuration, logging, pagination and encryption keep no state. Of authentication,
registration and password hashing have no interleaving of their own but for the unique address, which is in `Invitations`.
Assignment and notes of conversations and leads decide nothing. Retrieval's ranking is left out; what it may find is not.
Supervision is the fairness assumed above. The database is modelled by what PostgreSQL guarantees at its default isolation
level (read committed): row locks, unique constraints, all-or-nothing commits, deadlock detection. Tenants do not interact:
every query but the workers' claims is scoped to one, and the claims hand each row to a service scoped to its tenant, so one
tenant is modelled (`Billing`, whose sweep takes several in one transaction, has them as a constant).
