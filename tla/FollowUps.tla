----------------------------- MODULE FollowUps ------------------------------
(***************************************************************************)
(* Nudges: messages promised for later unless the customer speaks first.   *)
(*                                                                         *)
(* Source: app/services/follow_up_service.py,                              *)
(* app/workers/follow_up_worker.py,                                        *)
(* app/repositories/follow_up_repository.py, app/db/models/follow_up.py,   *)
(* and the inbound path of app/services/whatsapp_service.py.               *)
(*                                                                         *)
(* A sweep claims the due nudges nobody holds and sends them all in one    *)
(* transaction.  Requests and webhooks read a nudge without a lock and     *)
(* write the columns they changed at the end of theirs, when the row is    *)
(* free.  A webhook locks the conversation before the nudge, a sweep the   *)
(* nudge before the conversation, so the two can wait for each other.      *)
(***************************************************************************)
EXTENDS Integers, FiniteSets

CONSTANTS
    Nudges,         \* rows of follow_ups
    Conversations,
    Sweepers,       \* follow-up workers
    Hooks,          \* webhook requests that carry a customer's message
    Requests,       \* API requests and agent turns that schedule or cancel
    Nobody,         \* no nudge, conversation or lock holder
    ClaimLimit,     \* rows one sweep claims (DEFAULT_CLAIM_LIMIT)
    MaxAttempts,    \* MAX_ATTEMPTS
    Means,          \* what a nudge may be sent as
    MaxDelay,       \* the longest delay a request asks for, in ticks
    MaxReplies,     \* bound: customer messages, redeliveries included
    MaxRequests,    \* bound: requests
    MaxLost         \* bound: crashes, exceptions and lost answers

ASSUME FollowUpsAssumption ==
    /\ Sweepers \cap Hooks = {}
    /\ Nobody \notin Nudges \cup Conversations \cup Sweepers \cup Hooks
    /\ IsFiniteSet(Nudges)
    /\ ClaimLimit \in Nat \ {0}
    /\ MaxAttempts \in Nat \ {0}
    /\ MaxDelay \in Nat \ {0}
    /\ MaxReplies \in Nat /\ MaxLost \in Nat
    /\ Means \subseteq [text : BOOLEAN, template : BOOLEAN]
    /\ \A m \in Means : m.text \/ m.template

VARIABLES
    nudge,       \* the committed rows
    closed,      \* the conversations that are closed
    lock,        \* the transaction that has updated a conversation's row
    sweep,       \* where each worker is
    hook,        \* where each webhook is
    request,     \* where each request is
    accepted,    \* history: messages of a nudge WhatsApp took, see Reached
    silenced,    \* history: nudges whose cancellation is committed
    afterClose,  \* history: nudges accepted since the conversation was closed
    spare,       \* history: attempts a nudge is still entitled to
    lost,        \* sweeps rolled back, exceptions and answers that got lost
    asked,       \* bound: requests so far
    replies      \* bound: customer messages so far

history == <<accepted, silenced, afterClose, spare>>
bounds == <<lost, asked, replies>>
vars == <<nudge, closed, lock, sweep, hook, request, accepted,
          silenced, afterClose, spare, lost, asked, replies>>

FollowUpStatus ==
    {"absent", "pending", "sent", "cancelled", "failed", "skipped"}

\* wait is the time until scheduled_at, a tick being the first back-off; sent
\* stands for sent_at and message_id.
FollowUp == [status : FollowUpStatus, on : Conversations \cup {Nobody},
             wait : Nat, attempts : 0..MaxAttempts,
             text : BOOLEAN, template : BOOLEAN, sent : BOOLEAN]

Unscheduled == [status |-> "absent", on |-> Nobody, wait |-> 0, attempts |-> 0,
                text |-> FALSE, template |-> FALSE, sent |-> FALSE]

Resting == [stage |-> "idle", todo |-> {}, cur |-> Nobody, image |-> <<>>,
            tried |-> {}, touched |-> {}]
NoReply == [stage |-> "idle", on |-> Nobody, seen |-> {}]

\* The columns a reschedule may find unchanged.
Columns(row) == [text |-> row.text, template |-> row.template,
                 attempts |-> row.attempts]
NoRequest == [op |-> "idle", about |-> Nobody, read |-> Columns(Unscheduled),
              write |-> Unscheduled]

IsPending(n) == nudge[n].status = "pending"
PendingOn(c) == {n \in Nudges : IsPending(n) /\ nudge[n].on = c}

\* Mutant: neither the claim nor a writer waits for the row.
NudgeFreeIgnored(n) == TRUE

\* The rows a sweep has claimed stay locked until its transaction ends.
NudgeFree(n) == \A w \in Sweepers : n \notin DOMAIN sweep[w].image

\* SQLAlchemy writes a column only if it differs from what the session read.
Written(read, new, now) == IF new = read THEN now ELSE new

Init ==
    /\ nudge = [n \in Nudges |-> Unscheduled]
    /\ closed = {}
    /\ lock = [c \in Conversations |-> Nobody]
    /\ sweep = [w \in Sweepers |-> Resting]
    /\ hook = [h \in Hooks |-> NoReply]
    /\ request = [r \in Requests |-> NoRequest]
    /\ accepted = [n \in Nudges |-> 0]
    /\ silenced = {}
    /\ afterClose = [c \in Conversations |-> 0]
    /\ spare = [n \in Nudges |-> 0]
    /\ lost = 0
    /\ asked = 0
    /\ replies = 0

-----------------------------------------------------------------------------
(* Requests: FollowUpService.schedule and cancel                           *)

Begin(r, op, n, write) ==
    /\ request[r] = NoRequest
    /\ asked < MaxRequests
    /\ asked' = asked + 1
    /\ request' = [request EXCEPT ![r] = [op |-> op, about |-> n,
                                          read |-> Columns(nudge[n]),
                                          write |-> write]]
    /\ UNCHANGED <<nudge, closed, lock, sweep, hook, history, lost,
                   replies>>

\* What a request may ask for: text, an approved template, or both.
Scheduled(c, delay, means) ==
    [status |-> "pending", on |-> c, wait |-> delay, attempts |-> 0,
     text |-> means.text, template |-> means.template, sent |-> FALSE]

\* schedule reads the waiting nudge, to reschedule it, or finds none.
ReadSchedule(r) ==
    \E c \in Conversations \ closed, delay \in 1..MaxDelay, means \in Means :
        \/ \E n \in PendingOn(c) :
                Begin(r, "reschedule", n, Scheduled(c, delay, means))
        \/ /\ PendingOn(c) = {}
           /\ \E n \in Nudges :
                /\ nudge[n].status = "absent"
                /\ \A o \in Requests : request[o].about # n
                /\ Begin(r, "create", n, Scheduled(c, delay, means))

\* The row is inserted; the partial unique index refuses a second pending one,
\* and the request fails.
Create(r) ==
    LET n == request[r].about  new == request[r].write IN
    /\ request[r].op = "create"
    /\ request' = [request EXCEPT ![r] = NoRequest]
    /\ IF PendingOn(new.on) = {}
       THEN /\ nudge' = [nudge EXCEPT ![n] = new]
            /\ spare' = [spare EXCEPT ![n] = MaxAttempts]
       ELSE UNCHANGED <<nudge, spare>>
    /\ UNCHANGED <<closed, lock, sweep, hook, accepted, silenced,
                   afterClose, bounds>>

\* Mutant: it is among them.
RescheduledRevives(now, read, new) == [new EXCEPT !.attempts = 0]

\* The status is not among the columns a reschedule sets.
Rescheduled(now, read, new) ==
    [now EXCEPT !.wait = new.wait,
                !.text = Written(read.text, new.text, now.text),
                !.template = Written(read.template, new.template, now.template),
                !.attempts = Written(read.attempts, 0, now.attempts)]

Reschedule(r) ==
    LET n == request[r].about IN
    /\ request[r].op = "reschedule"
    /\ NudgeFree(n)
    /\ nudge' = [nudge EXCEPT ![n] =
                    Rescheduled(@, request[r].read, request[r].write)]
    /\ spare' = [spare EXCEPT ![n] = @ + MaxAttempts]
    /\ request' = [request EXCEPT ![r] = NoRequest]
    /\ UNCHANGED <<closed, lock, sweep, hook, accepted, silenced,
                   afterClose, bounds>>

\* A nudge that is finished is returned untouched.
ReadCancel(r) ==
    \E n \in Nudges : IsPending(n) /\ Begin(r, "cancel", n, Unscheduled)

Cancel(r) ==
    LET n == request[r].about IN
    /\ request[r].op = "cancel"
    /\ NudgeFree(n)
    /\ nudge' = [nudge EXCEPT ![n].status = "cancelled"]
    /\ silenced' = silenced \cup {n}
    /\ request' = [request EXCEPT ![r] = NoRequest]
    /\ UNCHANGED <<closed, lock, sweep, hook, accepted, afterClose,
                   spare, bounds>>

-----------------------------------------------------------------------------
(* The customer writes: cancel_for_conversation in the webhook             *)

ReadPending(h) ==
    \E c \in Conversations :
        /\ hook[h].stage = "idle"
        /\ replies < MaxReplies
        /\ replies' = replies + 1
        /\ hook' = [hook EXCEPT ![h] = [stage |-> "read", on |-> c,
                                        seen |-> PendingOn(c)]]
        /\ UNCHANGED <<nudge, closed, lock, sweep, request, history,
                       lost, asked>>

\* The flush updates the conversation first.
TouchConversation(h) ==
    LET c == hook[h].on IN
    /\ hook[h].stage = "read"
    /\ lock[c] = Nobody
    /\ lock' = [lock EXCEPT ![c] = h]
    /\ hook' = [hook EXCEPT ![h].stage = "touched"]
    /\ UNCHANGED <<nudge, closed, sweep, request, history, bounds>>

\* Then the nudges it has read.  If a sweep holds one the webhook queues for it.
Queue(h) ==
    /\ hook[h].stage = "touched"
    /\ \E n \in hook[h].seen : ~NudgeFree(n)
    /\ hook' = [hook EXCEPT ![h].stage = "queued"]
    /\ UNCHANGED <<nudge, closed, lock, sweep, request, history, bounds>>

CancelOnReply(h) ==
    LET c == hook[h].on IN
    /\ hook[h].stage \in {"touched", "queued"}
    /\ \A n \in hook[h].seen : NudgeFree(n)
    /\ nudge' = [n \in Nudges |-> IF n \in hook[h].seen
                                  THEN [nudge[n] EXCEPT !.status = "cancelled"]
                                  ELSE nudge[n]]
    /\ closed' = closed \ {c}
    /\ afterClose' = [afterClose EXCEPT ![c] = 0]
    /\ silenced' = silenced \cup hook[h].seen
    /\ lock' = [lock EXCEPT ![c] = Nobody]
    /\ hook' = [hook EXCEPT ![h] = NoReply]
    /\ UNCHANGED <<sweep, request, accepted, spare, bounds>>

-----------------------------------------------------------------------------
(* The sweep: FollowUpWorker.run_once and FollowUpService.dispatch         *)

Due == {n \in Nudges : IsPending(n) /\ nudge[n].wait = 0}

\* Who queues for a row gets it next.
QueuedFor(n) == \E h \in Hooks : hook[h].stage = "queued" /\ n \in hook[h].seen

\* FOR UPDATE SKIP LOCKED, up to the limit.
Claim(w) ==
    LET free == {n \in Due : NudgeFree(n) /\ ~QueuedFor(n)} IN
    /\ sweep[w].stage = "idle"
    /\ \E claimed \in SUBSET free :
        /\ claimed # {}
        /\ \/ claimed = free /\ Cardinality(claimed) <= ClaimLimit
           \/ Cardinality(claimed) = ClaimLimit
        /\ sweep' = [sweep EXCEPT ![w] =
                        [Resting EXCEPT !.stage = "next", !.todo = claimed,
                                        !.image = [n \in claimed |-> nudge[n]]]]
    /\ UNCHANGED <<nudge, closed, lock, hook, request, history, bounds>>

Image(w) == sweep[w].image[sweep[w].cur]

\* Mutant: dispatch does not look at the status of the conversation.
DecisionUnclosed(w, n, open, refused) ==
    LET row == sweep[w].image[n] IN
    IF (open /\ row.text) \/ (row.template /\ ~refused) THEN "send" ELSE "skip"

\* What dispatch makes of a nudge: free text in the 24-hour window, a template
\* the registry does not refuse at any time, nothing on a closed conversation.
Decision(w, n, open, refused) ==
    LET row == sweep[w].image[n] IN
    CASE row.on \in closed -> "skip"
      [] row.on \notin closed /\ open /\ row.text -> "send"
      [] row.on \notin closed /\ ~(open /\ row.text) /\ row.template ->
            IF refused THEN "skip" ELSE "send"
      [] OTHER -> "skip"

\* The clock decides on the window and WhatsApp on the template: any answer.
MayBe(decision, w, n) ==
    \E open, refused \in BOOLEAN : Decision(w, n, open, refused) = decision

\* The nudge at hand is finished with in the session; the next one follows.
Settle(w, n, row) ==
    [sweep[w] EXCEPT !.stage = "next", !.cur = Nobody, !.todo = @ \ {n},
                     !.image[n] = row]

Skip(w) ==
    \E n \in sweep[w].todo :
        /\ sweep[w].stage = "next"
        /\ MayBe("skip", w, n)
        /\ sweep' = [sweep EXCEPT ![w] =
                Settle(w, n, [sweep[w].image[n] EXCEPT !.status = "skipped"])]
        /\ UNCHANGED <<nudge, closed, lock, hook, request, history,
                       bounds>>

CanTouch(w) == \A c \in sweep[w].touched : lock[c] \in {Nobody, w}

\* Staging the message flushes what the session has pending: the conversations
\* of the nudges sent before.
Stage(w) ==
    \E n \in sweep[w].todo :
        /\ sweep[w].stage = "next"
        /\ MayBe("send", w, n)
        /\ CanTouch(w)
        /\ lock' = [c \in Conversations |->
                        IF c \in sweep[w].touched THEN w ELSE lock[c]]
        /\ sweep' = [sweep EXCEPT ![w].stage = "send", ![w].cur = n]
        /\ UNCHANGED <<nudge, closed, hook, request, history, bounds>>

\* WhatsApp has the message; the histories stop beyond what is claimed of them.
Reached(n) ==
    /\ accepted' = [accepted EXCEPT ![n] =
                        IF @ < 2 + MaxLost + MaxReplies THEN @ + 1 ELSE @]
    /\ LET c == nudge[n].on IN
       afterClose' = [afterClose EXCEPT ![c] =
                        IF c \in closed /\ @ < 2 THEN @ + 1 ELSE @]

\* One attempt less; the history stops below zero.
Tried(n) == spare' = [spare EXCEPT ![n] = IF @ >= 0 THEN @ - 1 ELSE @]

Sent(w) ==
    LET n == sweep[w].cur IN
    /\ sweep[w].stage = "send"
    /\ Reached(n)
    /\ sweep' = [sweep EXCEPT ![w] =
            [Settle(w, n, [Image(w) EXCEPT !.status = "sent", !.sent = TRUE])
                EXCEPT !.tried = @ \cup {n}, !.touched = @ \cup {nudge[n].on}]]
    /\ Tried(n)
    /\ UNCHANGED <<nudge, closed, lock, hook, request, silenced, bounds>>

Backoff(attempts) == 2 ^ (attempts - 1)
IsExhausted(row) == row.attempts >= MaxAttempts

\* Mutants: the attempt that exhausts a nudge leaves it pending; attempts are
\* not counted.
FailedNeverExhausted(row) ==
    [row EXCEPT !.attempts = @ + 1, !.wait = Backoff(row.attempts + 1)]
FailedUncounted(row) == [row EXCEPT !.wait = 1]

\* _fail: pending with a later time, or given up.
Failed(row) ==
    LET counted == [row EXCEPT !.attempts = @ + 1] IN
    IF IsExhausted(counted) THEN [counted EXCEPT !.status = "failed"]
    ELSE [counted EXCEPT !.wait = Backoff(counted.attempts)]

\* Mutant: the failed message that send returned is taken for a sent one.
RefuseMarksSent(w) ==
    LET n == sweep[w].cur IN
    /\ sweep' = [sweep EXCEPT ![w] =
            [Settle(w, n, [Image(w) EXCEPT !.status = "sent", !.sent = TRUE])
                EXCEPT !.tried = @ \cup {n}]]
    /\ Tried(n)
    /\ UNCHANGED <<nudge, closed, lock, hook, request, silenced>>

Refuse(w) ==
    LET n == sweep[w].cur IN
    /\ sweep' = [sweep EXCEPT ![w] =
            [Settle(w, n, Failed(Image(w))) EXCEPT !.tried = @ \cup {n}]]
    /\ Tried(n)
    /\ UNCHANGED <<nudge, closed, lock, hook, request, silenced>>

\* Refused by WhatsApp, never reached it, or stopped by a disabled number.
Refused(w) ==
    /\ sweep[w].stage = "send"
    /\ Refuse(w)
    /\ UNCHANGED <<accepted, afterClose, bounds>>

Mishap ==
    /\ lost < MaxLost
    /\ lost' = lost + 1
    /\ UNCHANGED <<asked, replies>>

\* WhatsApp took the message and its answer did not arrive.
Unanswered(w) ==
    /\ sweep[w].stage = "send"
    /\ Reached(sweep[w].cur)
    /\ Mishap
    /\ Refuse(w)

\* An exception nobody foresaw, contained to this nudge.
Escapes(w) ==
    /\ sweep[w].stage = "send"
    /\ Mishap
    /\ sweep' = [sweep EXCEPT ![w] = Settle(w, sweep[w].cur, Image(w))]
    /\ UNCHANGED <<nudge, closed, lock, hook, request, history>>

Unlocked(holder) ==
    [c \in Conversations |-> IF lock[c] = holder THEN Nobody ELSE lock[c]]

\* The one commit of the sweep flushes the rest first.
Commit(w) ==
    /\ sweep[w].stage = "next"
    /\ sweep[w].todo = {}
    /\ CanTouch(w)
    /\ nudge' = [n \in Nudges |-> IF n \in DOMAIN sweep[w].image
                                  THEN sweep[w].image[n] ELSE nudge[n]]
    /\ lock' = Unlocked(w)
    /\ sweep' = [sweep EXCEPT ![w] = Resting]
    /\ UNCHANGED <<closed, hook, request, history, bounds>>

\* The transaction is gone: nothing it wrote remains, and what it tried does
\* not count.
RollBack(w) ==
    /\ lock' = Unlocked(w)
    /\ sweep' = [sweep EXCEPT ![w] = Resting]
    /\ spare' = [n \in Nudges |-> IF n \in sweep[w].tried
                                  THEN spare[n] + 1 ELSE spare[n]]
    /\ UNCHANGED <<nudge, closed, hook, request, accepted, silenced,
                   afterClose>>

Crash(w) ==
    /\ sweep[w].stage # "idle"
    /\ Mishap
    /\ RollBack(w)

-----------------------------------------------------------------------------
(* A sweep and a webhook that wait for each other                          *)

Deadlocked(w, h) ==
    /\ hook[h].stage = "queued"
    /\ \E n \in hook[h].seen : n \in DOMAIN sweep[w].image
    /\ sweep[w].stage = "next"
    /\ \A n \in sweep[w].todo : MayBe("send", w, n)
    /\ hook[h].on \in sweep[w].touched
    /\ lock[hook[h].on] = h

\* PostgreSQL aborts one of the two: the sweep, whose messages are out,
AbortSweep(w) ==
    /\ \E h \in Hooks : Deadlocked(w, h)
    /\ lost' = lost + 1
    /\ RollBack(w)
    /\ UNCHANGED <<asked, replies>>

\* or the webhook, which WhatsApp will deliver again.
AbortHook(h) ==
    /\ \E w \in Sweepers : Deadlocked(w, h)
    /\ lock' = Unlocked(h)
    /\ hook' = [hook EXCEPT ![h] = NoReply]
    /\ UNCHANGED <<nudge, closed, sweep, request, history, bounds>>

-----------------------------------------------------------------------------
(* The rest of the system                                                  *)

Close(c) ==
    /\ c \notin closed
    /\ lock[c] = Nobody
    /\ closed' = closed \cup {c}
    /\ UNCHANGED <<nudge, lock, sweep, hook, request, history, bounds>>

Reopen(c) ==
    /\ c \in closed
    /\ lock[c] = Nobody
    /\ closed' = closed \ {c}
    /\ afterClose' = [afterClose EXCEPT ![c] = 0]
    /\ UNCHANGED <<nudge, lock, sweep, hook, request, accepted,
                   silenced, spare, bounds>>

Sooner(row) == [row EXCEPT !.wait = IF @ > 0 THEN @ - 1 ELSE 0]

\* Time passes, for the times that are still to be committed too.
Tick ==
    /\ nudge' = [n \in Nudges |-> Sooner(nudge[n])]
    /\ sweep' = [w \in Sweepers |-> [sweep[w] EXCEPT !.image =
                    [n \in DOMAIN sweep[w].image |-> Sooner(@[n])]]]
    /\ request' = [r \in Requests |-> [request[r] EXCEPT !.write = Sooner(@)]]
    /\ UNCHANGED <<closed, lock, hook, history, bounds>>

SweepStep(w) ==
    \/ Claim(w) \/ Skip(w) \/ Stage(w) \/ Sent(w) \/ Refused(w)
    \/ Commit(w) \/ AbortSweep(w)

RequestStep(r) == Create(r) \/ Reschedule(r) \/ Cancel(r)
HookStep(h) ==
    TouchConversation(h) \/ Queue(h) \/ CancelOnReply(h) \/ AbortHook(h)

Next ==
    \/ \E w \in Sweepers : SweepStep(w) \/ Unanswered(w) \/ Escapes(w) \/ Crash(w)
    \/ \E r \in Requests : ReadSchedule(r) \/ ReadCancel(r) \/ RequestStep(r)
    \/ \E h \in Hooks : ReadPending(h) \/ HookStep(h)
    \/ \E c \in Conversations : Close(c) \/ Reopen(c)
    \/ Tick

Spec == Init /\ [][Next]_vars

\* FollowUpWorker.run_forever polls until stopped and outlives a failed sweep;
\* PostgreSQL resolves a deadlock; a request that has begun ends.
FairSpec ==
    /\ Spec
    /\ WF_vars(Tick)
    /\ \A w \in Sweepers : WF_vars(SweepStep(w))
    /\ \A r \in Requests : WF_vars(RequestStep(r))
    /\ \A h \in Hooks : WF_vars(HookStep(h))

-----------------------------------------------------------------------------
(* Properties                                                              *)

\* Every variable has its type.
TypeOK ==
    /\ nudge \in [Nudges -> FollowUp]
    /\ closed \subseteq Conversations
    /\ lock \in [Conversations -> Sweepers \cup Hooks \cup {Nobody}]
    /\ \A w \in Sweepers :
        /\ sweep[w].stage \in {"idle", "next", "send"}
        /\ sweep[w].todo \subseteq DOMAIN sweep[w].image
        /\ sweep[w].image \in [DOMAIN sweep[w].image -> FollowUp]
    /\ \A h \in Hooks : hook[h].stage \in {"idle", "read", "touched", "queued"}
    /\ \A r \in Requests :
        request[r].op \in {"idle", "create", "reschedule", "cancel"}
    /\ accepted \in [Nudges -> Nat]
    /\ silenced \subseteq Nudges
    /\ afterClose \in [Conversations -> 0..2]
    /\ lost \in Nat /\ asked \in Nat /\ replies \in Nat

\* A customer gets a nudge a second time only if a sweep was rolled back after
\* its sends, or an answer of WhatsApp was lost: replicas, requests and replies
\* alone never cause it.
OnlyLossRepeats == \A n \in Nudges : accepted[n] <= 1 + lost

\* Once a reply or a cancellation is committed WhatsApp takes no further message
\* of that nudge: whoever writes the row has waited for the sweep that holds it.
SilencedStaysSilent == [][\A n \in silenced : accepted'[n] = accepted[n]]_vars

\* A nudge that is finished is never pending again, whatever was read before it
\* was finished and is written afterwards.
FinishedIsFinal ==
    [][\A n \in Nudges : nudge[n].status \notin {"absent", "pending"}
            => nudge'[n].status \notin {"absent", "pending"}]_vars

\* A row that says sent, or that still names the message after somebody has
\* cancelled it, is never a guess.
SentWasAccepted ==
    \A n \in Nudges :
        /\ nudge[n].status = "sent" => nudge[n].sent
        /\ nudge[n].sent => accepted[n] > 0

\* After a conversation is closed at most the message already past the check
\* still goes out.
ClosingIsHeard == \A c \in Conversations : afterClose[c] <= 1

\* Each scheduling buys MAX_ATTEMPTS attempts and no more, even when it resets
\* the attempts of a nudge that a sweep is failing to send.
TriesBounded == \A n \in Nudges : spare[n] >= 0

\* Whatever crashes, crosses or is cancelled: only a loss repeats a nudge, what the
\* rows say is what happened, the attempts are bounded, and closing is heard.
NudgesHold ==
    OnlyLossRepeats /\ SentWasAccepted /\ TriesBounded /\ ClosingIsHeard

\* A nudge that waits is sent, skipped, given up or cancelled in the end: no
\* failure, deadlock or back-off holds it for ever.
EveryNudgeSettles == \A n \in Nudges : IsPending(n) ~> ~IsPending(n)

=============================================================================
