------------------------------ MODULE Billing -------------------------------
(***************************************************************************)
(* Subscriptions, the periods they run through, the invoices for those     *)
(* periods and the money that comes in for the invoices.                   *)
(*                                                                         *)
(* Source: app/services/subscription_service.py,                           *)
(* app/services/invoice_service.py, app/workers/billing_worker.py,         *)
(* app/repositories/billing_repository.py and invoice_repository.py,       *)
(* app/db/models/billing.py and invoice.py, app/platform/platform_billing. *)
(*                                                                         *)
(* Nothing here locks a row before reading it.  A sweep reads the due      *)
(* subscriptions of all workspaces, invoices and rolls over each, and      *)
(* commits once; owners and staff read a row in one step and write the     *)
(* columns they changed in another.  Unique constraints on the workspace's *)
(* subscription and on the start of an invoiced period are the only guard. *)
(* Dates are days of a calendar with short months; a transaction ends on   *)
(* the day it began.                                                       *)
(***************************************************************************)
EXTENDS Integers, Sequences, FiniteSets

CONSTANTS
    Tenants,
    Plans,
    Price,          \* [Plans -> Nat], in the smallest amount anybody pays
    Yearly,         \* the plans billed by the year; the others by the month
    TrialDays,      \* [Plans -> Nat]
    MonthLengths,   \* the days of each month of the year
    Replicas,       \* billing workers
    Owners,         \* requests of workspace owners
    Clerks,         \* requests of platform staff
    Nothing,        \* no tenant and no plan
    Amounts,        \* what a payment may be
    LastMonth,      \* bound: the month after which the clock stops
    MaxRequests,    \* bound: owners' requests
    MaxClerical,    \* bound: staff requests
    MaxFailures,    \* bound: invoices that raise and workers that die
    Failures        \* which of the two happen: a subset of FailureKinds

FailureKinds == {"invoice", "crash"}

ASSUME BillingAssumption ==
    /\ Nothing \notin Tenants \cup Plans
    /\ IsFiniteSet(Tenants)
    /\ Price \in [Plans -> Nat] /\ TrialDays \in [Plans -> Nat]
    /\ Yearly \subseteq Plans
    /\ MonthLengths \in Seq(Nat \ {0}) /\ MonthLengths # <<>>
    /\ Amounts \subseteq Nat \ {0}
    /\ Failures \subseteq FailureKinds

VARIABLES
    today,
    sub,         \* the committed subscriptions, one row per workspace
    invoice,     \* the committed invoices of a workspace by start of period
    sweep,       \* where each replica is
    owner,       \* where each owner's request is
    clerk,       \* where each staff request is
    word,        \* history: the owner's last word
    billedFrom,  \* history: the day from which every day is to be billed
    unbilled,    \* history: periods rolled over although their invoice failed
    raced,       \* history: tenants and invoices two transactions had read
                 \* at once
    asked,       \* bound: owners' requests so far
    clerical,    \* bound: staff requests so far
    failures     \* bound: failures so far

history == <<word, billedFrom, unbilled, raced>>
bounds == <<asked, clerical, failures>>
vars == <<today, sub, invoice, sweep, owner, clerk, word,
          billedFrom, unbilled, raced, asked, clerical, failures>>

-----------------------------------------------------------------------------
(* The calendar                                                            *)

Year == Len(MonthLengths)
DaysIn(month) == MonthLengths[(month % Year) + 1]

Before(d, e) == d.month < e.month \/ (d.month = e.month /\ d.day < e.day)
NotAfter(d, e) == d = e \/ Before(d, e)

NextDay(d) == IF d.day < DaysIn(d.month)
              THEN [d EXCEPT !.day = @ + 1]
              ELSE [month |-> d.month + 1, day |-> 1]

\* _same_day: clamped to the month's last day.
SameDay(d, month) ==
    [month |-> month,
     day |-> IF d.day <= DaysIn(month) THEN d.day ELSE DaysIn(month)]

\* add_interval
AddInterval(d, plan) ==
    SameDay(d, d.month + (IF plan \in Yearly THEN Year ELSE 1))

\* moment + timedelta(days=...)
AddDays(d, days) ==
    LET later[n \in 0..days] == IF n = 0 THEN d ELSE NextDay(later[n - 1])
    IN later[days]

-----------------------------------------------------------------------------
(* Rows                                                                    *)

SubscriptionStatus == {"none", "trialing", "active", "cancelled", "expired"}
InvoiceStatus == {"open", "paid", "void"}

Date == [month : Nat, day : Nat]
Dawn == [month |-> 0, day |-> 1]

\* The row of a workspace; cancel stands for cancel_at_period_end.
Subscription == [status : SubscriptionStatus, plan : Plans \cup {Nothing},
                 start : Date, end : Date, cancel : BOOLEAN]

NoSubscription == [status |-> "none", plan |-> Nothing, start |-> Dawn,
                   end |-> Dawn, cancel |-> FALSE]

\* received is the sum of the invoice's rows in payments.
Invoice == [end : Date, due : Nat, paid : Nat, status : InvoiceStatus,
            received : Nat]

\* Mutant: the default status of the row is left as it is.
InvoiceOfDraft(row, end) ==
    [end |-> end, due |-> Price[row.plan], paid |-> 0, received |-> 0,
     status |-> "draft"]

InvoiceOf(row, end) ==
    [end |-> end, due |-> Price[row.plan], paid |-> 0, received |-> 0,
     status |-> IF Price[row.plan] > 0 THEN "open" ELSE "paid"]

\* SQLAlchemy writes a column only if it differs from what the session read.
Written(read, new, now) == IF new = read THEN now ELSE new

SubWritten(read, new, now) ==
    [column \in DOMAIN now |-> Written(read[column], new[column], now[column])]

IsTerminal(row) == row.status \in {"cancelled", "expired"}


\* A workspace gets its first period, and its trial, at registration or later.
Started(plan) ==
    LET trial == TrialDays[plan] > 0 IN
    [status |-> IF trial THEN "trialing" ELSE "active", plan |-> plan,
     start |-> today, cancel |-> FALSE,
     end |-> IF trial THEN AddDays(today, TrialDays[plan])
             ELSE AddInterval(today, plan)]

Idle == [stage |-> "idle", todo |-> {}, cur |-> Nothing, image |-> <<>>,
         rows |-> <<>>, bills |-> <<>>, failed |-> {}]
NoRequest == [op |-> "idle", on |-> Nothing, read |-> NoSubscription,
              write |-> NoSubscription]
NoTask == [op |-> "idle", on |-> Nothing, start |-> Dawn, paid |-> 0,
           status |-> "open", amount |-> 0]

\* Registration starts a subscription, or the catalogue has no default plan.
Init ==
    /\ today \in {[month |-> 0, day |-> d] : d \in 1..DaysIn(0)}
    /\ sub \in [Tenants -> {NoSubscription} \cup {Started(p) : p \in Plans}]
    /\ invoice = [t \in Tenants |-> <<>>]
    /\ sweep = [w \in Replicas |-> Idle]
    /\ owner = [o \in Owners |-> NoRequest]
    /\ clerk = [k \in Clerks |-> NoTask]
    /\ word = [t \in Tenants |-> "none"]
    /\ billedFrom = [t \in Tenants |-> sub[t].start]
    /\ unbilled = {}
    /\ raced = {}
    /\ asked = 0
    /\ clerical = 0
    /\ failures = 0

HeldByOwner(t) == \E o \in Owners : owner[o].on = t
HeldBySweep(t) == \E w \in Replicas : t \in DOMAIN sweep[w].image

-----------------------------------------------------------------------------
(* Owners: SubscriptionService behind api/v1/billing.py                    *)

\* A request reads the row and decides; the columns it changes are written when
\* its transaction ends.
Begin(o, t, op, write) ==
    /\ owner[o] = NoRequest
    /\ asked < MaxRequests
    /\ asked' = asked + 1
    /\ owner' = [owner EXCEPT ![o] = [op |-> op, on |-> t, read |-> sub[t],
                                      write |-> write]]
    /\ raced' = IF HeldByOwner(t) \/ HeldBySweep(t) THEN raced \cup {t}
                ELSE raced
    /\ UNCHANGED <<today, sub, invoice, sweep, clerk, word, billedFrom,
                   unbilled, clerical, failures>>

\* Refused when there is a row, one that has ended included.
Start(o, t, plan) ==
    /\ sub[t] = NoSubscription
    /\ Begin(o, t, "start", Started(plan))

\* Mutant: the pending cancellation survives the choice of a plan.
ChosenStillLeaves(row, plan) ==
    [row EXCEPT !.status = "active", !.plan = plan, !.start = today,
                !.end = AddInterval(today, plan)]

Chosen(row, plan) ==
    [row EXCEPT !.status = "active", !.plan = plan, !.start = today,
                !.end = AddInterval(today, plan), !.cancel = FALSE]

Running(t) == sub[t] # NoSubscription /\ ~IsTerminal(sub[t])

ChangePlan(o, t, plan) ==
    /\ Running(t)
    /\ sub[t].plan # plan
    /\ Begin(o, t, "choose", Chosen(sub[t], plan))

CancelAtPeriodEnd(o, t) ==
    /\ Running(t)
    /\ Begin(o, t, "leave", [sub[t] EXCEPT !.cancel = TRUE])

CancelImmediately(o, t) ==
    /\ Running(t)
    /\ Begin(o, t, "leave", [sub[t] EXCEPT !.status = "cancelled",
                                           !.cancel = FALSE, !.end = today])

Resume(o, t) ==
    /\ Running(t)
    /\ sub[t].cancel
    /\ Begin(o, t, "resume", [sub[t] EXCEPT !.cancel = FALSE])

\* The second of two starts fails on the unique constraint.
Write(o) ==
    LET t == owner[o].on  op == owner[o].op IN
    /\ op # "idle"
    /\ owner' = [owner EXCEPT ![o] = NoRequest]
    /\ IF op = "start" /\ sub[t] # NoSubscription
       THEN UNCHANGED <<sub, word, billedFrom>>
       ELSE /\ sub' = [sub EXCEPT ![t] =
                            SubWritten(owner[o].read, owner[o].write, @)]
            /\ word' = [word EXCEPT ![t] = op]
            /\ billedFrom' = [billedFrom EXCEPT ![t] =
                                IF op \in {"start", "choose"} THEN today ELSE @]
    /\ UNCHANGED <<today, invoice, sweep, clerk, unbilled, raced, bounds>>

-----------------------------------------------------------------------------
(* The sweep: BillingWorker.run_once                                       *)

IsDue(t) == Running(t) /\ NotAfter(sub[t].end, today)

ReadDue(w) ==
    LET due == {t \in Tenants : IsDue(t)}  image == [t \in due |-> sub[t]] IN
    /\ sweep[w] = Idle
    /\ due # {}
    /\ sweep' = [sweep EXCEPT ![w] =
                    [Idle EXCEPT !.stage = "next", !.todo = due,
                                 !.image = image, !.rows = image]]
    /\ raced' = raced \cup {t \in due : HeldByOwner(t)}
    /\ UNCHANGED <<today, sub, invoice, owner, clerk, word, billedFrom,
                   unbilled, bounds>>

\* Mutant: the next period opens on the day of the sweep.
RollOverFromToday(row) ==
    IF row.cancel THEN [row EXCEPT !.status = "cancelled"]
    ELSE IF row.status = "trialing" THEN [row EXCEPT !.status = "expired"]
    ELSE [row EXCEPT !.start = today, !.end = AddInterval(today, row.plan)]

\* roll_over
RollOver(row) ==
    CASE row.cancel -> [row EXCEPT !.status = "cancelled"]
      [] ~row.cancel /\ row.status = "trialing" ->
            [row EXCEPT !.status = "expired"]
      [] OTHER -> [row EXCEPT !.start = row.end,
                              !.end = AddInterval(row.end, row.plan)]

\* Tenants are taken in the order of their ends of period, which are instants:
\* two that fall on one day come in the same order in every sweep.
IsNext(w, t) ==
    /\ sweep[w].stage = "next"
    /\ t \in sweep[w].todo
    /\ t = CHOOSE u \in sweep[w].todo :
            \A v \in sweep[w].todo : NotAfter(sweep[w].image[u].end,
                                              sweep[w].image[v].end)

\* The tenant is rolled over in the session; the row is written at the commit.
Rolled(w, t) ==
    [sweep[w] EXCEPT !.stage = "next", !.cur = Nothing, !.todo = @ \ {t},
                     !.rows[t] = RollOver(@)]

\* Mutant: issue_for_period does not look.
NeverIssued(t, start) == FALSE

\* get_for_period, among what is committed
Issued(t, start) == start \in DOMAIN invoice[t]

\* A trial is not invoiced, and an invoice that exists is left alone.
RollUnbilled(w) ==
    \E t \in Tenants :
        LET row == sweep[w].rows[t] IN
        /\ IsNext(w, t)
        /\ row.status = "trialing" \/ Issued(t, row.start)
        /\ sweep' = [sweep EXCEPT ![w] = Rolled(w, t)]
        /\ UNCHANGED <<today, sub, invoice, owner, clerk, history, bounds>>

\* No invoice yet: one is to be inserted.
Prepare(w) ==
    \E t \in Tenants :
        LET row == sweep[w].rows[t] IN
        /\ IsNext(w, t)
        /\ row.status # "trialing" /\ ~Issued(t, row.start)
        /\ sweep' = [sweep EXCEPT ![w].stage = "insert", ![w].cur = t]
        /\ UNCHANGED <<today, sub, invoice, owner, clerk, history, bounds>>

With(rows, key, row) ==
    [k \in DOMAIN rows \cup {key} |-> IF k = key THEN row ELSE rows[k]]

\* The replicas with an uncommitted invoice of the same tenant and start: an
\* insert waits for them.
InTheWay(w) ==
    LET t == sweep[w].cur IN
    {v \in Replicas \ {w} : /\ t \in DOMAIN sweep[v].bills
                            /\ sweep[v].image[t].start = sweep[w].image[t].start}

Billed(w, t) ==
    LET row == sweep[w].rows[t] IN With(sweep[w].bills, t, InvoiceOf(row, row.end))

Issue(w) ==
    LET t == sweep[w].cur IN
    /\ sweep[w].stage = "insert"
    /\ InTheWay(w) = {}
    /\ sweep[w].rows[t].start \notin DOMAIN invoice[t]
    /\ sweep' = [sweep EXCEPT ![w] = [Rolled(w, t) EXCEPT !.bills = Billed(w, t)]]
    /\ UNCHANGED <<today, sub, invoice, owner, clerk, history, bounds>>

RollBack(w) ==
    /\ sweep' = [sweep EXCEPT ![w] = Idle]
    /\ UNCHANGED <<today, sub, invoice, owner, clerk, history>>

\* The constraint refuses the invoice.  The exception is caught, but the session
\* is of no more use and the whole sweep is lost.
Collide(w) ==
    LET t == sweep[w].cur IN
    /\ sweep[w].stage = "insert"
    /\ InTheWay(w) = {}
    /\ sweep[w].rows[t].start \in DOMAIN invoice[t]
    /\ RollBack(w)
    /\ UNCHANGED bounds

Failure(kind) ==
    /\ kind \in Failures
    /\ failures < MaxFailures
    /\ failures' = failures + 1
    /\ UNCHANGED <<asked, clerical>>

\* Any other exception is contained, and the period is rolled over all the same.
InvoiceFails(w) ==
    LET t == sweep[w].cur IN
    /\ sweep[w].stage = "insert"
    /\ Failure("invoice")
    /\ sweep' = [sweep EXCEPT ![w] = [Rolled(w, t) EXCEPT !.failed = @ \cup {t}]]
    /\ UNCHANGED <<today, sub, invoice, owner, clerk, history>>

\* A worker that dies, or loses the database, loses its transaction.
Crash(w) ==
    /\ sweep[w].stage # "idle"
    /\ Failure("crash")
    /\ RollBack(w)

Later(d, e) == IF Before(d, e) THEN e ELSE d

Commit(w) ==
    LET s == sweep[w] IN
    /\ s.stage = "next"
    /\ s.todo = {}
    /\ sub' = [t \in Tenants |-> IF t \in DOMAIN s.image
                    THEN SubWritten(s.image[t], s.rows[t], sub[t]) ELSE sub[t]]
    /\ invoice' = [t \in Tenants |-> IF t \in DOMAIN s.bills
                    THEN With(invoice[t], s.image[t].start, s.bills[t])
                    ELSE invoice[t]]
    /\ billedFrom' = [t \in Tenants |-> IF t \in s.failed
                    THEN Later(billedFrom[t], s.image[t].end) ELSE billedFrom[t]]
    /\ unbilled' = unbilled \cup {<<t, s.image[t].start>> : t \in s.failed}
    /\ sweep' = [sweep EXCEPT ![w] = Idle]
    /\ UNCHANGED <<today, owner, clerk, word, raced, bounds>>

-----------------------------------------------------------------------------
(* Platform staff: PlatformBillingService                                  *)

Take(k, op, t, start, amount) ==
    LET row == invoice[t][start] IN
    /\ clerk[k] = NoTask
    /\ clerical < MaxClerical
    /\ clerical' = clerical + 1
    /\ clerk' = [clerk EXCEPT ![k] =
                    [op |-> op, on |-> t, start |-> start, paid |-> row.paid,
                     status |-> row.status, amount |-> amount]]
    /\ raced' = IF \E j \in Clerks : clerk[j].on = t /\ clerk[j].start = start
                THEN raced \cup {<<t, start>>} ELSE raced
    /\ UNCHANGED <<today, sub, invoice, sweep, owner, word, billedFrom,
                   unbilled, asked, failures>>

\* record_payment: a payment that exceeds what is due is taken as well.
ReadForPayment(k) ==
    \E t \in Tenants : \E start \in DOMAIN invoice[t] :
        /\ invoice[t][start].status # "void"
        /\ \E amount \in Amounts : Take(k, "pay", t, start, amount)

\* Mutant: a paid invoice is voided like any other.
VoidableAny(row) == row.status # "void"

Voidable(row) == row.status = "open"

ReadForVoid(k) ==
    \E t \in Tenants : \E start \in DOMAIN invoice[t] :
        /\ Voidable(invoice[t][start])
        /\ Take(k, "void", t, start, 0)

\* _settle and the row in payments
Settled(row, task) ==
    LET paid == task.paid + task.amount IN
    [row EXCEPT !.received = @ + task.amount,
                !.paid = paid,
                !.status = Written(task.status,
                            IF paid >= row.due THEN "paid" ELSE task.status, @)]

Finish(k) ==
    LET t == clerk[k].on  start == clerk[k].start IN
    /\ clerk[k].op # "idle"
    /\ invoice' = [invoice EXCEPT ![t][start] =
                    IF clerk[k].op = "pay" THEN Settled(@, clerk[k])
                    ELSE [@ EXCEPT !.status = "void"]]
    /\ clerk' = [clerk EXCEPT ![k] = NoTask]
    /\ UNCHANGED <<today, sub, sweep, owner, history, bounds>>

-----------------------------------------------------------------------------
(* The clock and the system                                                *)

\* No transaction lives over midnight.
Tick ==
    /\ today.month <= LastMonth
    /\ \A w \in Replicas : sweep[w] = Idle
    /\ \A o \in Owners : owner[o] = NoRequest
    /\ \A k \in Clerks : clerk[k] = NoTask
    /\ today' = NextDay(today)
    /\ UNCHANGED <<sub, invoice, sweep, owner, clerk, history, bounds>>

SweepStep(w) ==
    \/ ReadDue(w) \/ RollUnbilled(w) \/ Prepare(w) \/ Issue(w) \/ Collide(w)
    \/ Commit(w)

Next ==
    \/ \E o \in Owners, t \in Tenants :
        \/ \E plan \in Plans : Start(o, t, plan) \/ ChangePlan(o, t, plan)
        \/ CancelAtPeriodEnd(o, t) \/ CancelImmediately(o, t) \/ Resume(o, t)
    \/ \E o \in Owners : Write(o)
    \/ \E w \in Replicas : SweepStep(w) \/ InvoiceFails(w) \/ Crash(w)
    \/ \E k \in Clerks : ReadForPayment(k) \/ ReadForVoid(k) \/ Finish(k)
    \/ Tick

Spec == Init /\ [][Next]_vars

\* BillingWorker.run_forever outlives a failed sweep: some replica goes on.
FairSpec == Spec /\ WF_vars(\E w \in Replicas : SweepStep(w))

-----------------------------------------------------------------------------
(* Properties                                                              *)

\* Every variable has its type.
TypeOK ==
    /\ today \in Date
    /\ sub \in [Tenants -> Subscription]
    /\ \A t \in Tenants : \A start \in DOMAIN invoice[t] :
        start \in Date /\ invoice[t][start] \in Invoice
    /\ \A w \in Replicas :
        /\ sweep[w].stage \in {"idle", "next", "insert"}
        /\ sweep[w].todo \subseteq DOMAIN sweep[w].image
        /\ sweep[w].rows \in [DOMAIN sweep[w].image -> Subscription]
        /\ sweep[w].failed \cap DOMAIN sweep[w].bills = {}
    /\ \A o \in Owners :
        owner[o].op \in {"idle", "start", "choose", "leave", "resume"}
    /\ \A k \in Clerks : clerk[k].op \in {"idle", "pay", "void"}
    /\ word \in [Tenants -> {"none", "start", "choose", "leave", "resume"}]
    /\ billedFrom \in [Tenants -> Date]
    /\ asked \in Nat /\ clerical \in Nat /\ failures \in Nat

\* The invoices of a workspace that a day falls into.
Covering(t, d) == {start \in DOMAIN invoice[t] :
                        NotAfter(start, d) /\ Before(d, invoice[t][start].end)}

Days == [month : 0..(LastMonth + 1), day : 1..DaysIn(0)]

\* Every day of every period a workspace has left behind is on exactly one
\* invoice, whichever replicas swept it and however short the months: counted
\* from the last choice of a plan, and from a period whose invoice failed, unless
\* an owner's request crossed with a sweep or with another request.
EveryDayBilledOnce ==
    \A t \in Tenants \ raced : \A d \in Days :
        (NotAfter(billedFrom[t], d) /\ Before(d, sub[t].start))
            => Cardinality(Covering(t, d)) = 1

\* An invoice's balance is what its payments sum to and its status follows from
\* it, unless two requests worked on it at once; even then no money is invented.
BooksBalance ==
    \A t \in Tenants : \A start \in DOMAIN invoice[t] :
        LET row == invoice[t][start] IN
        /\ row.paid <= row.received
        /\ (row.status = "paid") => row.received >= row.due
        /\ <<t, start>> \notin raced =>
            /\ row.paid = row.received
            /\ row.status = "paid" <=> row.paid >= row.due

\* A subscription ends because its owner's last word was to leave, or as a trial
\* on which no plan was chosen, unless that word crossed with a sweep or with
\* another request.
EndsOnlyIfMeant ==
    \A t \in Tenants \ raced :
        /\ sub[t].status = "cancelled" => word[t] = "leave"
        /\ sub[t].status = "expired" => word[t] \notin {"leave", "choose"}

\* A period that has ended does not stay so: a failed invoice, a collision of
\* two sweeps or a crash delays the renewal and never blocks it.
DueIsHandled == \A t \in Tenants : IsDue(t) ~> ~IsDue(t)

\* Violated: "An invoice that could not be issued is worth a loud log and a
\* retry on the next sweep" (billing_worker.py:158).
RetriedOnNextSweep ==
    \A e \in unbilled : Before(e[2], sub[e[1]].start) => Issued(e[1], e[2])

=============================================================================
