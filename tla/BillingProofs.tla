---------------------------- MODULE BillingProofs ----------------------------
(***************************************************************************)
(* What holds of subscriptions and invoices, for any number of workspaces, *)
(* plans, replicas and requests, on any calendar and whatever fails.       *)
(*                                                                         *)
(* Nothing locks a row, so the argument is about what each transaction has *)
(* read: an owner who is alone with a subscription has read it as it is, a *)
(* sweep's image agrees with the owner's last word, a clerk has read no    *)
(* more money than there is.  raced names the rows where two had read at   *)
(* once.  Of the calendar it is used only that every month has a day, so   *)
(* that an interval ends after it began.                                   *)
(***************************************************************************)
EXTENDS Billing, TLAPS, FiniteSetTheorems, WellFoundedInduction

\* A row of a subscription; its dates may be anything.
IsRow(r) ==
    /\ r = [status |-> r.status, plan |-> r.plan, start |-> r.start,
            end |-> r.end, cancel |-> r.cancel]
    /\ r.status \in SubscriptionStatus /\ r.cancel \in BOOLEAN
    /\ r.status = "none" <=> r = NoSubscription
    /\ r.status # "none" => r.plan \in Plans

IsRunning(r) == IsRow(r) /\ r.status \in {"trialing", "active"}

IsInvoice(v) ==
    /\ v = [end |-> v.end, due |-> v.due, paid |-> v.paid, status |-> v.status,
            received |-> v.received]
    /\ v.due \in Nat /\ v.paid \in Nat /\ v.received \in Nat
    /\ v.status \in InvoiceStatus

IsFunction(f) == f = [x \in DOMAIN f |-> f[x]]

\* What an owner's request is about to write.
Intends(op, row) ==
    /\ op = "start" => row.status \in {"trialing", "active"} /\ ~row.cancel
    /\ op = "choose" => row.status = "active" /\ ~row.cancel
    /\ op = "leave" => \/ row.status = "cancelled"
                       \/ row.status \in {"trialing", "active"} /\ row.cancel
    /\ op = "resume" => row.status \in {"trialing", "active"} /\ ~row.cancel

Asking(q) ==
    /\ q = [op |-> q.op, on |-> q.on, read |-> q.read, write |-> q.write]
    /\ q.op \in {"idle", "start", "choose", "leave", "resume"}
    /\ q.op = "idle" => q = NoRequest
    /\ q.op # "idle" =>
        /\ q.on \in Tenants
        /\ IsRow(q.read) /\ IsRow(q.write) /\ q.write.status # "none"
        /\ q.op = "start" => q.read = NoSubscription
        /\ q.op # "start" => IsRunning(q.read) /\ sub[q.on].status # "none"
        /\ Intends(q.op, q.write)

\* An invoice as it is first written.
IsNew(v) ==
    /\ IsInvoice(v) /\ v.paid = 0 /\ v.received = 0
    /\ v.status = IF v.due > 0 THEN "open" ELSE "paid"

Sweeping(z) ==
    /\ z = [stage |-> z.stage, todo |-> z.todo, cur |-> z.cur, image |-> z.image,
            rows |-> z.rows, bills |-> z.bills, failed |-> z.failed]
    /\ z.stage \in {"idle", "next", "insert"}
    /\ IsFunction(z.image) /\ IsFunction(z.rows) /\ IsFunction(z.bills)
    /\ DOMAIN z.image \subseteq Tenants /\ DOMAIN z.rows = DOMAIN z.image
    /\ z.todo \subseteq DOMAIN z.image
    /\ DOMAIN z.bills \subseteq DOMAIN z.image \ z.todo
    /\ z.stage = "insert" => z.cur \in z.todo
    /\ \A t \in DOMAIN z.image :
        /\ IsRunning(z.image[t])
        /\ z.rows[t] = IF t \in z.todo THEN z.image[t] ELSE RollOver(z.image[t])
    /\ \A t \in DOMAIN z.bills : IsNew(z.bills[t])

Rows ==
    /\ sub = [t \in Tenants |-> sub[t]] /\ \A t \in Tenants : IsRow(sub[t])
    /\ owner = [o \in Owners |-> owner[o]] /\ \A o \in Owners : Asking(owner[o])
    /\ sweep = [w \in Replicas |-> sweep[w]] /\ \A w \in Replicas : Sweeping(sweep[w])
    /\ \A w \in Replicas : \A t \in DOMAIN sweep[w].image : sub[t].status # "none"
    /\ word = [t \in Tenants |-> word[t]]

\* What is said of a subscription agrees with the owner's last word.
Meant(t, row) ==
    /\ row.cancel => word[t] = "leave"
    /\ row.status = "cancelled" => word[t] = "leave"
    /\ row.status = "expired" => word[t] \notin {"leave", "choose"}
    /\ row.status = "trialing" =>
        word[t] # "choose" /\ (word[t] = "leave" => row.cancel)

\* Where no two have read at once, an owner is alone with what is there, and
\* what a sweep has read is still as the owner wanted it.
Alone(t) ==
    /\ \A o \in Owners : owner[o].on = t => owner[o].read = sub[t] /\ ~HeldBySweep(t)
    /\ \A o, p \in Owners : owner[o].on = t /\ owner[p].on = t => o = p
    /\ \A w \in Replicas : t \in DOMAIN sweep[w].image => Meant(t, sweep[w].image[t])

SubInv == Rows /\ \A t \in Tenants \ raced : Meant(t, sub[t]) /\ Alone(t)

-----------------------------------------------------------------------------
(* Rows                                                                    *)

LEMMA NoSubscriptionIsRow == IsRow(NoSubscription) /\ NoSubscription.status = "none"
  BY DEF IsRow, NoSubscription, SubscriptionStatus

LEMMA StartedIsRow ==
    ASSUME NEW plan \in Plans
    PROVE  /\ IsRunning(Started(plan)) /\ ~Started(plan).cancel
           /\ Started(plan).status # "none"
  BY DEF Started, IsRunning, IsRow, NoSubscription, SubscriptionStatus

\* A session that read an older row changes the columns it means to change.
LEMMA SubWrittenIsRow ==
    ASSUME NEW read, NEW new, NEW now, IsRow(read), IsRow(new), IsRow(now),
           NEW row, row = SubWritten(read, new, now)
    PROVE  /\ now = read => row = new
           /\ now.status # "none" /\ new.status # "none" =>
                /\ IsRow(row) /\ row.status # "none"
                /\ row.status = IF new.status = read.status THEN now.status
                                ELSE new.status
                /\ row.cancel = IF new.cancel = read.cancel THEN now.cancel
                                ELSE new.cancel
<1>1. row = [column \in {"status", "plan", "start", "end", "cancel"} |->
                IF new[column] = read[column] THEN now[column] ELSE new[column]]
  BY DEF SubWritten, Written, IsRow
<1>2. /\ row.status = IF new.status = read.status THEN now.status ELSE new.status
      /\ row.plan = IF new.plan = read.plan THEN now.plan ELSE new.plan
      /\ row.start = IF new.start = read.start THEN now.start ELSE new.start
      /\ row.end = IF new.end = read.end THEN now.end ELSE new.end
      /\ row.cancel = IF new.cancel = read.cancel THEN now.cancel ELSE new.cancel
      /\ row = [status |-> row.status, plan |-> row.plan, start |-> row.start,
                end |-> row.end, cancel |-> row.cancel]
  BY <1>1
<1>3. ASSUME now = read PROVE row = new
  <2>1. /\ row.status = new.status /\ row.plan = new.plan /\ row.start = new.start
        /\ row.end = new.end /\ row.cancel = new.cancel
    BY <1>2, <1>3
  <2>2. QED
    BY <1>2, <2>1 DEF IsRow
<1>4. ASSUME now.status # "none", new.status # "none"
      PROVE  IsRow(row) /\ row.status # "none"
  <2>1. row.status \in SubscriptionStatus \ {"none"} /\ row.plan \in Plans
    BY <1>2, <1>4 DEF IsRow
  <2>2. row.cancel \in BOOLEAN
    BY <1>2 DEF IsRow
  <2>3. row # NoSubscription
    BY <2>1, NoSubscriptionIsRow
  <2>4. QED
    BY <1>2, <2>1, <2>2, <2>3 DEF IsRow
<1>5. QED
  BY <1>2, <1>3, <1>4

LEMMA RollOverIsRow ==
    ASSUME NEW image, IsRunning(image), NEW row, row = RollOver(image)
    PROVE  /\ IsRow(row) /\ row.status # "none" /\ row.cancel = image.cancel
           /\ row.status = IF image.cancel THEN "cancelled"
                           ELSE IF image.status = "trialing" THEN "expired"
                           ELSE image.status
<1>1. CASE image.cancel
  BY <1>1 DEF RollOver, IsRunning, IsRow, NoSubscription, SubscriptionStatus
<1>2. CASE ~image.cancel /\ image.status = "trialing"
  BY <1>2 DEF RollOver, IsRunning, IsRow, NoSubscription, SubscriptionStatus
<1>3. CASE ~image.cancel /\ image.status # "trialing"
  BY <1>3 DEF RollOver, IsRunning, IsRow, NoSubscription, SubscriptionStatus
<1>4. QED
  BY <1>1, <1>2, <1>3

-----------------------------------------------------------------------------
(* The beginning                                                           *)

LEMMA IdleSweeps ==
    /\ Sweeping(Idle) /\ DOMAIN Idle.image = {} /\ DOMAIN Idle.bills = {}
    /\ Idle.stage = "idle"
<1>1. /\ Idle.image = <<>> /\ Idle.rows = <<>> /\ Idle.bills = <<>> /\ Idle.todo = {}
      /\ Idle.stage = "idle"
  BY DEF Idle
<1>2. DOMAIN <<>> = {} /\ IsFunction(<<>>)
  BY DEF IsFunction
<1>3. Idle = [stage |-> Idle.stage, todo |-> Idle.todo, cur |-> Idle.cur,
              image |-> Idle.image, rows |-> Idle.rows, bills |-> Idle.bills,
              failed |-> Idle.failed]
  BY DEF Idle
<1>4. QED
  BY <1>1, <1>2, <1>3 DEF Sweeping

LEMMA NoRequestAsks ==
    Asking(NoRequest) /\ NoRequest.op = "idle" /\ NoRequest.on \notin Tenants
  BY BillingAssumption DEF Asking, NoRequest

LEMMA SubStarts == Init => SubInv
<1> SUFFICES ASSUME Init PROVE SubInv
  OBVIOUS
<1>1. /\ \A w \in Replicas : sweep[w] = Idle
      /\ \A o \in Owners : owner[o] = NoRequest
      /\ \A t \in Tenants : word[t] = "none"
  BY DEF Init
<1>2. \A t \in Tenants : IsRow(sub[t]) /\ Meant(t, sub[t])
  <2>1. ASSUME NEW t \in Tenants PROVE IsRow(sub[t]) /\ Meant(t, sub[t])
    <3>1. sub[t] \in {NoSubscription} \cup {Started(p) : p \in Plans}
      BY DEF Init
    <3>2. CASE sub[t] = NoSubscription
      BY <1>1, <3>2, NoSubscriptionIsRow DEF Meant, NoSubscription
    <3>3. CASE \E p \in Plans : sub[t] = Started(p)
      BY <1>1, <3>3, StartedIsRow DEF Meant, IsRunning
    <3>4. QED
      BY <3>1, <3>2, <3>3
  <2>2. QED
    BY <2>1
<1>3. Rows
  BY <1>1, <1>2, IdleSweeps, NoRequestAsks DEF Init, Rows
<1>4. \A t \in Tenants : Alone(t)
  BY <1>1, IdleSweeps, NoRequestAsks DEF Alone, HeldBySweep
<1>5. QED
  BY <1>2, <1>3, <1>4 DEF SubInv

-----------------------------------------------------------------------------
(* Owners                                                                  *)

\* Who reads while somebody else is at the row marks it.
LEMMA BeginKeeps ==
    ASSUME SubInv, NEW o \in Owners, NEW t \in Tenants,
           NEW op \in {"start", "choose", "leave", "resume"}, NEW write,
           Begin(o, t, op, write), IsRow(write), write.status # "none",
           Intends(op, write),
           op = "start" => sub[t] = NoSubscription,
           op # "start" => IsRunning(sub[t])
    PROVE  SubInv'
<1>1. PICK q : q = [op |-> op, on |-> t, read |-> sub[t], write |-> write]
  OBVIOUS
<1>2. /\ q.op = op /\ q.on = t /\ q.read = sub[t] /\ q.write = write
      /\ q = [op |-> q.op, on |-> q.on, read |-> q.read, write |-> q.write]
  BY <1>1
<1>3. /\ owner[o] = NoRequest /\ owner' = [owner EXCEPT ![o] = q]
      /\ raced' = IF HeldByOwner(t) \/ HeldBySweep(t) THEN raced \cup {t} ELSE raced
      /\ UNCHANGED <<sub, sweep, word>>
  BY <1>1 DEF Begin
<1>4. owner'[o] = q /\ \A p \in Owners : p # o => owner'[p] = owner[p]
  BY <1>3 DEF SubInv, Rows
<1>5. Asking(q)
  BY <1>2 DEF Asking, IsRunning, SubInv, Rows
<1>6. Rows'
  <2>1. \A p \in Owners : Asking(owner[p])'
    BY <1>3, <1>4, <1>5 DEF SubInv, Rows, Asking
  <2>2. owner' = [p \in Owners |-> owner'[p]]
    BY <1>3 DEF SubInv, Rows
  <2>3. QED
    BY <1>3, <2>1, <2>2 DEF SubInv, Rows
<1>7. ASSUME NEW u \in Tenants \ raced' PROVE Meant(u, sub[u])' /\ Alone(u)'
  <2>1. u \notin raced /\ Meant(u, sub[u]) /\ Alone(u)
    BY <1>3 DEF SubInv
  <2>2. HeldBySweep(u)' <=> HeldBySweep(u)
    BY <1>3 DEF HeldBySweep
  <2>3. CASE u = t
    <3>1. ~HeldByOwner(t) /\ ~HeldBySweep(t)
      BY <1>3, <2>3
    <3>2. \A p \in Owners : p # o => owner'[p].on # t
      BY <1>4, <3>1 DEF HeldByOwner
    <3>3. QED
      BY <1>2, <1>3, <1>4, <2>1, <2>2, <2>3, <3>1, <3>2 DEF Alone, Meant
  <2>4. CASE u # t
    BY <1>2, <1>3, <1>4, <2>1, <2>2, <2>4 DEF Alone, Meant
  <2>5. QED
    BY <2>3, <2>4
<1>8. QED
  BY <1>6, <1>7 DEF SubInv

LEMMA RequestsKeep ==
    ASSUME SubInv, NEW o \in Owners, NEW t \in Tenants,
           \/ \E plan \in Plans : Start(o, t, plan) \/ ChangePlan(o, t, plan)
           \/ CancelAtPeriodEnd(o, t) \/ CancelImmediately(o, t) \/ Resume(o, t)
    PROVE  SubInv'
<1>1. Running(t) => IsRunning(sub[t])
  BY DEF Running, IsTerminal, IsRunning, SubInv, Rows, IsRow, SubscriptionStatus
<1>2. ASSUME NEW plan \in Plans, Start(o, t, plan) PROVE SubInv'
  <2>1. IsRunning(Started(plan)) /\ Intends("start", Started(plan))
    BY StartedIsRow DEF Intends, IsRunning
  <2>2. QED
    BY <1>2, <2>1, BeginKeeps DEF Start, IsRunning
<1>3. ASSUME NEW plan \in Plans, ChangePlan(o, t, plan) PROVE SubInv'
  <2>1. PICK row : /\ row = Chosen(sub[t], plan)
                   /\ IsRunning(sub[t]) /\ Begin(o, t, "choose", row)
    BY <1>1, <1>3 DEF ChangePlan
  <2>2. /\ row.status = "active" /\ row.plan = plan /\ row.cancel = FALSE
        /\ row = [status |-> row.status, plan |-> row.plan, start |-> row.start,
                  end |-> row.end, cancel |-> row.cancel]
    BY <2>1 DEF Chosen, IsRunning, IsRow
  <2>3. IsRow(row) /\ row.status # "none" /\ Intends("choose", row)
    <3>1. row # NoSubscription /\ row.cancel \in BOOLEAN
      BY <2>2, NoSubscriptionIsRow
    <3>2. IsRow(row)
      BY <2>2, <3>1 DEF IsRow, SubscriptionStatus
    <3>3. QED
      BY <2>2, <3>2 DEF Intends
  <2>4. QED
    BY <2>1, <2>3, BeginKeeps
<1>4. CASE CancelAtPeriodEnd(o, t)
  <2>1. PICK row : /\ row = [sub[t] EXCEPT !.cancel = TRUE]
                   /\ IsRunning(sub[t]) /\ Begin(o, t, "leave", row)
    BY <1>1, <1>4 DEF CancelAtPeriodEnd
  <2>2. IsRow(row) /\ row.status # "none" /\ Intends("leave", row)
    BY <2>1 DEF IsRunning, IsRow, Intends, NoSubscription, SubscriptionStatus
  <2>3. QED
    BY <2>1, <2>2, BeginKeeps
<1>5. CASE CancelImmediately(o, t)
  <2>1. PICK row : /\ row = [sub[t] EXCEPT !.status = "cancelled",
                                           !.cancel = FALSE, !.end = today]
                   /\ IsRunning(sub[t]) /\ Begin(o, t, "leave", row)
    BY <1>1, <1>5 DEF CancelImmediately
  <2>2. IsRow(row) /\ row.status # "none" /\ Intends("leave", row)
    BY <2>1 DEF IsRunning, IsRow, Intends, NoSubscription, SubscriptionStatus
  <2>3. QED
    BY <2>1, <2>2, BeginKeeps
<1>6. CASE Resume(o, t)
  <2>1. PICK row : /\ row = [sub[t] EXCEPT !.cancel = FALSE]
                   /\ IsRunning(sub[t]) /\ Begin(o, t, "resume", row)
    BY <1>1, <1>6 DEF Resume
  <2>2. IsRow(row) /\ row.status # "none" /\ Intends("resume", row)
    BY <2>1 DEF IsRunning, IsRow, Intends, NoSubscription, SubscriptionStatus
  <2>3. QED
    BY <2>1, <2>2, BeginKeeps
<1>7. QED
  BY <1>2, <1>3, <1>4, <1>5, <1>6

\* An owner who is alone with a row writes it as it was meant.
LEMMA WriteKeeps == ASSUME SubInv, NEW o \in Owners, Write(o) PROVE SubInv'
<1>1. PICK t, q :
        /\ t \in Tenants /\ q = owner[o] /\ t = q.on /\ q.op # "idle" /\ Asking(q)
        /\ owner' = [owner EXCEPT ![o] = NoRequest]
        /\ UNCHANGED <<sweep, raced>>
  BY DEF Write, SubInv, Rows, Asking
<1>2. owner'[o] = NoRequest /\ \A p \in Owners : p # o => owner'[p] = owner[p]
  BY <1>1 DEF SubInv, Rows
<1>3. owner' = [p \in Owners |-> owner'[p]]
  BY <1>1 DEF SubInv, Rows
<1>4. CASE q.op = "start" /\ sub[t] # NoSubscription
  <2>1. UNCHANGED <<sub, word>>
    BY <1>1, <1>4 DEF Write
  <2>2. Rows'
    <3>1. \A p \in Owners : Asking(owner[p])'
      BY <1>2, <2>1, NoRequestAsks DEF SubInv, Rows, Asking
    <3>2. QED
      BY <1>1, <1>3, <2>1, <3>1 DEF SubInv, Rows
  <2>3. ASSUME NEW u \in Tenants \ raced PROVE Meant(u, sub[u])' /\ Alone(u)'
    <3>1. Meant(u, sub[u]) /\ Alone(u)
      BY DEF SubInv
    <3>2. HeldBySweep(u)' <=> HeldBySweep(u)
      BY <1>1 DEF HeldBySweep
    <3>3. QED
      BY <1>1, <1>2, <2>1, <3>1, <3>2, NoRequestAsks DEF Alone, Meant
  <2>4. QED
    BY <1>1, <2>2, <2>3 DEF SubInv
<1>5. CASE ~(q.op = "start" /\ sub[t] # NoSubscription)
  <2>1. PICK row, now :
          /\ now = sub[t] /\ row = SubWritten(q.read, q.write, now)
          /\ sub' = [sub EXCEPT ![t] = row]
          /\ word' = [word EXCEPT ![t] = q.op]
    BY <1>1, <1>5 DEF Write
  <2>2. /\ sub'[t] = row /\ word'[t] = q.op
        /\ \A u \in Tenants : u # t => sub'[u] = sub[u] /\ word'[u] = word[u]
        /\ sub' = [u \in Tenants |-> sub'[u]] /\ word' = [u \in Tenants |-> word'[u]]
    BY <1>1, <2>1 DEF SubInv, Rows
  <2>3. IsRow(now) /\ IsRow(q.read) /\ IsRow(q.write) /\ q.write.status # "none"
    BY <1>1, <2>1 DEF SubInv, Rows, Asking
  <2>4. (now = q.read => row = q.write) /\ IsRow(row) /\ row.status # "none"
    <3>1. CASE now.status # "none"
      BY <2>1, <2>3, <3>1, SubWrittenIsRow
    <3>2. CASE now.status = "none"
      <4>1. now = q.read
        BY <1>1, <1>5, <2>1, <2>3, <3>2 DEF Asking, IsRow
      <4>2. QED
        BY <2>1, <2>3, <4>1, SubWrittenIsRow
    <3>3. QED
      BY <3>1, <3>2
  <2>5. Rows'
    <3>1. \A u \in Tenants : IsRow(sub'[u]) /\ (sub[u].status # "none" => sub'[u].status # "none")
      BY <2>2, <2>4 DEF SubInv, Rows
    <3>2. ASSUME NEW p \in Owners PROVE Asking(owner[p])'
      <4>1. CASE p = o
        BY <1>2, <4>1, NoRequestAsks DEF Asking
      <4>2. CASE p # o
        BY <1>2, <3>1, <4>2 DEF SubInv, Rows, Asking
      <4>3. QED
        BY <4>1, <4>2
    <3>3. \A w \in Replicas : Sweeping(sweep'[w])
      BY <1>1 DEF SubInv, Rows
    <3>4. \A w \in Replicas : \A u \in DOMAIN sweep'[w].image : sub'[u].status # "none"
      BY <1>1, <3>1 DEF SubInv, Rows, Sweeping
    <3>5. QED
      BY <1>1, <1>3, <2>2, <3>1, <3>2, <3>3, <3>4 DEF SubInv, Rows
  <2>6. ASSUME NEW u \in Tenants \ raced PROVE Meant(u, sub[u])' /\ Alone(u)'
    <3>1. Meant(u, sub[u]) /\ Alone(u)
      BY DEF SubInv
    <3>2. HeldBySweep(u)' <=> HeldBySweep(u)
      BY <1>1 DEF HeldBySweep
    <3>3. CASE u = t
      <4>1. sub'[u] = q.write /\ ~HeldBySweep(u)
        BY <1>1, <2>1, <2>2, <2>4, <3>1, <3>3 DEF Alone
      <4>2. \A p \in Owners : owner'[p].on # u
        BY <1>1, <1>2, <3>1, <3>3, NoRequestAsks DEF Alone
      <4>3. Meant(u, sub[u])'
        BY <1>1, <2>2, <2>3, <3>3, <4>1 DEF Meant, Intends, Asking, IsRow
      <4>4. QED
        BY <1>1, <3>2, <4>1, <4>2, <4>3 DEF Alone, HeldBySweep
    <3>4. CASE u # t
      BY <1>1, <1>2, <2>2, <3>1, <3>2, <3>4, NoRequestAsks DEF Alone, Meant
    <3>5. QED
      BY <3>3, <3>4
  <2>7. QED
    BY <1>1, <2>5, <2>6 DEF SubInv
<1>6. QED
  BY <1>4, <1>5

-----------------------------------------------------------------------------
(* Sweeps                                                                  *)

\* A sweep that goes on has read what it had read, or nothing.
LEMMA SweepMoves ==
    ASSUME SubInv, NEW w \in Replicas, NEW z, Sweeping(z),
           sweep' = [sweep EXCEPT ![w] = z], UNCHANGED <<sub, owner, word, raced>>,
           z.image = sweep[w].image \/ DOMAIN z.image = {}
    PROVE  SubInv'
<1>1. /\ sweep'[w] = z /\ \A v \in Replicas : v # w => sweep'[v] = sweep[v]
      /\ sweep' = [v \in Replicas |-> sweep'[v]]
  BY DEF SubInv, Rows
<1>2. \A v \in Replicas : \A t \in DOMAIN sweep'[v].image :
        t \in DOMAIN sweep[v].image /\ sweep'[v].image[t] = sweep[v].image[t]
  BY <1>1
<1>3. Rows'
  <2>1. \A v \in Replicas : Sweeping(sweep'[v])
    BY <1>1 DEF SubInv, Rows
  <2>2. \A v \in Replicas : \A t \in DOMAIN sweep'[v].image : sub[t].status # "none"
    BY <1>2 DEF SubInv, Rows
  <2>3. \A o \in Owners : Asking(owner[o])'
    BY DEF SubInv, Rows, Asking
  <2>4. QED
    BY <1>1, <2>1, <2>2, <2>3 DEF SubInv, Rows
<1>4. ASSUME NEW t \in Tenants \ raced PROVE Meant(t, sub[t])' /\ Alone(t)'
  <2>1. Meant(t, sub[t]) /\ Alone(t)
    BY DEF SubInv
  <2>2. HeldBySweep(t)' => HeldBySweep(t)
    BY <1>2 DEF HeldBySweep
  <2>3. QED
    BY <1>2, <2>1, <2>2 DEF Alone, Meant
<1>5. QED
  BY <1>3, <1>4 DEF SubInv

\* One more subscription is rolled over, with an invoice or without.
LEMMA RolledSweeps ==
    ASSUME NEW z, Sweeping(z), NEW t \in z.todo, NEW y,
           y = [stage |-> y.stage, todo |-> y.todo, cur |-> y.cur, image |-> y.image,
                rows |-> y.rows, bills |-> y.bills, failed |-> y.failed],
           y.stage = "next", y.todo = z.todo \ {t}, y.image = z.image,
           y.rows = [z.rows EXCEPT ![t] = RollOver(@)],
           \/ y.bills = z.bills
           \/ \E bill : IsNew(bill) /\ y.bills = With(z.bills, t, bill)
    PROVE  Sweeping(y)
<1>1. /\ t \in DOMAIN z.image /\ DOMAIN z.rows = DOMAIN z.image
      /\ z.rows[t] = z.image[t] /\ IsFunction(z.rows) /\ IsFunction(z.bills)
      /\ DOMAIN z.bills \subseteq DOMAIN z.image \ z.todo
  BY DEF Sweeping
<1>2. /\ IsFunction(y.rows) /\ DOMAIN y.rows = DOMAIN z.image
      /\ y.rows[t] = RollOver(z.image[t])
      /\ \A u \in DOMAIN z.image : u # t => y.rows[u] = z.rows[u]
  BY <1>1 DEF IsFunction
<1>3. /\ IsFunction(y.bills) /\ DOMAIN y.bills \subseteq DOMAIN z.bills \cup {t}
      /\ \A u \in DOMAIN y.bills : IsNew(y.bills[u])
  <2>1. CASE y.bills = z.bills
    BY <1>1, <2>1 DEF Sweeping
  <2>2. ASSUME NEW bill, IsNew(bill), y.bills = With(z.bills, t, bill)
        PROVE  /\ IsFunction(y.bills) /\ DOMAIN y.bills \subseteq DOMAIN z.bills \cup {t}
               /\ \A u \in DOMAIN y.bills : IsNew(y.bills[u])
    <3>1. /\ IsFunction(y.bills) /\ DOMAIN y.bills = DOMAIN z.bills \cup {t}
          /\ \A u \in DOMAIN y.bills : y.bills[u] = IF u = t THEN bill ELSE z.bills[u]
      BY <2>2 DEF With, IsFunction
    <3>2. QED
      BY <2>2, <3>1 DEF Sweeping
  <2>3. QED
    BY <2>1, <2>2
<1>4. \A u \in DOMAIN y.image :
        /\ IsRunning(y.image[u])
        /\ y.rows[u] = IF u \in y.todo THEN y.image[u] ELSE RollOver(y.image[u])
  BY <1>1, <1>2 DEF Sweeping
<1>5. QED
  BY <1>1, <1>2, <1>3, <1>4 DEF Sweeping

LEMMA InvoiceOfIsNew ==
    ASSUME NEW row, IsRunning(row) PROVE IsNew(InvoiceOf(row, row.end))
<1>1. PICK due \in Nat : due = Price[row.plan]
  BY BillingAssumption DEF IsRunning, IsRow
<1>2. QED
  BY <1>1 DEF InvoiceOf, IsNew, IsInvoice, InvoiceStatus

\* What a sweep has in hand next.
LEMMA GoesOn ==
    ASSUME SubInv, NEW w \in Replicas, NEW t \in sweep[w].todo,
           NEW y, UNCHANGED <<sub, owner, word, raced>>,
           sweep' = [sweep EXCEPT ![w] = y],
           \/ y = Rolled(w, t)
           \/ y = [Rolled(w, t) EXCEPT !.bills = Billed(w, t)]
           \/ y = [Rolled(w, t) EXCEPT !.failed = @ \cup {t}]
    PROVE  /\ Sweeping(y) /\ y.image = sweep[w].image /\ SubInv'
           /\ DOMAIN y.bills \subseteq DOMAIN sweep[w].bills \cup {t}
           /\ \/ y.bills = sweep[w].bills
              \/ y = [Rolled(w, t) EXCEPT !.bills = Billed(w, t)]
<1>1. PICK z : z = sweep[w] /\ Sweeping(z) /\ t \in z.todo
  BY DEF SubInv, Rows
<1>2. PICK r : /\ r = Rolled(w, t)
               /\ r = [z EXCEPT !.stage = "next", !.cur = Nothing, !.todo = @ \ {t},
                                !.rows[t] = RollOver(@)]
  BY <1>1 DEF Rolled
<1>3. /\ r = [stage |-> "next", todo |-> z.todo \ {t}, cur |-> Nothing,
              image |-> z.image, rows |-> [z.rows EXCEPT ![t] = RollOver(@)],
              bills |-> z.bills, failed |-> z.failed]
  <2>1. z = [stage |-> z.stage, todo |-> z.todo, cur |-> z.cur, image |-> z.image,
             rows |-> z.rows, bills |-> z.bills, failed |-> z.failed]
    BY <1>1 DEF Sweeping
  <2>2. QED
    BY <1>2, <2>1
<1>4. PICK bill : IsNew(bill) /\ Billed(w, t) = With(z.bills, t, bill)
  <2>1. IsRunning(z.rows[t])
    BY <1>1 DEF Sweeping
  <2>2. QED
    BY <1>1, <2>1, InvoiceOfIsNew DEF Billed
<1>5. \/ y = r
      \/ y = [r EXCEPT !.bills = With(z.bills, t, bill)]
      \/ y = [r EXCEPT !.failed = @ \cup {t}]
  BY <1>2, <1>4
<1>6. /\ y = [stage |-> y.stage, todo |-> y.todo, cur |-> y.cur, image |-> y.image,
              rows |-> y.rows, bills |-> y.bills, failed |-> y.failed]
      /\ y.stage = "next" /\ y.todo = z.todo \ {t} /\ y.image = z.image
      /\ y.rows = [z.rows EXCEPT ![t] = RollOver(@)]
      /\ y.bills = z.bills \/ y.bills = With(z.bills, t, bill)
  BY <1>3, <1>5
<1>7. Sweeping(y)
  BY <1>1, <1>4, <1>6, RolledSweeps
<1>8. SubInv'
  BY <1>1, <1>6, <1>7, SweepMoves
<1>9. DOMAIN y.bills \subseteq DOMAIN z.bills \cup {t}
  BY <1>6 DEF With
<1>10. y.bills = z.bills \/ y = [Rolled(w, t) EXCEPT !.bills = Billed(w, t)]
  BY <1>2, <1>3, <1>5, <1>4
<1>11. QED
  BY <1>1, <1>6, <1>7, <1>8, <1>9, <1>10

LEMMA SweepGoesOn ==
    ASSUME SubInv, NEW w \in Replicas,
           RollUnbilled(w) \/ Prepare(w) \/ Issue(w) \/ InvoiceFails(w)
    PROVE  SubInv'
<1>1. PICK z : z = sweep[w] /\ Sweeping(z)
  BY DEF SubInv, Rows
<1>2. ASSUME NEW t \in Tenants, IsNext(w, t), UNCHANGED <<sub, owner, word, raced>>,
             sweep' = [sweep EXCEPT ![w] = Rolled(w, t)]
      PROVE  SubInv'
  BY <1>2, GoesOn DEF IsNext
<1>3. CASE RollUnbilled(w)
  BY <1>2, <1>3 DEF RollUnbilled, history
<1>4. CASE Prepare(w)
  <2>1. PICK t \in Tenants : /\ IsNext(w, t) /\ UNCHANGED <<sub, owner, word, raced>>
                             /\ sweep' = [sweep EXCEPT ![w].stage = "insert", ![w].cur = t]
    BY <1>4 DEF Prepare, history
  <2>2. PICK y : y = [z EXCEPT !.stage = "insert", !.cur = t]
    OBVIOUS
  <2>3. sweep' = [sweep EXCEPT ![w] = y]
    BY <1>1, <2>1, <2>2 DEF SubInv, Rows, Sweeping
  <2>4. y = [stage |-> "insert", todo |-> z.todo, cur |-> t, image |-> z.image,
             rows |-> z.rows, bills |-> z.bills, failed |-> z.failed]
    BY <1>1, <2>2 DEF Sweeping
  <2>5. Sweeping(y) /\ y.image = z.image
    BY <1>1, <2>1, <2>4 DEF Sweeping, IsNext
  <2>6. QED
    BY <1>1, <2>1, <2>3, <2>5, SweepMoves
<1>5. CASE Issue(w) \/ InvoiceFails(w)
  <2>1. PICK t \in z.todo :
          /\ t = sweep[w].cur /\ UNCHANGED <<sub, owner, word, raced>>
          /\ \/ sweep' = [sweep EXCEPT ![w] = [Rolled(w, t) EXCEPT !.bills = Billed(w, t)]]
             \/ sweep' = [sweep EXCEPT ![w] = [Rolled(w, t) EXCEPT !.failed = @ \cup {t}]]
    BY <1>1, <1>5 DEF Issue, InvoiceFails, Sweeping, history
  <2>2. QED
    BY <1>1, <2>1, GoesOn
<1>6. QED
  BY <1>3, <1>4, <1>5

LEMMA SweepIsLost ==
    ASSUME SubInv, NEW w \in Replicas, Collide(w) \/ Crash(w) PROVE SubInv'
<1>1. sweep' = [sweep EXCEPT ![w] = Idle] /\ UNCHANGED <<sub, owner, word, raced>>
  BY DEF Collide, Crash, RollBack, history
<1>2. QED
  BY <1>1, IdleSweeps, SweepMoves

\* A sweep that starts reads what is committed, and marks what an owner has read.
LEMMA ReadDueKeeps == ASSUME SubInv, NEW w \in Replicas, ReadDue(w) PROVE SubInv'
<1>1. PICK due, image, z :
        /\ due \subseteq Tenants /\ due = {t \in Tenants : IsDue(t)}
        /\ image = [t \in due |-> sub[t]]
        /\ z = [Idle EXCEPT !.stage = "next", !.todo = due, !.image = image,
                            !.rows = image]
        /\ sweep' = [sweep EXCEPT ![w] = z]
        /\ raced' = raced \cup {t \in due : HeldByOwner(t)}
        /\ UNCHANGED <<sub, owner, word>> /\ sweep[w] = Idle
  BY DEF ReadDue
<1>2. z = [stage |-> "next", todo |-> due, cur |-> Nothing, image |-> image,
           rows |-> image, bills |-> <<>>, failed |-> {}]
  BY <1>1 DEF Idle
<1>3. /\ z.image = image /\ DOMAIN image = due /\ \A t \in due : image[t] = sub[t]
      /\ IsFunction(image)
  BY <1>1, <1>2 DEF IsFunction
<1>4. \A t \in due : IsRunning(sub[t])
  BY <1>1 DEF IsDue, Running, IsTerminal, IsRunning, SubInv, Rows, IsRow, SubscriptionStatus
<1>5. Sweeping(z)
  <2>1. DOMAIN <<>> = {} /\ IsFunction(<<>>)
    BY DEF IsFunction
  <2>2. due \subseteq Tenants
    BY <1>1
  <2>3. QED
    BY <1>2, <1>3, <1>4, <2>1, <2>2 DEF Sweeping
<1>6. /\ sweep'[w] = z /\ \A v \in Replicas : v # w => sweep'[v] = sweep[v]
      /\ sweep' = [v \in Replicas |-> sweep'[v]]
  BY <1>1 DEF SubInv, Rows
<1>7. Rows'
  <2>1. \A v \in Replicas : Sweeping(sweep'[v])
    BY <1>5, <1>6 DEF SubInv, Rows
  <2>2. \A v \in Replicas : \A t \in DOMAIN sweep'[v].image : sub[t].status # "none"
    BY <1>3, <1>4, <1>6 DEF SubInv, Rows, IsRunning
  <2>3. \A o \in Owners : Asking(owner[o])'
    BY <1>1 DEF SubInv, Rows, Asking
  <2>4. QED
    BY <1>1, <1>6, <2>1, <2>2, <2>3 DEF SubInv, Rows
<1>8. ASSUME NEW t \in Tenants \ raced' PROVE Meant(t, sub[t])' /\ Alone(t)'
  <2>1. t \notin raced /\ Meant(t, sub[t]) /\ Alone(t) /\ (t \in due => ~HeldByOwner(t))
    BY <1>1 DEF SubInv
  <2>2. HeldBySweep(t)' => HeldBySweep(t) \/ t \in due
    BY <1>3, <1>6 DEF HeldBySweep
  <2>3. \A o \in Owners : owner[o].on = t => ~HeldBySweep(t)'
    BY <2>1, <2>2 DEF Alone, HeldByOwner
  <2>4. \A v \in Replicas : t \in DOMAIN sweep'[v].image => Meant(t, sweep'[v].image[t])
    BY <1>3, <1>6, <2>1 DEF Alone
  <2>5. QED
    BY <1>1, <2>1, <2>3, <2>4 DEF Alone, Meant
<1>9. QED
  BY <1>1, <1>7, <1>8 DEF SubInv

\* A commit ends what its image says is to end, and leaves the rest of the row.
LEMMA CommitKeeps == ASSUME SubInv, NEW w \in Replicas, Commit(w) PROVE SubInv'
<1>1. PICK z : z = sweep[w] /\ Sweeping(z) /\ z.todo = {}
  BY DEF SubInv, Rows, Commit
<1>2. /\ sub' = [t \in Tenants |-> IF t \in DOMAIN z.image
                    THEN SubWritten(z.image[t], z.rows[t], sub[t]) ELSE sub[t]]
      /\ sweep' = [sweep EXCEPT ![w] = Idle] /\ UNCHANGED <<owner, word, raced>>
  BY <1>1 DEF Commit
<1>3. /\ sweep'[w] = Idle /\ \A v \in Replicas : v # w => sweep'[v] = sweep[v]
      /\ sweep' = [v \in Replicas |-> sweep'[v]]
  BY <1>2 DEF SubInv, Rows
<1>4. ASSUME NEW t \in DOMAIN z.image
      PROVE  /\ t \in Tenants /\ IsRow(sub'[t]) /\ sub'[t].status # "none"
             /\ sub'[t].cancel = sub[t].cancel
             /\ \/ sub'[t].status = sub[t].status
                \/ sub'[t].status = "cancelled" /\ z.image[t].cancel
                \/ /\ sub'[t].status = "expired" /\ ~z.image[t].cancel
                   /\ z.image[t].status = "trialing"
  <2>1. PICK image, rolled, now :
          /\ image = z.image[t] /\ rolled = z.rows[t] /\ now = sub[t]
          /\ rolled = RollOver(image) /\ IsRunning(image) /\ t \in Tenants
          /\ IsRow(now) /\ now.status # "none"
    <3>1. /\ t \in Tenants /\ IsRunning(z.image[t])
          /\ z.rows[t] = RollOver(z.image[t])
      BY <1>1 DEF Sweeping
    <3>2. IsRow(sub[t]) /\ sub[t].status # "none"
      BY <1>1, <3>1 DEF SubInv, Rows
    <3>3. QED
      BY <3>1, <3>2
  <2>2. /\ IsRow(rolled) /\ rolled.status # "none" /\ rolled.cancel = image.cancel
        /\ rolled.status = IF image.cancel THEN "cancelled"
                           ELSE IF image.status = "trialing" THEN "expired"
                           ELSE image.status
    BY <2>1, RollOverIsRow
  <2>3. PICK row : row = sub'[t] /\ row = SubWritten(image, rolled, now)
    BY <1>2, <2>1
  <2>4. /\ IsRow(row) /\ row.status # "none"
        /\ row.status = IF rolled.status = image.status THEN now.status ELSE rolled.status
        /\ row.cancel = IF rolled.cancel = image.cancel THEN now.cancel ELSE rolled.cancel
    BY <2>1, <2>2, <2>3, SubWrittenIsRow DEF IsRunning
  <2>5. QED
    BY <2>1, <2>2, <2>3, <2>4
<1>5. \A t \in Tenants : t \notin DOMAIN z.image => sub'[t] = sub[t]
  BY <1>2
<1>6. /\ \A t \in Tenants : IsRow(sub'[t]) /\ (sub[t].status # "none" => sub'[t].status # "none")
      /\ sub' = [t \in Tenants |-> sub'[t]]
  BY <1>2, <1>4, <1>5 DEF SubInv, Rows
<1>7. Rows'
  <2>1. \A v \in Replicas : Sweeping(sweep'[v])
    BY <1>3, IdleSweeps DEF SubInv, Rows
  <2>2. ASSUME NEW v \in Replicas, NEW t \in DOMAIN sweep'[v].image
        PROVE  sub'[t].status # "none"
    <3>1. v # w /\ t \in DOMAIN sweep[v].image /\ t \in Tenants
      BY <1>3, <2>2, IdleSweeps DEF SubInv, Rows, Sweeping
    <3>2. QED
      BY <1>6, <3>1 DEF SubInv, Rows
  <2>3. \A o \in Owners : Asking(owner[o])'
    BY <1>2, <1>6 DEF SubInv, Rows, Asking
  <2>4. QED
    BY <1>2, <1>3, <1>6, <2>1, <2>2, <2>3 DEF SubInv, Rows
<1>8. ASSUME NEW t \in Tenants \ raced PROVE Meant(t, sub[t])' /\ Alone(t)'
  <2>1. Meant(t, sub[t]) /\ Alone(t)
    BY DEF SubInv
  <2>2. HeldBySweep(t)' => HeldBySweep(t)
    BY <1>3, IdleSweeps DEF HeldBySweep
  <2>3. CASE t \in DOMAIN z.image
    <3>1. Meant(t, z.image[t]) /\ HeldBySweep(t)
      BY <1>1, <2>1, <2>3 DEF Alone, HeldBySweep
    <3>2. Meant(t, sub[t])'
      BY <1>2, <1>4, <2>1, <2>3, <3>1 DEF Meant
    <3>3. \A o \in Owners : owner[o].on # t
      BY <2>1, <3>1 DEF Alone
    <3>4. QED
      BY <1>2, <1>3, <2>1, <3>2, <3>3, IdleSweeps DEF Alone, Meant
  <2>4. CASE t \notin DOMAIN z.image
    BY <1>2, <1>3, <1>5, <2>1, <2>2, <2>4, IdleSweeps DEF Alone, Meant
  <2>5. QED
    BY <2>3, <2>4
<1>9. QED
  BY <1>2, <1>7, <1>8 DEF SubInv

LEMMA SubStays == SubInv /\ UNCHANGED <<sub, owner, sweep, word, raced>> => SubInv'
<1> SUFFICES ASSUME SubInv, UNCHANGED <<sub, owner, sweep, word, raced>> PROVE SubInv'
  OBVIOUS
<1>1. Rows'
  BY DEF SubInv, Rows, Asking
<1>2. \A t \in Tenants : (Meant(t, sub[t])' <=> Meant(t, sub[t])) /\ (Alone(t)' <=> Alone(t))
  BY DEF Alone, Meant, HeldBySweep
<1>3. QED
  BY <1>1, <1>2 DEF SubInv

-----------------------------------------------------------------------------
(* Invoices                                                                *)

\* An invoice has no more paid than was received, and is paid if enough was.
Balances(row) == row.paid <= row.received /\ (row.status = "paid" => row.received >= row.due)
BalancesExactly(row) == row.paid = row.received /\ (row.status = "paid" <=> row.paid >= row.due)

Books ==
    /\ invoice = [t \in Tenants |-> invoice[t]]
    /\ \A t \in Tenants :
        /\ IsFunction(invoice[t])
        /\ \A start \in DOMAIN invoice[t] :
            /\ IsInvoice(invoice[t][start]) /\ Balances(invoice[t][start])
            /\ <<t, start>> \notin raced => BalancesExactly(invoice[t][start])

\* A request that a clerk has begun.
IsTask(task) ==
    /\ task = [op |-> task.op, on |-> task.on, start |-> task.start,
               paid |-> task.paid, status |-> task.status, amount |-> task.amount]
    /\ task.op \in {"idle", "pay", "void"}
    /\ task.op = "idle" => task = NoTask
    /\ task.op # "idle" =>
        /\ task.on \in Tenants
        /\ task.paid \in Nat /\ task.amount \in Nat /\ task.status \in {"open", "paid"}
        /\ task.op = "void" => task.status = "open" /\ task.amount = 0

BelievesNoMore(task, row) ==
    /\ task.paid <= row.received
    /\ task.status = "paid" => row.received >= row.due
Agrees(task, row) == task.paid = row.paid /\ task.status = row.status

\* What a clerk has read of an invoice there still is, and it is all there is
\* unless another has read it too.
Tasked(task) ==
    /\ IsTask(task)
    /\ task.op # "idle" =>
        /\ task.start \in DOMAIN invoice[task.on]
        /\ BelievesNoMore(task, invoice[task.on][task.start])
        /\ \/ <<task.on, task.start>> \in raced
           \/ Agrees(task, invoice[task.on][task.start])

Tasks ==
    /\ clerk = [k \in Clerks |-> clerk[k]]
    /\ \A k \in Clerks : Tasked(clerk[k])
    /\ \A j, k \in Clerks :
        /\ clerk[j].op # "idle" /\ clerk[k].op # "idle"
        /\ clerk[j].on = clerk[k].on /\ clerk[j].start = clerk[k].start
        /\ <<clerk[k].on, clerk[k].start>> \notin raced
        => j = k

\* An invoice a sweep is to commit is of a period that has none, in no other
\* sweep's hands.
Starts(w, t) == sweep[w].image[t].start
Unbilled ==
    \A w \in Replicas : \A t \in DOMAIN sweep[w].bills :
        /\ Starts(w, t) \notin DOMAIN invoice[t]
        /\ \A v \in Replicas : v # w /\ t \in DOMAIN sweep[v].bills => Starts(v, t) # Starts(w, t)

BillingInv == SubInv /\ Books /\ Tasks /\ Unbilled

LEMMA NoTaskIsTasked ==
    Tasked(NoTask) /\ NoTask.op = "idle" /\ NoTask.on \notin Tenants
  BY BillingAssumption DEF Tasked, IsTask, BelievesNoMore, Agrees, NoTask

LEMMA BillingStarts == Init => BillingInv
<1> SUFFICES ASSUME Init PROVE BillingInv
  OBVIOUS
<1>1. SubInv
  BY SubStarts
<1>2. DOMAIN <<>> = {} /\ IsFunction(<<>>)
  BY DEF IsFunction
<1>3. Books
  BY <1>2 DEF Init, Books
<1>4. Tasks
  BY NoTaskIsTasked DEF Init, Tasks
<1>5. Unbilled
  BY IdleSweeps DEF Init, Unbilled
<1>6. QED
  BY <1>1, <1>3, <1>4, <1>5 DEF BillingInv

\* Nothing is said of the invoices that a row two have read could break.
LEMMA BooksStay ==
    ASSUME BillingInv, UNCHANGED <<invoice, clerk>>, raced \subseteq raced'
    PROVE  Books' /\ Tasks'
<1>1. Books'
  BY DEF BillingInv, Books
<1>2. \A k \in Clerks : Tasked(clerk[k])'
  BY DEF BillingInv, Tasks, Tasked
<1>3. QED
  BY <1>1, <1>2 DEF BillingInv, Tasks

LEMMA UnbilledStays ==
    ASSUME BillingInv, NEW w \in Replicas, NEW z, sweep' = [sweep EXCEPT ![w] = z],
           invoice' = invoice,
           \A t \in DOMAIN z.bills :
            \/ t \in DOMAIN sweep[w].bills /\ z.image[t].start = Starts(w, t)
            \/ /\ z.image[t].start \notin DOMAIN invoice[t]
               /\ \A v \in Replicas :
                    v # w /\ t \in DOMAIN sweep[v].bills => Starts(v, t) # z.image[t].start
    PROVE  Unbilled'
<1>1. sweep'[w] = z /\ \A v \in Replicas : v # w => sweep'[v] = sweep[v]
  BY DEF BillingInv, SubInv, Rows
<1>2. ASSUME NEW v \in Replicas, NEW t \in DOMAIN sweep'[v].bills
      PROVE  /\ sweep'[v].image[t].start \notin DOMAIN invoice[t]
             /\ \A u \in Replicas : u # v /\ t \in DOMAIN sweep'[u].bills
                    => sweep'[u].image[t].start # sweep'[v].image[t].start
  <2>1. CASE v = w
    BY <1>1, <1>2, <2>1 DEF BillingInv, Unbilled, Starts
  <2>2. CASE v # w
    BY <1>1, <1>2, <2>2 DEF BillingInv, Unbilled, Starts
  <2>3. QED
    BY <2>1, <2>2
<1>3. QED
  BY <1>2 DEF Unbilled, Starts

LEMMA RequestsBill ==
    ASSUME BillingInv, NEW o \in Owners,
           \/ Write(o)
           \/ \E t \in Tenants :
                \/ \E plan \in Plans : Start(o, t, plan) \/ ChangePlan(o, t, plan)
                \/ CancelAtPeriodEnd(o, t) \/ CancelImmediately(o, t) \/ Resume(o, t)
    PROVE  BillingInv'
<1>1. SubInv'
  BY WriteKeeps, RequestsKeep DEF BillingInv
<1>2. UNCHANGED <<invoice, clerk, sweep>> /\ raced \subseteq raced'
  BY DEF Write, Start, ChangePlan, CancelAtPeriodEnd, CancelImmediately, Resume, Begin
<1>3. Unbilled'
  BY <1>2 DEF BillingInv, Unbilled, Starts
<1>4. QED
  BY <1>1, <1>2, <1>3, BooksStay DEF BillingInv

LEMMA SweepBills ==
    ASSUME BillingInv, NEW w \in Replicas,
           \/ ReadDue(w) \/ RollUnbilled(w) \/ Prepare(w) \/ Issue(w)
           \/ InvoiceFails(w) \/ Collide(w) \/ Crash(w)
    PROVE  BillingInv'
<1>1. SubInv'
  BY ReadDueKeeps, SweepGoesOn, SweepIsLost DEF BillingInv
<1>2. UNCHANGED <<invoice, clerk>> /\ raced \subseteq raced'
  BY DEF ReadDue, RollUnbilled, Prepare, Issue, InvoiceFails, Collide, Crash, RollBack, history
<1>3. PICK z : z = sweep[w] /\ Sweeping(z)
  BY DEF BillingInv, SubInv, Rows
<1>4. CASE ReadDue(w)
  <2>1. PICK due, image, y :
          /\ y = [Idle EXCEPT !.stage = "next", !.todo = due, !.image = image,
                              !.rows = image]
          /\ sweep' = [sweep EXCEPT ![w] = y]
    BY <1>4 DEF ReadDue
  <2>2. DOMAIN y.bills = {}
    BY <2>1 DEF Idle
  <2>3. Unbilled'
    BY <1>2, <2>1, <2>2, UnbilledStays
  <2>4. QED
    BY <1>1, <1>2, <2>3, BooksStay DEF BillingInv
<1>5. CASE Collide(w) \/ Crash(w)
  <2>1. sweep' = [sweep EXCEPT ![w] = Idle]
    BY <1>5 DEF Collide, Crash, RollBack
  <2>2. Unbilled'
    BY <1>2, <2>1, IdleSweeps, UnbilledStays
  <2>3. QED
    BY <1>1, <1>2, <2>2, BooksStay DEF BillingInv
<1>6. CASE Prepare(w)
  <2>1. PICK t : sweep' = [sweep EXCEPT ![w].stage = "insert", ![w].cur = t]
    BY <1>6 DEF Prepare
  <2>2. PICK y : y = [z EXCEPT !.stage = "insert", !.cur = t]
    OBVIOUS
  <2>3. sweep' = [sweep EXCEPT ![w] = y]
    BY <1>3, <2>1, <2>2 DEF BillingInv, SubInv, Rows, Sweeping
  <2>4. y.bills = z.bills /\ y.image = z.image
    BY <1>3, <2>2 DEF Sweeping
  <2>5. Unbilled'
    BY <1>2, <1>3, <2>3, <2>4, UnbilledStays DEF Starts
  <2>6. QED
    BY <1>1, <1>2, <2>5, BooksStay DEF BillingInv
<1>7. CASE RollUnbilled(w) \/ InvoiceFails(w)
  <2>1. PICK t, y :
          /\ t \in z.todo
          /\ sweep' = [sweep EXCEPT ![w] = y] /\ UNCHANGED <<sub, owner, word, raced>>
          /\ y = Rolled(w, t) \/ y = [Rolled(w, t) EXCEPT !.failed = @ \cup {t}]
    BY <1>3, <1>7 DEF RollUnbilled, InvoiceFails, IsNext, Sweeping, history
  <2>2. y.bills = z.bills /\ y.image = z.image
    <3>1. PICK r : /\ r = Rolled(w, t)
                   /\ r = [z EXCEPT !.stage = "next", !.cur = Nothing, !.todo = @ \ {t},
                                    !.rows[t] = RollOver(@)]
      BY <1>3 DEF Rolled
    <3>2. r = [stage |-> "next", todo |-> z.todo \ {t}, cur |-> Nothing,
               image |-> z.image, rows |-> [z.rows EXCEPT ![t] = RollOver(@)],
               bills |-> z.bills, failed |-> z.failed]
      BY <1>3, <3>1 DEF Sweeping
    <3>3. y = r \/ y = [r EXCEPT !.failed = @ \cup {t}]
      BY <2>1, <3>1
    <3>4. QED
      BY <3>2, <3>3
  <2>3. Unbilled'
    BY <1>2, <1>3, <2>1, <2>2, UnbilledStays DEF Starts
  <2>4. QED
    BY <1>1, <1>2, <2>3, BooksStay DEF BillingInv
<1>8. CASE Issue(w)
  <2>1. PICK t, y :
          /\ t \in z.todo
          /\ t = sweep[w].cur /\ UNCHANGED <<sub, owner, word, raced>>
          /\ y = [Rolled(w, t) EXCEPT !.bills = Billed(w, t)]
          /\ sweep' = [sweep EXCEPT ![w] = y]
          /\ z.rows[t].start \notin DOMAIN invoice[t] /\ InTheWay(w) = {}
    BY <1>3, <1>8 DEF Issue, Sweeping, history
  <2>2. y.image = z.image /\ DOMAIN y.bills \subseteq DOMAIN z.bills \cup {t}
    <3>1. SubInv /\ t \in sweep[w].todo
      BY <1>3, <2>1 DEF BillingInv
    <3>2. y.image = sweep[w].image /\ DOMAIN y.bills \subseteq DOMAIN sweep[w].bills \cup {t}
      BY <2>1, <3>1, GoesOn
    <3>3. QED
      BY <1>3, <3>2
  <2>3. z.rows[t] = z.image[t]
    BY <1>3, <2>1 DEF Sweeping
  <2>4. ASSUME NEW v \in Replicas, v # w, t \in DOMAIN sweep[v].bills
        PROVE  Starts(v, t) # z.image[t].start
    <3>1. InTheWay(w) = {} /\ t = sweep[w].cur
      BY <2>1
    <3>2. sweep[v].image[t].start # sweep[w].image[t].start
      BY <2>4, <3>1 DEF InTheWay
    <3>3. QED
      BY <1>3, <3>2 DEF Starts
  <2>5. ASSUME NEW u \in DOMAIN y.bills
        PROVE  \/ u \in DOMAIN sweep[w].bills /\ y.image[u].start = Starts(w, u)
               \/ /\ y.image[u].start \notin DOMAIN invoice[u]
                  /\ \A v \in Replicas :
                       v # w /\ u \in DOMAIN sweep[v].bills => Starts(v, u) # y.image[u].start
    <3>1. CASE u = t
      BY <2>1, <2>2, <2>3, <2>4, <3>1
    <3>2. CASE u \in DOMAIN z.bills
      BY <1>3, <2>2, <3>2 DEF Starts
    <3>3. QED
      BY <2>2, <3>1, <3>2
  <2>6. invoice' = invoice
    BY <1>2
  <2>7. Unbilled'
    BY <2>1, <2>5, <2>6, UnbilledStays
  <2>8. QED
    BY <1>1, <1>2, <2>7, BooksStay DEF BillingInv
<1>9. QED
  BY <1>4, <1>5, <1>6, <1>7, <1>8

\* A commit adds invoices and touches none that is there.
LEMMA CommitBills == ASSUME BillingInv, NEW w \in Replicas, Commit(w) PROVE BillingInv'
<1>1. SubInv'
  BY CommitKeeps DEF BillingInv
<1>2. PICK z : z = sweep[w] /\ Sweeping(z)
  BY DEF BillingInv, SubInv, Rows
<1>3. /\ invoice' = [t \in Tenants |-> IF t \in DOMAIN z.bills
                      THEN With(invoice[t], z.image[t].start, z.bills[t]) ELSE invoice[t]]
      /\ sweep' = [sweep EXCEPT ![w] = Idle] /\ UNCHANGED <<clerk, raced>>
  BY <1>2 DEF Commit
<1>4. ASSUME NEW t \in Tenants
      PROVE  /\ IsFunction(invoice'[t])
             /\ \A start \in DOMAIN invoice[t] :
                    start \in DOMAIN invoice'[t] /\ invoice'[t][start] = invoice[t][start]
             /\ \A start \in DOMAIN invoice'[t] \ DOMAIN invoice[t] :
                    /\ t \in DOMAIN z.bills /\ start = Starts(w, t)
                    /\ IsNew(invoice'[t][start])
  <2>1. CASE t \in DOMAIN z.bills
    <3>1. PICK start, bill :
            /\ start = z.image[t].start /\ bill = z.bills[t] /\ IsNew(bill)
            /\ start \notin DOMAIN invoice[t] /\ start = Starts(w, t)
      BY <1>2, <2>1 DEF Sweeping, BillingInv, Unbilled, Starts
    <3>2. invoice'[t] = [k \in DOMAIN invoice[t] \cup {start} |->
                            IF k = start THEN bill ELSE invoice[t][k]]
      BY <1>3, <2>1, <3>1 DEF With
    <3>3. QED
      BY <2>1, <3>1, <3>2 DEF IsFunction
  <2>2. CASE t \notin DOMAIN z.bills
    BY <1>3, <2>2 DEF BillingInv, Books
  <2>3. QED
    BY <2>1, <2>2
<1>5. Books'
  <2>1. ASSUME NEW t \in Tenants, NEW start \in DOMAIN invoice'[t]
        PROVE  /\ IsInvoice(invoice'[t][start]) /\ Balances(invoice'[t][start])
               /\ <<t, start>> \notin raced => BalancesExactly(invoice'[t][start])
    <3>1. CASE start \in DOMAIN invoice[t]
      BY <1>4, <3>1 DEF BillingInv, Books
    <3>2. CASE start \notin DOMAIN invoice[t]
      <4>1. PICK bill : bill = invoice'[t][start] /\ IsNew(bill)
        BY <1>4, <2>1, <3>2
      <4>2. IsInvoice(bill) /\ Balances(bill) /\ BalancesExactly(bill)
        BY <4>1 DEF IsNew, IsInvoice, Balances, BalancesExactly
      <4>3. QED
        BY <4>1, <4>2
    <3>3. QED
      BY <3>1, <3>2
  <2>2. QED
    BY <1>3, <1>4, <2>1 DEF Books
<1>6. Tasks'
  <2>1. ASSUME NEW k \in Clerks PROVE Tasked(clerk[k])'
    <3>1. Tasked(clerk[k]) /\ clerk'[k] = clerk[k]
      BY <1>3 DEF BillingInv, Tasks
    <3>2. CASE clerk[k].op = "idle"
      BY <3>1, <3>2 DEF Tasked, IsTask, BelievesNoMore, Agrees
    <3>3. CASE clerk[k].op # "idle"
      <4>1. /\ clerk[k].on \in Tenants /\ clerk[k].start \in DOMAIN invoice[clerk[k].on]
            /\ clerk[k].start \in DOMAIN invoice'[clerk[k].on]
            /\ invoice'[clerk[k].on][clerk[k].start] = invoice[clerk[k].on][clerk[k].start]
        BY <1>4, <3>1, <3>3 DEF Tasked, IsTask, BelievesNoMore, Agrees
      <4>2. QED
        BY <1>3, <3>1, <4>1 DEF Tasked, IsTask, BelievesNoMore, Agrees
    <3>4. QED
      BY <3>2, <3>3
  <2>2. QED
    BY <1>3, <2>1 DEF BillingInv, Tasks
<1>7. Unbilled'
  <2>1. sweep'[w] = Idle /\ \A v \in Replicas : v # w => sweep'[v] = sweep[v]
    BY <1>3 DEF BillingInv, SubInv, Rows
  <2>2. ASSUME NEW v \in Replicas, NEW t \in DOMAIN sweep'[v].bills
        PROVE  /\ sweep'[v].image[t].start \notin DOMAIN invoice'[t]
               /\ \A u \in Replicas : u # v /\ t \in DOMAIN sweep'[u].bills
                    => sweep'[u].image[t].start # sweep'[v].image[t].start
    <3>1. v # w /\ sweep'[v] = sweep[v] /\ t \in DOMAIN sweep[v].bills
      BY <2>1, <2>2, IdleSweeps
    <3>2. t \in Tenants
      BY <3>1 DEF BillingInv, SubInv, Rows, Sweeping
    <3>3. /\ Starts(v, t) \notin DOMAIN invoice[t]
          /\ \A u \in Replicas : u # v /\ t \in DOMAIN sweep[u].bills => Starts(u, t) # Starts(v, t)
      BY <3>1 DEF BillingInv, Unbilled
    <3>4. Starts(v, t) \notin DOMAIN invoice'[t]
      BY <1>2, <1>4, <3>1, <3>2, <3>3
    <3>5. QED
      BY <2>1, <3>1, <3>3, <3>4, IdleSweeps DEF Starts
  <2>3. QED
    BY <2>2 DEF Unbilled, Starts
<1>8. QED
  BY <1>1, <1>5, <1>6, <1>7 DEF BillingInv

-----------------------------------------------------------------------------
(* Staff                                                                   *)

\* A clerk who reads while another is at the invoice marks it.
LEMMA TakeKeeps ==
    ASSUME BillingInv, NEW k \in Clerks, NEW t \in Tenants, NEW start \in DOMAIN invoice[t],
           NEW op \in {"pay", "void"}, NEW amount \in Nat, Take(k, op, t, start, amount),
           invoice[t][start].status # "void",
           op = "void" => invoice[t][start].status = "open" /\ amount = 0
    PROVE  BillingInv'
<1>1. PICK row, task :
        /\ row = invoice[t][start]
        /\ task = [op |-> op, on |-> t, start |-> start, paid |-> row.paid,
                   status |-> row.status, amount |-> amount]
        /\ clerk[k] = NoTask /\ clerk' = [clerk EXCEPT ![k] = task]
        /\ raced' = IF \E j \in Clerks : clerk[j].on = t /\ clerk[j].start = start
                    THEN raced \cup {<<t, start>>} ELSE raced
        /\ UNCHANGED <<sub, owner, sweep, word, invoice>>
  BY DEF Take
<1>2. /\ IsInvoice(row) /\ Balances(row) /\ row.status \in {"open", "paid"}
      /\ row.paid \in Nat /\ row.received \in Nat
  BY <1>1 DEF BillingInv, Books, IsInvoice, InvoiceStatus
<1>3. /\ task.op = op /\ task.on = t /\ task.start = start /\ task.paid = row.paid
      /\ task.status = row.status /\ task.amount = amount
      /\ task = [op |-> task.op, on |-> task.on, start |-> task.start,
                 paid |-> task.paid, status |-> task.status, amount |-> task.amount]
  BY <1>1
<1>4. /\ clerk'[k] = task /\ \A j \in Clerks : j # k => clerk'[j] = clerk[j]
      /\ clerk' = [j \in Clerks |-> clerk'[j]] /\ raced \subseteq raced'
  BY <1>1 DEF BillingInv, Tasks
<1>5. SubInv'
  <2>1. Rows'
    BY <1>1 DEF BillingInv, SubInv, Rows, Asking
  <2>2. \A u \in Tenants : (Meant(u, sub[u])' <=> Meant(u, sub[u])) /\ (Alone(u)' <=> Alone(u))
    BY <1>1 DEF Alone, Meant, HeldBySweep
  <2>3. QED
    BY <1>4, <2>1, <2>2 DEF BillingInv, SubInv
<1>6. Books'
  BY <1>1, <1>4 DEF BillingInv, Books
<1>7. Unbilled'
  BY <1>1 DEF BillingInv, Unbilled, Starts
<1>8. Tasked(task)'
  BY <1>1, <1>2, <1>3 DEF Tasked, IsTask, BelievesNoMore, Agrees, Balances
<1>9. \A j \in Clerks : Tasked(clerk[j])'
  <2>1. ASSUME NEW j \in Clerks, j # k PROVE Tasked(clerk[j])'
    BY <1>1, <1>4, <2>1 DEF BillingInv, Tasks, Tasked, IsTask, BelievesNoMore, Agrees
  <2>2. QED
    BY <1>4, <1>8, <2>1
<1>10. ASSUME NEW j \in Clerks, NEW i \in Clerks, clerk'[j].op # "idle", clerk'[i].op # "idle",
              clerk'[j].on = clerk'[i].on, clerk'[j].start = clerk'[i].start,
              <<clerk'[i].on, clerk'[i].start>> \notin raced', j # i
       PROVE  FALSE
  <2>1. CASE j # k /\ i # k
    BY <1>4, <1>10, <2>1 DEF BillingInv, Tasks
  <2>2. CASE j = k \/ i = k
    <3>1. PICK h \in Clerks : /\ h # k /\ clerk[h].on = t /\ clerk[h].start = start
                              /\ <<t, start>> \notin raced'
      BY <1>3, <1>4, <1>10, <2>2
    <3>2. QED
      BY <1>1, <3>1
  <2>3. QED
    BY <2>1, <2>2
<1>11. Tasks'
  BY <1>4, <1>9, <1>10 DEF Tasks
<1>12. QED
  BY <1>5, <1>6, <1>7, <1>11 DEF BillingInv

LEMMA ReadsKeep ==
    ASSUME BillingInv, NEW k \in Clerks, ReadForPayment(k) \/ ReadForVoid(k)
    PROVE  BillingInv'
<1>1. CASE ReadForPayment(k)
  <2>1. Amounts \subseteq Nat
    BY BillingAssumption
  <2>2. QED
    BY <1>1, <2>1, TakeKeeps DEF ReadForPayment
<1>2. CASE ReadForVoid(k)
  BY <1>2, TakeKeeps DEF ReadForVoid, Voidable
<1>3. QED
  BY <1>1, <1>2

\* A payment adds to what is received, and to what its clerk has read as paid.
LEMMA SettledBalances ==
    ASSUME NEW row, IsInvoice(row), NEW task, NEW new, new = Settled(row, task),
           task.paid \in Nat, task.amount \in Nat, task.status \in {"open", "paid"},
           task.paid <= row.received, Balances(row),
           task.status = "paid" => row.received >= row.due
    PROVE  /\ IsInvoice(new) /\ Balances(new) /\ new.due = row.due
           /\ new.received >= row.received
           /\ task.paid = row.paid /\ task.status = row.status /\ BalancesExactly(row)
                => BalancesExactly(new)
<1>1. PICK paid \in Nat, status \in InvoiceStatus :
        /\ paid = task.paid + task.amount
        /\ status = Written(task.status, IF paid >= row.due THEN "paid" ELSE task.status,
                            row.status)
        /\ new = [row EXCEPT !.received = @ + task.amount, !.paid = paid, !.status = status]
  <2>1. PICK paid \in Nat : paid = task.paid + task.amount
    OBVIOUS
  <2>2. PICK status \in InvoiceStatus :
          status = Written(task.status, IF paid >= row.due THEN "paid" ELSE task.status,
                           row.status)
    BY DEF Written, IsInvoice, InvoiceStatus
  <2>3. new = [row EXCEPT !.received = @ + task.amount, !.paid = paid, !.status = status]
    BY <2>1, <2>2 DEF Settled
  <2>4. QED
    BY <2>1, <2>2, <2>3
<1>2. /\ row.due \in Nat /\ row.paid \in Nat /\ row.received \in Nat
      /\ row = [end |-> row.end, due |-> row.due, paid |-> row.paid,
                status |-> row.status, received |-> row.received]
  BY DEF IsInvoice
<1>3. PICK received \in Nat : received = row.received + task.amount
  BY <1>2
<1>4. new = [end |-> row.end, due |-> row.due, paid |-> paid, status |-> status,
             received |-> received]
  BY <1>1, <1>2, <1>3
<1>5. IsInvoice(new) /\ new.due = row.due /\ new.received = received
  BY <1>1, <1>2, <1>3, <1>4 DEF IsInvoice
<1>6. status = "paid" => received >= row.due
  BY <1>1, <1>2, <1>3 DEF Written, Balances
<1>7. Balances(new) /\ new.received >= row.received
  BY <1>1, <1>2, <1>3, <1>4, <1>6 DEF Balances
<1>8. ASSUME task.paid = row.paid, task.status = row.status, BalancesExactly(row)
      PROVE  BalancesExactly(new)
  <2>1. paid = received
    BY <1>1, <1>2, <1>3, <1>8 DEF BalancesExactly
  <2>2. status = "paid" <=> paid >= row.due
    BY <1>1, <1>2, <1>8 DEF BalancesExactly, Written
  <2>3. QED
    BY <1>4, <2>1, <2>2 DEF BalancesExactly
<1>9. QED
  BY <1>5, <1>7, <1>8

LEMMA FinishKeeps == ASSUME BillingInv, NEW k \in Clerks, Finish(k) PROVE BillingInv'
<1>1. PICK t, task, start, row :
        /\ t \in Tenants /\ task = clerk[k] /\ t = task.on /\ start = task.start
        /\ start \in DOMAIN invoice[t]
        /\ row = invoice[t][start] /\ task.op # "idle" /\ Tasked(task)
        /\ clerk' = [clerk EXCEPT ![k] = NoTask]
        /\ UNCHANGED <<sub, owner, sweep, word, raced>>
  <2>1. Tasked(clerk[k]) /\ clerk[k].op # "idle"
    BY DEF Finish, BillingInv, Tasks
  <2>2. clerk[k].on \in Tenants /\ clerk[k].start \in DOMAIN invoice[clerk[k].on]
    BY <2>1 DEF Tasked, IsTask, BelievesNoMore, Agrees
  <2>3. /\ clerk' = [clerk EXCEPT ![k] = NoTask]
        /\ UNCHANGED <<sub, owner, sweep, word, raced>>
    BY DEF Finish, history
  <2>4. QED
    BY <2>1, <2>2, <2>3
<1>2. PICK new :
        /\ new = IF task.op = "pay" THEN Settled(row, task)
                 ELSE [row EXCEPT !.status = "void"]
        /\ invoice' = [invoice EXCEPT ![t][start] = new]
  BY <1>1 DEF Finish
<1>3. /\ IsInvoice(row) /\ Balances(row)
      /\ <<t, start>> \notin raced => BalancesExactly(row)
      /\ IsFunction(invoice[t])
  BY <1>1 DEF BillingInv, Books
<1>4. /\ IsInvoice(new) /\ Balances(new) /\ new.due = row.due
      /\ new.received >= row.received
      /\ <<t, start>> \notin raced => BalancesExactly(new)
  <2>1. /\ task.paid \in Nat /\ task.amount \in Nat /\ task.status \in {"open", "paid"}
        /\ task.paid <= row.received
        /\ task.status = "paid" => row.received >= row.due
        /\ <<t, start>> \notin raced => task.paid = row.paid /\ task.status = row.status
        /\ task.op = "void" => task.status = "open"
        /\ task.op \in {"pay", "void"}
    BY <1>1 DEF Tasked, IsTask, BelievesNoMore, Agrees
  <2>2. CASE task.op = "pay"
    <3>1. new = Settled(row, task)
      BY <1>2, <2>2
    <3>2. QED
      BY <1>3, <2>1, <3>1, SettledBalances
  <2>3. CASE task.op = "void"
    <3>1. new = [row EXCEPT !.status = "void"]
      BY <1>2, <2>3
    <3>2. /\ new.due = row.due /\ new.paid = row.paid /\ new.received = row.received
          /\ new.status = "void" /\ IsInvoice(new)
      BY <1>3, <3>1 DEF IsInvoice, InvoiceStatus
    <3>3. row.received \in Nat /\ row.paid \in Nat /\ row.due \in Nat
      BY <1>3 DEF IsInvoice
    <3>4. QED
      BY <1>3, <2>1, <2>3, <3>2, <3>3 DEF Balances, BalancesExactly
  <2>4. QED
    BY <2>1, <2>2, <2>3
<1>5. /\ invoice'[t] = [invoice[t] EXCEPT ![start] = new]
      /\ \A u \in Tenants : u # t => invoice'[u] = invoice[u]
      /\ invoice' = [u \in Tenants |-> invoice'[u]]
  <2>1. invoice = [u \in Tenants |-> invoice[u]] /\ t \in Tenants
    BY <1>1 DEF BillingInv, Books
  <2>2. QED
    BY <1>2, <2>1
<1>6. /\ \A u \in Tenants : IsFunction(invoice'[u]) /\ DOMAIN invoice'[u] = DOMAIN invoice[u]
      /\ invoice'[t][start] = new
      /\ \A u \in Tenants : \A s \in DOMAIN invoice[u] :
            u # t \/ s # start => invoice'[u][s] = invoice[u][s]
  <2>1. /\ invoice'[t][start] = new /\ DOMAIN invoice'[t] = DOMAIN invoice[t]
        /\ \A s \in DOMAIN invoice[t] : s # start => invoice'[t][s] = invoice[t][s]
        /\ IsFunction(invoice'[t])
    <3>1. start \in DOMAIN invoice[t] /\ invoice[t] = [s \in DOMAIN invoice[t] |-> invoice[t][s]]
      BY <1>1, <1>3 DEF IsFunction
    <3>2. invoice'[t] = [s \in DOMAIN invoice[t] |-> IF s = start THEN new ELSE invoice[t][s]]
      BY <1>5, <3>1
    <3>3. DOMAIN invoice'[t] = DOMAIN invoice[t]
      BY <3>2
    <3>4. IsFunction(invoice'[t])
      BY <3>2, <3>3 DEF IsFunction
    <3>5. QED
      BY <3>1, <3>2, <3>3, <3>4
  <2>2. \A u \in Tenants : u # t => IsFunction(invoice'[u]) /\ invoice'[u] = invoice[u]
    BY <1>5 DEF BillingInv, Books
  <2>3. QED
    BY <2>1, <2>2
<1>7. Books'
  <2>1. ASSUME NEW u \in Tenants, NEW s \in DOMAIN invoice'[u]
        PROVE  /\ IsInvoice(invoice'[u][s]) /\ Balances(invoice'[u][s])
               /\ <<u, s>> \notin raced => BalancesExactly(invoice'[u][s])
    <3>1. CASE u = t /\ s = start
      BY <1>4, <1>6, <3>1
    <3>2. CASE u # t \/ s # start
      BY <1>6, <3>2 DEF BillingInv, Books
    <3>3. QED
      BY <3>1, <3>2
  <2>2. QED
    BY <1>1, <1>5, <1>6, <2>1 DEF Books
<1>8. /\ clerk'[k] = NoTask /\ \A j \in Clerks : j # k => clerk'[j] = clerk[j]
      /\ clerk' = [j \in Clerks |-> clerk'[j]]
  BY <1>1 DEF BillingInv, Tasks
<1>9. ASSUME NEW j \in Clerks PROVE Tasked(clerk[j])'
  <2>1. CASE clerk'[j].op = "idle"
    <3>1. clerk'[j] = NoTask
      BY <1>8, <2>1 DEF BillingInv, Tasks, Tasked, IsTask, BelievesNoMore, Agrees
    <3>2. QED
      BY <3>1, NoTaskIsTasked DEF Tasked, IsTask, BelievesNoMore, Agrees
  <2>2. CASE clerk'[j].op # "idle"
    <3>1. PICK other, u, s :
            /\ u \in Tenants /\ other = clerk[j] /\ clerk'[j] = other /\ j # k /\ Tasked(other)
            /\ u = other.on /\ s = other.start /\ s \in DOMAIN invoice[u]
      <4>1. j # k /\ clerk'[j] = clerk[j] /\ Tasked(clerk[j])
        BY <1>8, <2>2, NoTaskIsTasked DEF BillingInv, Tasks
      <4>2. clerk[j].on \in Tenants /\ clerk[j].start \in DOMAIN invoice[clerk[j].on]
        BY <2>2, <4>1 DEF Tasked, IsTask, BelievesNoMore, Agrees
      <4>3. QED
        BY <4>1, <4>2
    <3>2. CASE u = t /\ s = start
      <4>1. <<u, s>> \in raced
        BY <1>1, <2>2, <3>1, <3>2 DEF BillingInv, Tasks
      <4>2. invoice'[u][s] = new /\ invoice[u][s] = row
        BY <1>1, <1>6, <3>2
      <4>3. BelievesNoMore(other, new)
        <5>1. /\ other.paid \in Nat /\ other.paid <= row.received
              /\ other.status = "paid" => row.received >= row.due
          BY <2>2, <3>1, <4>2 DEF Tasked, IsTask, BelievesNoMore, Agrees
        <5>2. /\ row.received \in Nat /\ new.received \in Nat /\ new.due = row.due
              /\ new.received >= row.received /\ row.due \in Nat
          BY <1>3, <1>4 DEF IsInvoice
        <5>3. QED
          BY <5>1, <5>2 DEF BelievesNoMore
      <4>4. raced' = raced /\ s \in DOMAIN invoice'[u]
        BY <1>1, <1>6, <3>1
      <4>5. QED
        BY <2>2, <3>1, <3>2, <4>1, <4>2, <4>3, <4>4 DEF Tasked
    <3>3. CASE u # t \/ s # start
      <4>1. invoice'[u][s] = invoice[u][s]
        BY <1>6, <3>1, <3>3
      <4>2. raced' = raced /\ s \in DOMAIN invoice'[u]
        BY <1>1, <1>6, <3>1
      <4>3. QED
        BY <2>2, <3>1, <4>1, <4>2 DEF Tasked
    <3>4. QED
      BY <3>2, <3>3
  <2>3. QED
    BY <2>1, <2>2
<1>10. Tasks'
  BY <1>1, <1>8, <1>9, NoTaskIsTasked, SMTT(30) DEF BillingInv, Tasks
<1>11. SubInv'
  BY <1>1, SubStays DEF BillingInv
<1>12. Unbilled'
  <2>1. ASSUME NEW w \in Replicas, NEW u \in DOMAIN sweep[w].bills
        PROVE  /\ Starts(w, u) \notin DOMAIN invoice'[u]
               /\ \A v \in Replicas : v # w /\ u \in DOMAIN sweep[v].bills
                    => Starts(v, u) # Starts(w, u)
    <3>1. u \in Tenants
      BY <2>1 DEF BillingInv, SubInv, Rows, Sweeping
    <3>2. QED
      BY <1>6, <2>1, <3>1 DEF BillingInv, Unbilled
  <2>2. QED
    BY <1>1, <2>1 DEF Unbilled, Starts
<1>13. QED
  BY <1>7, <1>10, <1>11, <1>12 DEF BillingInv

-----------------------------------------------------------------------------

LEMMA BillingStepKeeps == BillingInv /\ [Next]_vars => BillingInv'
<1> SUFFICES ASSUME BillingInv, [Next]_vars PROVE BillingInv'
  OBVIOUS
<1>1. ASSUME UNCHANGED <<sub, invoice, sweep, owner, clerk, word, raced>>
      PROVE  BillingInv'
  <2>1. SubInv'
    BY <1>1, SubStays DEF BillingInv
  <2>2. Unbilled'
    BY <1>1 DEF BillingInv, Unbilled, Starts
  <2>3. QED
    BY <1>1, <2>1, <2>2, BooksStay DEF BillingInv
<1>2. CASE \E o \in Owners, t \in Tenants :
            \/ \E plan \in Plans : Start(o, t, plan) \/ ChangePlan(o, t, plan)
            \/ CancelAtPeriodEnd(o, t) \/ CancelImmediately(o, t) \/ Resume(o, t)
  BY <1>2, RequestsBill
<1>3. CASE \E o \in Owners : Write(o)
  BY <1>3, RequestsBill
<1>4. CASE \E w \in Replicas : SweepStep(w) \/ InvoiceFails(w) \/ Crash(w)
  BY <1>4, SweepBills, CommitBills DEF SweepStep
<1>5. CASE \E k \in Clerks : ReadForPayment(k) \/ ReadForVoid(k) \/ Finish(k)
  BY <1>5, ReadsKeep, FinishKeeps
<1>6. CASE Tick \/ UNCHANGED vars
  BY <1>1, <1>6 DEF Tick, vars, history
<1>7. QED
  BY <1>2, <1>3, <1>4, <1>5, <1>6 DEF Next

LEMMA BillingHolds == Spec => []BillingInv
  BY BillingStarts, BillingStepKeeps, PTL DEF Spec

\* Whoever pays or voids at the same time, an invoice never shows more paid than
\* was received nor is paid with less than was due, and its balance is exact
\* unless two requests had read it at once (InvoiceService._settle and void).
THEOREM BooksAreTrue == Spec => []BooksBalance
<1>1. BillingInv => BooksBalance
  BY DEF BillingInv, Books, BooksBalance, Balances, BalancesExactly
<1>2. QED
  BY <1>1, BillingHolds, PTL

\* A subscription is cancelled only on its owner's last word, and a trial expires
\* only if its owner has neither chosen a plan nor left, on any calendar and
\* whatever sweeps fail or collide, unless reads crossed (roll_over, resume).
THEOREM EndsAsMeant == Spec => []EndsOnlyIfMeant
<1>1. BillingInv => EndsOnlyIfMeant
  BY DEF BillingInv, SubInv, Meant, EndsOnlyIfMeant
<1>2. QED
  BY <1>1, BillingHolds, PTL

-----------------------------------------------------------------------------
(* Days.  A row's period, the periods that follow it and the invoices of a *)
(* workspace lie on one line: every sweep's image is somewhere on it, and  *)
(* an older image only repeats what is there.                              *)

IsPeriod(row) ==
    /\ row.start \in Date /\ row.end \in Date /\ Before(row.start, row.end)
    /\ row.plan \in Plans

\* The days on which the later periods begin, if a period ends on the given one.
Following(end, plan) ==
    {d \in Date : \A S \in SUBSET Date :
        (end \in S /\ \A e \in S : AddInterval(e, plan) \in S) => d \in S}

SamePeriod(x, y) == x.start = y.start /\ x.end = y.end /\ x.plan = y.plan

Precedes(x, y) ==
    /\ y.plan = x.plan
    /\ y.start \in Following(x.end, x.plan)
    /\ y.end = AddInterval(y.start, y.plan)

OnOneLine(x, y) == SamePeriod(x, y) \/ Precedes(x, y) \/ Precedes(y, x)

\* Between the invoices there is room for the row's period, or it is one of them;
\* the later ones are of the periods that follow it.
Joins(row, bills) ==
    \A d \in DOMAIN bills :
        /\ d = row.start => bills[d].end = row.end
        /\ Before(d, row.start) => NotAfter(bills[d].end, row.start)
        /\ Before(row.start, d) =>
            /\ d \in Following(row.end, row.plan)
            /\ bills[d].end = AddInterval(d, row.plan)

Fits(row, bills) == IsPeriod(row) /\ Joins(row, bills)

\* The invoices are of days that are over, and no two of one day.
Invoiced(t) ==
    /\ \A d \in DOMAIN invoice[t] :
        /\ d \in Date /\ invoice[t][d].end \in Date
        /\ Before(d, invoice[t][d].end) /\ NotAfter(invoice[t][d].end, today)
    /\ \A d, e \in DOMAIN invoice[t] : Before(d, e) => NotAfter(invoice[t][d].end, e)

Covered(t, until) ==
    \A d \in Date :
        (NotAfter(billedFrom[t], d) /\ Before(d, until)) => Covering(t, d) # {}

Current(t) ==
    /\ sub[t].start \in Date /\ billedFrom[t] \in Date
    /\ Covered(t, sub[t].start)
    /\ sub[t].status = "active" => Fits(sub[t], invoice[t])

\* A row a sweep has read: its days are over, and it is on the line of the row
\* that is there now, perhaps behind it.
Seen(row, t) ==
    row.status = "active" =>
        /\ Fits(row, invoice[t]) /\ NotAfter(row.end, today)
        /\ Covered(t, row.start)
        /\ sub[t].status = "active" => OnOneLine(row, sub[t])

\* A sweep has invoiced the tenants it is through with, or could not, or need not.
Done(z, t) ==
    LET row == z.image[t] IN
    /\ row.status = "active" =>
        /\ t \in DOMAIN z.bills => z.bills[t].end = row.end
        /\ \/ t \in z.todo \/ t \in DOMAIN z.bills \/ t \in z.failed
           \/ row.start \in DOMAIN invoice[t]
    /\ t \in DOMAIN z.bills \cup z.failed => row.status = "active"
    /\ z.stage = "insert" /\ z.cur = t => row.status = "active"

Asked(q, t) ==
    /\ q.write.start = IF q.op \in {"start", "choose"} THEN today ELSE sub[t].start
    /\ q.write.status = "active" => Fits(q.write, invoice[t])

Orderly(t) ==
    /\ Invoiced(t) /\ Current(t)
    /\ \A w \in Replicas : t \in DOMAIN sweep[w].image =>
        Seen(sweep[w].image[t], t) /\ Done(sweep[w], t)
    /\ \A v, w \in Replicas :
        (/\ t \in DOMAIN sweep[v].image /\ sweep[v].image[t].status = "active"
         /\ t \in DOMAIN sweep[w].image /\ sweep[w].image[t].status = "active")
        => OnOneLine(sweep[v].image[t], sweep[w].image[t])
    /\ \A o \in Owners : owner[o].on = t => Asked(owner[o], t)

DayInv ==
    /\ today \in Date /\ billedFrom = [t \in Tenants |-> billedFrom[t]]
    /\ \A w \in Replicas : sweep[w].failed \subseteq DOMAIN sweep[w].image
    /\ \A t \in Tenants \ raced : Orderly(t)

(* The calendar                                                            *)

LEMMA DaysInIsNat == ASSUME NEW m \in Nat PROVE DaysIn(m) \in Nat
<1>1. Year \in Nat /\ Year > 0
  BY BillingAssumption DEF Year
<1>2. m % Year \in 0..(Year - 1)
  BY <1>1
<1>3. (m % Year) + 1 \in 1..Len(MonthLengths)
  BY <1>1, <1>2 DEF Year
<1>4. MonthLengths[(m % Year) + 1] \in Nat \ {0}
  BY <1>3, BillingAssumption
<1>. QED
  BY <1>4 DEF DaysIn

\* An interval takes a date to a later one, whatever the months.
LEMMA AddIntervalIsLater ==
    ASSUME NEW d \in Date, NEW plan
    PROVE  AddInterval(d, plan) \in Date /\ Before(d, AddInterval(d, plan))
<1>1. PICK n : n = d.month + (IF plan \in Yearly THEN Year ELSE 1)
  OBVIOUS
<1>2. n \in Nat /\ n > d.month
  <2>1. Year \in Nat /\ Year > 0
    BY BillingAssumption DEF Year
  <2>. QED
    BY <1>1, <2>1 DEF Date
<1>3. DaysIn(n) \in Nat
  BY <1>2, DaysInIsNat
<1>4. AddInterval(d, plan) =
        [month |-> n, day |-> IF d.day <= DaysIn(n) THEN d.day ELSE DaysIn(n)]
  BY <1>1 DEF AddInterval, SameDay
<1>5. (IF d.day <= DaysIn(n) THEN d.day ELSE DaysIn(n)) \in Nat
  BY <1>3 DEF Date
<1>. QED
  BY <1>2, <1>4, <1>5 DEF Date, Before

LEMMA NextDayIsLater ==
    ASSUME NEW d \in Date PROVE NextDay(d) \in Date /\ Before(d, NextDay(d))
  BY DEF NextDay, Date, Before

LEMMA DatesInOrder ==
    ASSUME NEW d \in Date, NEW e \in Date
    PROVE  /\ d = e \/ Before(d, e) \/ Before(e, d)
           /\ ~(Before(d, e) /\ NotAfter(e, d))
           /\ ~Before(d, d)
           /\ NotAfter(d, e) <=> ~Before(e, d)
<1>1. d = e <=> d.month = e.month /\ d.day = e.day
  BY DEF Date
<1>. QED
  BY <1>1 DEF Date, Before, NotAfter

LEMMA BeforeIsTransitive ==
    ASSUME NEW d \in Date, NEW e \in Date, NEW f \in Date
    PROVE  /\ Before(d, e) /\ Before(e, f) => Before(d, f)
           /\ Before(d, e) /\ NotAfter(e, f) => Before(d, f)
           /\ NotAfter(d, e) /\ Before(e, f) => Before(d, f)
           /\ NotAfter(d, e) /\ NotAfter(e, f) => NotAfter(d, f)
<1>1. Before(d, e) /\ Before(e, f) => Before(d, f)
  BY DEF Date, Before
<1>. QED
  BY <1>1 DEF NotAfter

(* The line of periods                                                     *)

\* A period and the one that follows it.
LEMMA FollowingIsClosed ==
    ASSUME NEW end \in Date, NEW plan
    PROVE  /\ end \in Following(end, plan)
           /\ \A d \in Following(end, plan) :
                /\ d \in Date /\ AddInterval(d, plan) \in Following(end, plan)
                /\ NotAfter(end, d)
<1>1. end \in Following(end, plan)
  BY DEF Following
<1>2. ASSUME NEW d \in Following(end, plan)
      PROVE  d \in Date /\ AddInterval(d, plan) \in Following(end, plan)
  <2>1. d \in Date /\ AddInterval(d, plan) \in Date
    BY <1>2, AddIntervalIsLater DEF Following
  <2>2. ASSUME NEW S \in SUBSET Date, end \in S, \A e \in S : AddInterval(e, plan) \in S
        PROVE  AddInterval(d, plan) \in S
    <3>1. d \in S
      BY <1>2, <2>2 DEF Following
    <3>. QED
      BY <2>2, <3>1
  <2>. QED
    BY <2>1, <2>2 DEF Following
<1>3. ASSUME NEW d \in Following(end, plan) PROVE NotAfter(end, d)
  <2> DEFINE S == {e \in Date : NotAfter(end, e)}
  <2>1. S \in SUBSET Date /\ end \in S
    BY DEF NotAfter
  <2>2. ASSUME NEW e \in S PROVE AddInterval(e, plan) \in S
    <3>1. e \in Date /\ NotAfter(end, e)
      OBVIOUS
    <3>2. AddInterval(e, plan) \in Date /\ Before(e, AddInterval(e, plan))
      BY <3>1, AddIntervalIsLater
    <3>3. NotAfter(end, AddInterval(e, plan))
      BY <3>1, <3>2, BeforeIsTransitive DEF NotAfter
    <3>. QED
      BY <3>2, <3>3
  <2>3. d \in S
    <3> HIDE DEF S
    <3>. QED
      BY <1>3, <2>1, <2>2 DEF Following
  <2>. QED
    BY <2>3
<1>. QED
  BY <1>1, <1>2, <1>3

LEMMA FollowingSplits ==
    ASSUME NEW end \in Date, NEW plan, NEW d \in Following(end, plan)
    PROVE  d = end \/ d \in Following(AddInterval(end, plan), plan)
<1> DEFINE next == AddInterval(end, plan)
<1> DEFINE S == {end} \cup Following(next, plan)
<1>1. next \in Date
  BY AddIntervalIsLater
<1> HIDE DEF next
<1>2. S \in SUBSET Date /\ end \in S
  BY DEF Following
<1>3. \A e \in S : AddInterval(e, plan) \in S
  BY <1>1, FollowingIsClosed DEF next
<1>4. d \in S
  <2> HIDE DEF S
  <2>. QED
    BY <1>2, <1>3 DEF Following
<1>. QED
  BY <1>4 DEF next

Succeeds(y, x) ==
    y.start = x.end /\ y.end = AddInterval(x.end, x.plan) /\ y.plan = x.plan

AreDates(bills) == \A d \in DOMAIN bills : d \in Date /\ bills[d].end \in Date

LEMMA NextFits ==
    ASSUME NEW x, NEW y, NEW bills, Fits(x, bills), Succeeds(y, x), AreDates(bills)
    PROVE  Fits(y, bills)
<1>1. /\ x.start \in Date /\ x.end \in Date /\ Before(x.start, x.end) /\ x.plan \in Plans
      /\ y.start = x.end /\ y.plan = x.plan
      /\ y.end \in Date /\ Before(y.start, y.end) /\ y.end = AddInterval(x.end, x.plan)
  BY AddIntervalIsLater DEF Fits, IsPeriod, Succeeds
<1>2. ASSUME NEW d \in DOMAIN bills
      PROVE  /\ d = y.start => bills[d].end = y.end
             /\ Before(d, y.start) => NotAfter(bills[d].end, y.start)
             /\ Before(y.start, d) =>
                  /\ d \in Following(y.end, y.plan)
                  /\ bills[d].end = AddInterval(d, y.plan)
  <2>1. d \in Date /\ bills[d].end \in Date
    BY DEF AreDates
  <2>2. /\ d = x.start => bills[d].end = x.end
        /\ Before(d, x.start) => NotAfter(bills[d].end, x.start)
        /\ Before(x.start, d) =>
             d \in Following(x.end, x.plan) /\ bills[d].end = AddInterval(d, x.plan)
    BY DEF Fits, Joins
  <2>3. CASE Before(x.start, d)
    <3>1. d = x.end \/ d \in Following(y.end, y.plan)
      BY <1>1, <2>2, <2>3, FollowingSplits
    <3>2. CASE d = x.end
      <4>1. bills[d].end = y.end
        BY <1>1, <2>2, <2>3, <3>2
      <4>2. ~Before(d, y.start) /\ ~Before(y.start, d)
        BY <1>1, <2>1, <3>2, DatesInOrder
      <4>. QED
        BY <4>1, <4>2
    <3>3. CASE d \in Following(y.end, y.plan)
      <4>1. NotAfter(y.end, d)
        BY <1>1, <3>3, FollowingIsClosed
      <4>2. Before(y.start, d)
        BY <1>1, <2>1, <4>1, BeforeIsTransitive
      <4>3. y.start \in Date /\ NotAfter(y.start, d)
        BY <1>1, <4>2 DEF NotAfter
      <4>4. ~Before(d, y.start)
        BY <2>1, <4>3, DatesInOrder
      <4>5. d # y.start
        BY <4>2, <4>3, DatesInOrder
      <4>. QED
        BY <1>1, <2>2, <2>3, <3>3, <4>2, <4>4, <4>5
    <3>. QED
      BY <3>1, <3>2, <3>3
  <2>4. CASE ~Before(x.start, d)
    <3>1. Before(d, y.start)
      BY <1>1, <2>1, <2>4, DatesInOrder, BeforeIsTransitive
    <3>2. NotAfter(bills[d].end, y.start)
      BY <1>1, <2>1, <2>2, <2>4, DatesInOrder, BeforeIsTransitive DEF NotAfter
    <3>3. y.start \in Date /\ NotAfter(d, y.start)
      BY <1>1, <3>1 DEF NotAfter
    <3>4. ~Before(y.start, d)
      BY <2>1, <3>3, DatesInOrder
    <3>5. d # y.start
      BY <3>1, <3>3, DatesInOrder
    <3>. QED
      BY <3>2, <3>4, <3>5
  <2>. QED
    BY <2>3, <2>4
<1>. QED
  BY <1>1, <1>2 DEF Fits, IsPeriod, Joins

LEMMA NextOnLine ==
    ASSUME NEW x, NEW y, NEW z, IsPeriod(x), IsPeriod(z), Succeeds(y, x), OnOneLine(x, z)
    PROVE  OnOneLine(y, z)
<1>1. /\ x.start \in Date /\ x.end \in Date /\ z.start \in Date /\ z.end \in Date
      /\ y.start = x.end /\ y.plan = x.plan /\ y.end = AddInterval(x.end, x.plan)
  BY DEF IsPeriod, Succeeds
<1>2. CASE SamePeriod(x, z)
  <2>1. y.start \in Following(z.end, z.plan)
    BY <1>1, <1>2, FollowingIsClosed DEF SamePeriod
  <2>. QED
    BY <1>1, <1>2, <2>1 DEF SamePeriod, Precedes, OnOneLine
<1>3. CASE Precedes(x, z)
  <2>1. z.start = x.end \/ z.start \in Following(y.end, y.plan)
    BY <1>1, <1>3, FollowingSplits DEF Precedes
  <2>2. CASE z.start = x.end
    BY <1>1, <1>3, <2>2 DEF SamePeriod, Precedes, OnOneLine
  <2>3. CASE z.start \in Following(y.end, y.plan)
    BY <1>1, <1>3, <2>3 DEF Precedes, OnOneLine
  <2>. QED
    BY <2>1, <2>2, <2>3
<1>4. CASE Precedes(z, x)
  <2>1. /\ x.start \in Following(z.end, z.plan) /\ x.plan = z.plan
        /\ x.end = AddInterval(x.start, z.plan)
    BY <1>4 DEF Precedes
  <2>2. x.end \in Following(z.end, z.plan)
    BY <1>1, <2>1, FollowingIsClosed
  <2>. QED
    BY <1>1, <2>1, <2>2 DEF Precedes, OnOneLine
<1>. QED
  BY <1>2, <1>3, <1>4 DEF OnOneLine

\* The invoice of a row on the line finds its place among the others.
LEMMA MoreFits ==
    ASSUME NEW x, NEW z, NEW bills, NEW more, IsPeriod(x), Fits(z, bills),
           OnOneLine(x, z), DOMAIN more = DOMAIN bills \cup {x.start},
           \A d \in DOMAIN bills : d # x.start => more[d].end = bills[d].end,
           more[x.start].end = x.end
    PROVE  Fits(z, more)
<1>1. /\ x.start \in Date /\ x.end \in Date /\ z.start \in Date /\ z.end \in Date
      /\ Before(x.start, x.end) /\ Before(z.start, z.end)
  BY DEF IsPeriod, Fits
<1>2. /\ x.start = z.start => x.end = z.end
      /\ Before(x.start, z.start) => NotAfter(x.end, z.start)
      /\ Before(z.start, x.start) =>
           x.start \in Following(z.end, z.plan) /\ x.end = AddInterval(x.start, z.plan)
  <2>1. CASE SamePeriod(x, z)
    BY <1>1, <2>1, DatesInOrder DEF SamePeriod
  <2>2. CASE Precedes(x, z)
    <3>1. NotAfter(x.end, z.start)
      BY <1>1, <2>2, FollowingIsClosed DEF Precedes
    <3>2. Before(x.start, z.start)
      BY <1>1, <3>1, BeforeIsTransitive
    <3>. QED
      BY <1>1, <3>1, <3>2, DatesInOrder DEF NotAfter
  <2>3. CASE Precedes(z, x)
    <3>1. /\ x.start \in Following(z.end, z.plan) /\ x.end = AddInterval(x.start, z.plan)
          /\ NotAfter(z.end, x.start)
      BY <1>1, <2>3, FollowingIsClosed DEF Precedes
    <3>2. Before(z.start, x.start)
      BY <1>1, <3>1, BeforeIsTransitive
    <3>. QED
      BY <1>1, <3>1, <3>2, DatesInOrder DEF NotAfter
  <2>. QED
    BY <2>1, <2>2, <2>3 DEF OnOneLine
<1>3. Joins(z, more)
  <2>1. ASSUME NEW d \in DOMAIN more
        PROVE  /\ d = z.start => more[d].end = z.end
               /\ Before(d, z.start) => NotAfter(more[d].end, z.start)
               /\ Before(z.start, d) =>
                    d \in Following(z.end, z.plan) /\ more[d].end = AddInterval(d, z.plan)
    <3>1. CASE d = x.start
      BY <1>2, <3>1
    <3>2. CASE d # x.start
      BY <3>2 DEF Fits, Joins
    <3>. QED
      BY <3>1, <3>2
  <2>. QED
    BY <2>1 DEF Joins
<1>. QED
  BY <1>3 DEF Fits

\* A commit writes the later period of a row it found as it had read it or ahead.
LEMMA WrittenMoves ==
    ASSUME NEW image, NEW now, NEW row, IsRunning(image), IsRow(now),
           row = SubWritten(image, RollOver(image), now)
    PROVE  /\ (image.status = "active" /\ ~image.cancel /\ IsPeriod(image)) =>
                /\ row.start = image.end
                /\ row.end = AddInterval(image.end, image.plan)
                /\ row.plan = now.plan /\ row.status = now.status
           /\ ~(image.status = "active" /\ ~image.cancel) => row.start = now.start
<1>1. PICK new : new = RollOver(image)
  OBVIOUS
<1>2. /\ row.status = IF new.status = image.status THEN now.status ELSE new.status
      /\ row.plan = IF new.plan = image.plan THEN now.plan ELSE new.plan
      /\ row.start = IF new.start = image.start THEN now.start ELSE new.start
      /\ row.end = IF new.end = image.end THEN now.end ELSE new.end
  <2>1. row = [column \in {"status", "plan", "start", "end", "cancel"} |->
                  IF new[column] = image[column] THEN now[column] ELSE new[column]]
    BY <1>1 DEF SubWritten, Written, IsRow, IsRunning
  <2>. QED
    BY <2>1
<1>3. CASE image.status = "active" /\ ~image.cancel /\ IsPeriod(image)
  <2>1. /\ new.start = image.end /\ new.end = AddInterval(image.end, image.plan)
        /\ new.plan = image.plan /\ new.status = image.status
    BY <1>1, <1>3 DEF RollOver, IsRow, IsRunning
  <2>2. new.start # image.start /\ new.end # image.end
    BY <1>3, <2>1, AddIntervalIsLater, DatesInOrder DEF IsPeriod
  <2>. QED
    BY <1>2, <1>3, <2>1, <2>2
<1>4. CASE ~(image.status = "active" /\ ~image.cancel)
  <2>1. CASE image.cancel
    BY <1>1, <1>2, <1>4, <2>1 DEF RollOver, IsRow, IsRunning
  <2>2. CASE ~image.cancel /\ image.status = "trialing"
    BY <1>1, <1>2, <1>4, <2>2 DEF RollOver, IsRow, IsRunning
  <2>. QED
    BY <1>4, <2>1, <2>2 DEF IsRunning
<1>. QED
  BY <1>3, <1>4

LEMMA SameFits ==
    ASSUME NEW x, NEW y, NEW bills, SamePeriod(x, y), Fits(x, bills) PROVE Fits(y, bills)
  BY DEF SamePeriod, Fits, IsPeriod, Joins

\* A period that begins today comes after everything that was invoiced.
LEMMA FreshFits ==
    ASSUME NEW t, Invoiced(t), today \in Date, NEW plan \in Plans, NEW row,
           row.start = today, row.end = AddInterval(today, plan), row.plan = plan
    PROVE  Fits(row, invoice[t])
<1>1. IsPeriod(row)
  BY AddIntervalIsLater DEF IsPeriod
<1>2. ASSUME NEW d \in DOMAIN invoice[t]
      PROVE  d # today /\ ~Before(today, d) /\ NotAfter(invoice[t][d].end, today)
  <2>1. /\ d \in Date /\ invoice[t][d].end \in Date /\ Before(d, invoice[t][d].end)
        /\ NotAfter(invoice[t][d].end, today)
    BY DEF Invoiced
  <2>2. Before(d, today)
    BY <2>1, BeforeIsTransitive
  <2>. QED
    BY <2>1, <2>2, DatesInOrder DEF NotAfter
<1>3. Joins(row, invoice[t])
  BY <1>2 DEF Joins
<1>. QED
  BY <1>1, <1>3 DEF Fits

\* A step that leaves a tenant's row and the days of its invoices as they are.
Still(t) ==
    /\ sub'[t] = sub[t] /\ billedFrom'[t] = billedFrom[t]
    /\ DOMAIN invoice'[t] = DOMAIN invoice[t]
    /\ \A d \in DOMAIN invoice[t] : invoice'[t][d].end = invoice[t][d].end

LEMMA StillCovered ==
    ASSUME NEW t, Still(t), NEW until PROVE Covered(t, until) => Covered(t, until)'
  BY DEF Still, Covered, Covering

LEMMA StillFits ==
    ASSUME NEW t, Still(t), NEW row
    PROVE  Fits(row, invoice[t]) => Fits(row, invoice'[t])
  BY DEF Still, Fits, Joins

LEMMA StillCurrent == ASSUME NEW t, Still(t), Current(t) PROVE Current(t)'
<1>1. PICK row : row = sub[t] /\ row = sub'[t]
  BY DEF Still
<1>2. Covered(t, row.start) /\ (row.status = "active" => Fits(row, invoice[t]))
  BY <1>1 DEF Current
<1>3. Covered(t, row.start)'
  BY <1>2, StillCovered
<1>4. row.status = "active" => Fits(row, invoice'[t])
  BY <1>2, StillFits
<1>. QED
  BY <1>1, <1>3, <1>4 DEF Still, Current

LEMMA StillInvoiced ==
    ASSUME NEW t, Still(t), Invoiced(t), today \in Date, today' \in Date,
           NotAfter(today, today')
    PROVE  Invoiced(t)'
<1>1. ASSUME NEW d \in DOMAIN invoice[t]
      PROVE  NotAfter(invoice[t][d].end, today')
  <2>1. invoice[t][d].end \in Date /\ NotAfter(invoice[t][d].end, today)
    BY DEF Invoiced
  <2>. QED
    BY <2>1, BeforeIsTransitive
<1>2. /\ DOMAIN invoice'[t] = DOMAIN invoice[t]
      /\ \A d \in DOMAIN invoice[t] : invoice'[t][d].end = invoice[t][d].end
  BY DEF Still
<1>. QED
  BY <1>1, <1>2 DEF Invoiced

LEMMA StillSeen ==
    ASSUME NEW t, Still(t), today' = today, NEW row, Seen(row, t) PROVE Seen(row, t)'
<1>1. CASE row.status = "active"
  <2>1. Fits(row, invoice'[t]) /\ Covered(t, row.start)'
    BY <1>1, StillFits, StillCovered DEF Seen
  <2>. QED
    BY <1>1, <2>1 DEF Seen, Still
<1>. QED
  BY <1>1 DEF Seen

\* Of an owner's request nothing changes while the row and the day stay.
LEMMA StillAsked ==
    ASSUME NEW t, Still(t), today' = today, NEW q, Asked(q, t) PROVE Asked(q, t)'
<1>1. q.write.status = "active" => Fits(q.write, invoice'[t])
  BY StillFits DEF Asked
<1>. QED
  BY <1>1 DEF Asked, Still

LEMMA StillDone ==
    ASSUME NEW t, Still(t), NEW z, Done(z, t) PROVE Done(z, t)'
  BY DEF Done, Still

\* Where a tenant's row is left alone, its sweeps and requests are what they were
\* or are vouched for.
LEMMA OrderlyStays ==
    ASSUME NEW t \in Tenants, Orderly(t), Still(t), today \in Date, today' = today,
           \A w \in Replicas : t \in DOMAIN sweep'[w].image =>
                /\ t \in DOMAIN sweep[w].image /\ sweep'[w].image[t] = sweep[w].image[t]
                /\ sweep'[w] = sweep[w] \/ Done(sweep'[w], t),
           \A o \in Owners : owner'[o].on = t => owner'[o] = owner[o] \/ Asked(owner'[o], t)
    PROVE  Orderly(t)'
<1>1. Invoiced(t)' /\ Current(t)'
  BY StillInvoiced, StillCurrent DEF Orderly, NotAfter
<1>2. ASSUME NEW w \in Replicas, t \in DOMAIN sweep'[w].image
      PROVE  Seen(sweep[w].image[t], t)' /\ Done(sweep[w], t)'
  <2>1. PICK row, z : row = sweep[w].image[t] /\ row = sweep'[w].image[t] /\ z = sweep'[w]
    BY <1>2
  <2>2. Seen(row, t) /\ Done(z, t)
    BY <1>2, <2>1 DEF Orderly
  <2>3. Seen(row, t)' /\ Done(z, t)'
    BY <2>2, StillSeen, StillDone
  <2>. QED
    BY <2>1, <2>3
<1>3. ASSUME NEW o \in Owners, owner'[o].on = t PROVE Asked(owner[o], t)'
  <2>1. PICK q : q = owner'[o]
    OBVIOUS
  <2>2. Asked(q, t)
    BY <1>3, <2>1 DEF Orderly
  <2>3. Asked(q, t)'
    BY <2>2, StillAsked
  <2>. QED
    BY <2>1, <2>3
<1>. QED
  BY <1>1, <1>2, <1>3 DEF Orderly

(* The beginning                                                           *)

LEMMA DayStarts == Init => DayInv
<1> SUFFICES ASSUME Init PROVE DayInv
  OBVIOUS
<1>1. /\ \A w \in Replicas : sweep[w] = Idle
      /\ \A o \in Owners : owner[o] = NoRequest
      /\ \A t \in Tenants : invoice[t] = <<>> /\ billedFrom[t] = sub[t].start
      /\ Idle.failed = {}
  BY DEF Init, Idle
<1>2. today \in Date
  <2>1. DaysIn(0) \in Nat
    BY DaysInIsNat
  <2>. QED
    BY <2>1 DEF Init, Date
<1>3. ASSUME NEW t \in Tenants PROVE Orderly(t)
  <2>1. DOMAIN invoice[t] = {}
    BY <1>1
  <2>2. Invoiced(t)
    BY <2>1 DEF Invoiced
  <2>3. sub[t].start \in Date /\ (sub[t].status = "active" => Fits(sub[t], invoice[t]))
    <3>1. CASE sub[t] = NoSubscription
      BY <3>1, NoSubscriptionIsRow DEF NoSubscription, Dawn, Date
    <3>2. ASSUME NEW plan \in Plans, sub[t] = Started(plan)
          PROVE  sub[t].start \in Date /\ (sub[t].status = "active" => Fits(sub[t], invoice[t]))
      <4>1. /\ sub[t].start = today /\ sub[t].plan = plan
            /\ sub[t].status = "active" => sub[t].end = AddInterval(today, plan)
        BY <3>2 DEF Started
      <4>. QED
        BY <1>2, <2>2, <4>1, FreshFits
    <3>. QED
      BY <3>1, <3>2 DEF Init
  <2>4. Covered(t, sub[t].start)
    BY <1>1, <2>3, DatesInOrder DEF Covered
  <2>5. Current(t)
    BY <1>1, <2>3, <2>4 DEF Current
  <2>. QED
    BY <1>1, <2>2, <2>5, IdleSweeps, NoRequestAsks DEF Orderly
<1>4. billedFrom = [t \in Tenants |-> billedFrom[t]]
  BY DEF Init
<1>. QED
  BY <1>1, <1>2, <1>3, <1>4, IdleSweeps DEF DayInv

(* Owners                                                                  *)

LEMMA BeginIsOrderly ==
    ASSUME BillingInv, DayInv, NEW o \in Owners, NEW t \in Tenants,
           NEW op \in {"start", "choose", "leave", "resume"}, NEW write,
           Begin(o, t, op, write),
           write.start = IF op \in {"start", "choose"} THEN today ELSE sub[t].start,
           write.status = "active" => t \in raced \/ Fits(write, invoice[t])
    PROVE  DayInv'
<1>1. PICK q : q = [op |-> op, on |-> t, read |-> sub[t], write |-> write]
  OBVIOUS
<1>2. /\ owner' = [owner EXCEPT ![o] = q]
      /\ UNCHANGED <<today, sub, invoice, sweep, billedFrom>> /\ raced \subseteq raced'
  BY <1>1 DEF Begin
<1>3. owner'[o] = q /\ \A p \in Owners : p # o => owner'[p] = owner[p]
  BY <1>2 DEF BillingInv, SubInv, Rows
<1>4. ASSUME NEW u \in Tenants \ raced' PROVE Orderly(u)'
  <2>1. u \in Tenants /\ u \notin raced /\ Orderly(u) /\ today \in Date
    BY <1>2 DEF DayInv
  <2>2. q.op = op /\ q.on = t /\ q.write = write
    BY <1>1
  <2>3. u = t => Asked(q, u)
    BY <2>1, <2>2 DEF Asked
  <2>4. \A p \in Owners : owner'[p].on = u => owner'[p] = owner[p] \/ Asked(owner'[p], u)
    BY <1>3, <2>2, <2>3
  <2>5. Still(u)
    BY <1>2 DEF Still
  <2>. QED
    BY <1>2, <2>1, <2>4, <2>5, OrderlyStays
<1>. QED
  BY <1>2, <1>4 DEF DayInv

LEMMA RequestsAreOrderly ==
    ASSUME BillingInv, DayInv, NEW o \in Owners, NEW t \in Tenants,
           \/ \E plan \in Plans : Start(o, t, plan) \/ ChangePlan(o, t, plan)
           \/ CancelAtPeriodEnd(o, t) \/ CancelImmediately(o, t) \/ Resume(o, t)
    PROVE  DayInv'
<1>1. /\ IsRow(sub[t]) /\ today \in Date
      /\ t \notin raced =>
            Invoiced(t) /\ (sub[t].status = "active" => Fits(sub[t], invoice[t]))
  BY DEF BillingInv, SubInv, Rows, DayInv, Orderly, Current
<1>2. ASSUME NEW plan \in Plans, NEW write, write.start = today, write.plan = plan,
             write.status = "active" => write.end = AddInterval(today, plan)
      PROVE  write.status = "active" => t \in raced \/ Fits(write, invoice[t])
  BY <1>1, <1>2, FreshFits
<1>3. ASSUME NEW write, SamePeriod(sub[t], write), write.status = sub[t].status
      PROVE  write.status = "active" => t \in raced \/ Fits(write, invoice[t])
  BY <1>1, <1>3, SameFits
<1>4. ASSUME NEW plan \in Plans, Start(o, t, plan) PROVE DayInv'
  <2>1. PICK write : write = Started(plan) /\ Begin(o, t, "start", write)
    BY <1>4 DEF Start
  <2>2. /\ write.start = today /\ write.plan = plan
        /\ write.status = "active" => write.end = AddInterval(today, plan)
    BY <2>1 DEF Started
  <2>. QED
    BY <1>2, <2>1, <2>2, BeginIsOrderly
<1>5. ASSUME NEW plan \in Plans, ChangePlan(o, t, plan) PROVE DayInv'
  <2>1. PICK write : write = Chosen(sub[t], plan) /\ Begin(o, t, "choose", write)
    BY <1>5 DEF ChangePlan
  <2>2. /\ write.start = today /\ write.plan = plan
        /\ write.end = AddInterval(today, plan)
    BY <1>1, <2>1 DEF Chosen, IsRow
  <2>. QED
    BY <1>2, <2>1, <2>2, BeginIsOrderly
<1>6. CASE CancelAtPeriodEnd(o, t) \/ Resume(o, t)
  <2>1. PICK op, write :
          /\ op \in {"leave", "resume"} /\ Begin(o, t, op, write)
          /\ \/ write = [sub[t] EXCEPT !.cancel = TRUE]
             \/ write = [sub[t] EXCEPT !.cancel = FALSE]
    BY <1>6 DEF CancelAtPeriodEnd, Resume
  <2>2. /\ write.start = sub[t].start /\ write.end = sub[t].end
        /\ write.plan = sub[t].plan /\ write.status = sub[t].status
    BY <1>1, <2>1 DEF IsRow
  <2>. QED
    BY <1>3, <2>1, <2>2, BeginIsOrderly DEF SamePeriod
<1>7. CASE CancelImmediately(o, t)
  <2>1. PICK write : /\ write = [sub[t] EXCEPT !.status = "cancelled",
                                              !.cancel = FALSE, !.end = today]
                     /\ Begin(o, t, "leave", write)
    BY <1>7 DEF CancelImmediately
  <2>2. write.start = sub[t].start /\ write.status = "cancelled"
    BY <1>1, <2>1 DEF IsRow
  <2>. QED
    BY <2>1, <2>2, BeginIsOrderly
<1>. QED
  BY <1>4, <1>5, <1>6, <1>7

LEMMA WriteIsOrderly ==
    ASSUME BillingInv, DayInv, NEW o \in Owners, Write(o) PROVE DayInv'
<1>1. PICK t, q :
        /\ t \in Tenants /\ q = owner[o] /\ t = q.on /\ q.op # "idle" /\ Asking(q)
        /\ owner' = [owner EXCEPT ![o] = NoRequest]
        /\ UNCHANGED <<today, invoice, sweep, raced>>
  BY DEF Write, BillingInv, SubInv, Rows, Asking
<1>2. owner'[o] = NoRequest /\ \A p \in Owners : p # o => owner'[p] = owner[p]
  BY <1>1 DEF BillingInv, SubInv, Rows
<1>3. today \in Date
  BY DEF DayInv
<1>4. ASSUME NEW u \in Tenants \ raced, Still(u) PROVE Orderly(u)'
  <2>1. Orderly(u) /\ u \in Tenants
    BY DEF DayInv
  <2>2. \A p \in Owners : owner'[p].on = u => owner'[p] = owner[p]
    BY <1>2, NoRequestAsks
  <2>. QED
    BY <1>1, <1>3, <1>4, <2>1, <2>2, OrderlyStays
<1>5. CASE q.op = "start" /\ sub[t] # NoSubscription
  <2>1. UNCHANGED <<sub, billedFrom>>
    BY <1>1, <1>5 DEF Write
  <2>2. \A u \in Tenants : Still(u)
    BY <1>1, <2>1 DEF Still
  <2>. QED
    BY <1>1, <1>4, <2>1, <2>2 DEF DayInv
<1>6. CASE ~(q.op = "start" /\ sub[t] # NoSubscription)
  <2>a. PICK now : now = sub[t]
    OBVIOUS
  <2>b. PICK row : row = SubWritten(q.read, q.write, now)
    OBVIOUS
  <2>c. PICK from :
          from = IF q.op \in {"start", "choose"} THEN today ELSE billedFrom[t]
    OBVIOUS
  <2>1. /\ now = sub[t] /\ row = SubWritten(q.read, q.write, now)
        /\ from = IF q.op \in {"start", "choose"} THEN today ELSE billedFrom[t]
        /\ sub' = [sub EXCEPT ![t] = row]
        /\ billedFrom' = [billedFrom EXCEPT ![t] = from]
    <3>1. /\ sub' = [sub EXCEPT ![t] = SubWritten(q.read, q.write, @)]
          /\ billedFrom' = [billedFrom EXCEPT ![t] =
                                IF q.op \in {"start", "choose"} THEN today ELSE @]
      BY <1>1, <1>6 DEF Write
    <3>. QED
      BY <2>a, <2>b, <2>c, <3>1
  <2>2. sub'[t] = row /\ \A u \in Tenants : u # t => sub'[u] = sub[u]
    BY <1>1, <2>1 DEF BillingInv, SubInv, Rows
  <2>3. ASSUME NEW u \in Tenants \ raced, u # t PROVE Orderly(u)'
    <3>1. billedFrom'[u] = billedFrom[u]
      BY <2>1, <2>3 DEF DayInv
    <3>2. Still(u)
      BY <1>1, <2>2, <2>3, <3>1 DEF Still
    <3>. QED
      BY <1>4, <2>3, <3>2
  <2>4. ASSUME t \notin raced PROVE Orderly(t)'
    <3>1. /\ q.read = now /\ ~HeldBySweep(t)
          /\ \A p \in Owners : owner[p].on = t => p = o
      BY <1>1, <2>1, <2>4 DEF BillingInv, SubInv, Alone
    <3>2. row = q.write
      <4>1. IsRow(now) /\ IsRow(q.read) /\ IsRow(q.write)
        BY <1>1, <2>1 DEF BillingInv, SubInv, Rows, Asking
      <4>. QED
        BY <2>1, <3>1, <4>1, SubWrittenIsRow
    <3>3. Orderly(t)
      BY <1>1, <2>4 DEF DayInv
    <3>4. /\ row.start = IF q.op \in {"start", "choose"} THEN today ELSE sub[t].start
          /\ row.status = "active" => Fits(row, invoice[t])
      BY <1>1, <3>2, <3>3 DEF Orderly, Asked
    <3>5. billedFrom'[t] = from
      BY <1>1, <2>1 DEF DayInv
    <3>6. Invoiced(t)'
      BY <1>1, <3>3 DEF Orderly, Invoiced
    <3>7. row.start \in Date /\ from \in Date
      BY <1>3, <2>1, <3>3, <3>4 DEF Orderly, Current
    <3>8. Covered(t, row.start)'
      <4>1. CASE q.op \in {"start", "choose"}
        <5>1. from = today /\ row.start = today
          BY <2>1, <3>4, <4>1
        <5>. QED
          BY <1>3, <3>5, <5>1, DatesInOrder DEF Covered
      <4>2. CASE q.op \notin {"start", "choose"}
        <5>1. billedFrom'[t] = billedFrom[t] /\ row.start = sub[t].start
          BY <2>1, <3>4, <3>5, <4>2
        <5>2. Covered(t, row.start)
          BY <3>3, <5>1 DEF Orderly, Current
        <5>. QED
          BY <1>1, <5>1, <5>2 DEF Covered, Covering
      <4>. QED
        BY <4>1, <4>2
    <3>9. Current(t)'
      BY <1>1, <2>2, <3>4, <3>5, <3>7, <3>8 DEF Current
    <3>10. \A w \in Replicas : t \notin DOMAIN sweep'[w].image
      BY <1>1, <3>1 DEF HeldBySweep
    <3>11. \A p \in Owners : owner'[p].on # t
      BY <1>1, <1>2, <3>1, NoRequestAsks
    <3>. QED
      BY <3>6, <3>9, <3>10, <3>11 DEF Orderly
  <2>5. billedFrom' = [u \in Tenants |-> billedFrom'[u]]
    BY <2>1 DEF DayInv
  <2>. QED
    BY <1>1, <2>3, <2>4, <2>5 DEF DayInv
<1>. QED
  BY <1>5, <1>6

(* Sweeps                                                                  *)

\* A sweep that goes on with what it has read, or begins again.
LEMMA SweepIsOrderly ==
    ASSUME BillingInv, DayInv, NEW w \in Replicas, NEW y,
           sweep' = [sweep EXCEPT ![w] = y],
           UNCHANGED <<today, sub, invoice, owner, billedFrom, raced>>,
           y.failed \subseteq DOMAIN y.image,
           \/ DOMAIN y.image = {}
           \/ /\ y.image = sweep[w].image
              /\ \A t \in DOMAIN y.image : t \notin raced => Done(y, t)
    PROVE  DayInv'
<1>1. sweep'[w] = y /\ \A v \in Replicas : v # w => sweep'[v] = sweep[v]
  BY DEF BillingInv, SubInv, Rows
<1>2. ASSUME NEW t \in Tenants \ raced PROVE Orderly(t)'
  <2>1. Orderly(t) /\ Still(t) /\ today \in Date
    BY DEF DayInv, Still
  <2>2. ASSUME NEW v \in Replicas, t \in DOMAIN sweep'[v].image
        PROVE  /\ t \in DOMAIN sweep[v].image /\ sweep'[v].image[t] = sweep[v].image[t]
               /\ sweep'[v] = sweep[v] \/ Done(sweep'[v], t)
    <3>1. CASE v = w
      BY <1>1, <2>2, <3>1
    <3>2. CASE v # w
      BY <1>1, <2>2, <3>2
    <3>. QED
      BY <3>1, <3>2
  <2>. QED
    BY <2>1, <2>2, OrderlyStays
<1>3. \A v \in Replicas : sweep'[v].failed \subseteq DOMAIN sweep'[v].image
  BY <1>1 DEF DayInv
<1>. QED
  BY <1>2, <1>3 DEF DayInv

LEMMA ReadDueIsOrderly ==
    ASSUME BillingInv, DayInv, NEW w \in Replicas, ReadDue(w) PROVE DayInv'
<1>1. PICK due, image, y :
        /\ due = {t \in Tenants : IsDue(t)} /\ image = [t \in due |-> sub[t]]
        /\ y = [Idle EXCEPT !.stage = "next", !.todo = due, !.image = image,
                            !.rows = image]
        /\ sweep' = [sweep EXCEPT ![w] = y]
        /\ UNCHANGED <<today, sub, invoice, owner, billedFrom>> /\ raced \subseteq raced'
  BY DEF ReadDue
<1>2. /\ y.image = image /\ y.todo = due /\ y.failed = {} /\ y.stage = "next"
      /\ y.bills = <<>> /\ DOMAIN y.bills = {} /\ DOMAIN image = due
  BY <1>1 DEF Idle
<1>3. sweep'[w] = y /\ \A v \in Replicas : v # w => sweep'[v] = sweep[v]
  BY <1>1 DEF BillingInv, SubInv, Rows
<1>4. ASSUME NEW t \in Tenants \ raced' PROVE Orderly(t)'
  <2>1. Orderly(t) /\ today \in Date /\ t \in Tenants
    BY <1>1 DEF DayInv
  <2>2. Still(t)
    BY <1>1 DEF Still
  <2>3. Invoiced(t)' /\ Current(t)'
    BY <1>1, <2>1, <2>2, StillInvoiced, StillCurrent DEF Orderly, NotAfter
  <2>4. ASSUME NEW row, row = sub[t], t \in due, row.status = "active"
        PROVE  Seen(row, t)
    <3>1. Fits(row, invoice[t]) /\ Covered(t, row.start) /\ NotAfter(row.end, today)
      BY <1>1, <2>1, <2>4 DEF Orderly, Current, IsDue
    <3>. QED
      BY <2>4, <3>1 DEF Seen, OnOneLine, SamePeriod
  <2>5. ASSUME NEW v \in Replicas, NEW row, t \in DOMAIN sweep'[v].image,
               row = sweep'[v].image[t]
        PROVE  /\ Seen(row, t)
               /\ row.status = "active" /\ sub[t].status = "active" => OnOneLine(row, sub[t])
               /\ \/ v # w /\ t \in DOMAIN sweep[v].image /\ row = sweep[v].image[t]
                  \/ v = w /\ t \in due /\ row = sub[t]
    <3>1. CASE v = w
      <4>1. t \in due /\ row = sub[t]
        <5>1. row = image[t] /\ t \in due
          BY <1>2, <1>3, <2>5, <3>1
        <5>. QED
          BY <1>1, <5>1
      <4>2. row.status = "active" => Seen(row, t)
        BY <2>4, <4>1
      <4>. QED
        BY <3>1, <4>1, <4>2 DEF Seen, OnOneLine, SamePeriod
    <3>2. CASE v # w
      BY <1>3, <2>1, <2>5, <3>2 DEF Orderly, Seen
    <3>. QED
      BY <3>1, <3>2
  <2>6. ASSUME NEW v \in Replicas, t \in DOMAIN sweep'[v].image
        PROVE  Seen(sweep[v].image[t], t)' /\ Done(sweep[v], t)'
    <3>1. PICK row, z : row = sweep'[v].image[t] /\ z = sweep'[v]
      OBVIOUS
    <3>2. Seen(row, t)'
      BY <1>1, <2>2, <2>5, <2>6, <3>1, StillSeen
    <3>3. Done(z, t)
      <4>1. CASE v = w
        BY <1>2, <1>3, <2>6, <3>1, <4>1 DEF Done
      <4>2. CASE v # w
        BY <1>3, <2>1, <2>6, <3>1, <4>2 DEF Orderly
      <4>. QED
        BY <4>1, <4>2
    <3>4. Done(z, t)'
      BY <2>2, <3>3, StillDone
    <3>. QED
      BY <3>1, <3>2, <3>4
  <2>7. ASSUME NEW u \in Replicas, NEW v \in Replicas,
               t \in DOMAIN sweep'[u].image, sweep'[u].image[t].status = "active",
               t \in DOMAIN sweep'[v].image, sweep'[v].image[t].status = "active"
        PROVE  OnOneLine(sweep'[u].image[t], sweep'[v].image[t])
    <3>1. PICK x, z : x = sweep'[u].image[t] /\ z = sweep'[v].image[t]
      OBVIOUS
    <3>2. CASE u # w /\ v # w
      BY <1>3, <2>1, <2>7, <3>1, <3>2 DEF Orderly
    <3>3. CASE u = w
      BY <2>5, <2>7, <3>1, <3>3 DEF OnOneLine, SamePeriod
    <3>4. CASE v = w
      BY <2>5, <2>7, <3>1, <3>4 DEF OnOneLine, SamePeriod
    <3>. QED
      BY <3>2, <3>3, <3>4
  <2>8. \A o \in Owners : owner'[o].on = t => Asked(owner[o], t)'
    <3>1. ASSUME NEW o \in Owners, owner'[o].on = t PROVE Asked(owner[o], t)'
      <4>1. PICK q : q = owner[o] /\ q = owner'[o]
        BY <1>1
      <4>2. Asked(q, t)
        BY <2>1, <3>1, <4>1 DEF Orderly
      <4>3. Asked(q, t)'
        BY <1>1, <2>2, <4>2, StillAsked
      <4>. QED
        BY <4>1, <4>3
    <3>. QED
      BY <3>1
  <2>. QED
    BY <2>3, <2>6, <2>7, <2>8 DEF Orderly
<1>5. \A v \in Replicas : sweep'[v].failed \subseteq DOMAIN sweep'[v].image
  BY <1>2, <1>3 DEF DayInv
<1>. QED
  BY <1>1, <1>4, <1>5 DEF DayInv

\* A sweep turns to a tenant whose invoice is there, or will be, or has failed.
LEMMA TurnsTo ==
    ASSUME BillingInv, DayInv, NEW w \in Replicas,
           RollUnbilled(w) \/ Prepare(w) \/ Issue(w) \/ InvoiceFails(w)
    PROVE  DayInv'
<1>1. PICK z : z = sweep[w] /\ Sweeping(z) /\ z.failed \subseteq DOMAIN z.image
  BY DEF BillingInv, SubInv, Rows, DayInv
<1>2. UNCHANGED <<today, sub, invoice, owner, billedFrom, raced>>
  BY DEF RollUnbilled, Prepare, Issue, InvoiceFails, history
<1>3. \A t \in DOMAIN z.image : t \notin raced => t \in Tenants /\ Done(z, t)
  BY <1>1 DEF DayInv, Orderly, Sweeping
<1>4. \A t \in z.todo : z.rows[t] = z.image[t] /\ t \in DOMAIN z.image
  BY <1>1 DEF Sweeping
<1>5. CASE Prepare(w)
  <2>1. PICK t : /\ sweep' = [sweep EXCEPT ![w].stage = "insert", ![w].cur = t]
                 /\ t \in z.todo /\ z.rows[t].status # "trialing"
    BY <1>1, <1>5 DEF Prepare, IsNext
  <2>2. PICK y : y = [z EXCEPT !.stage = "insert", !.cur = t]
    OBVIOUS
  <2>3. sweep' = [sweep EXCEPT ![w] = y]
    BY <1>1, <2>1, <2>2 DEF BillingInv, SubInv, Rows, Sweeping
  <2>4. /\ y.bills = z.bills /\ y.image = z.image /\ y.todo = z.todo
        /\ y.failed = z.failed /\ y.cur = t
    BY <1>1, <2>2 DEF Sweeping
  <2>5. z.image[t].status = "active"
    BY <1>1, <1>4, <2>1 DEF Sweeping, IsRunning
  <2>6. \A u \in DOMAIN y.image : u \notin raced => Done(y, u)
    BY <1>3, <2>4, <2>5 DEF Done
  <2>. QED
    BY <1>1, <1>2, <2>3, <2>4, <2>6, SweepIsOrderly
<1>6. ASSUME NEW t \in z.todo, NEW y,
             sweep' = [sweep EXCEPT ![w] = y],
             y.image = z.image, y.todo = z.todo \ {t}, y.stage = "next",
             \/ /\ y.bills = z.bills /\ y.failed = z.failed
                /\ \/ z.image[t].status = "trialing"
                   \/ z.image[t].start \in DOMAIN invoice[t]
             \/ /\ y.bills = z.bills /\ y.failed = z.failed \cup {t}
                /\ t \notin raced => z.image[t].status = "active"
             \/ /\ DOMAIN y.bills = DOMAIN z.bills \cup {t} /\ y.failed = z.failed
                /\ \A u \in DOMAIN z.bills : u # t => y.bills[u] = z.bills[u]
                /\ y.bills[t].end = z.image[t].end
                /\ t \notin raced => z.image[t].status = "active"
      PROVE  DayInv'
  <2>1. ASSUME NEW u \in DOMAIN y.image, u \notin raced PROVE Done(y, u)
    <3>1. Done(z, u) /\ t \notin DOMAIN z.bills /\ u \in DOMAIN z.image
      BY <1>1, <1>3, <1>6, <2>1 DEF Sweeping
    <3>2. CASE u # t
      BY <1>6, <3>1, <3>2 DEF Done
    <3>3. CASE u = t
      <4>1. /\ y.image[t] = z.image[t] /\ y.stage = "next" /\ t \notin DOMAIN z.bills
            /\ t \in DOMAIN z.image /\ t \notin raced
            /\ t \in z.failed => z.image[t].status = "active"
        BY <1>6, <2>1, <3>1, <3>3 DEF Done
      <4>2. CASE /\ y.bills = z.bills /\ y.failed = z.failed
                 /\ \/ z.image[t].status = "trialing"
                    \/ z.image[t].start \in DOMAIN invoice[t]
        BY <3>3, <4>1, <4>2 DEF Done
      <4>3. CASE /\ y.bills = z.bills /\ y.failed = z.failed \cup {t}
                 /\ z.image[t].status = "active"
        BY <3>3, <4>1, <4>3 DEF Done
      <4>4. CASE /\ DOMAIN y.bills = DOMAIN z.bills \cup {t}
                 /\ y.bills[t].end = z.image[t].end
                 /\ z.image[t].status = "active"
        BY <3>3, <4>1, <4>4 DEF Done
      <4>. QED
        BY <1>6, <2>1, <3>3, <4>2, <4>3, <4>4
    <3>. QED
      BY <3>2, <3>3
  <2>2. y.failed \subseteq DOMAIN y.image
    BY <1>1, <1>4, <1>6
  <2>. QED
    BY <1>1, <1>2, <1>6, <2>1, <2>2, SweepIsOrderly
<1>7. ASSUME NEW t \in z.todo
      PROVE  Rolled(w, t) = [stage |-> "next", todo |-> z.todo \ {t}, cur |-> Nothing,
               image |-> z.image, rows |-> [z.rows EXCEPT ![t] = RollOver(@)],
               bills |-> z.bills, failed |-> z.failed]
  <2>1. PICK r : /\ r = Rolled(w, t)
                 /\ r = [z EXCEPT !.stage = "next", !.cur = Nothing, !.todo = @ \ {t},
                                  !.rows[t] = RollOver(@)]
    BY <1>1 DEF Rolled
  <2>2. r = [stage |-> "next", todo |-> z.todo \ {t}, cur |-> Nothing,
             image |-> z.image, rows |-> [z.rows EXCEPT ![t] = RollOver(@)],
             bills |-> z.bills, failed |-> z.failed]
    BY <1>1, <2>1 DEF Sweeping
  <2>. QED
    BY <2>1, <2>2
<1>8. CASE RollUnbilled(w)
  <2>1. PICK t, y : /\ t \in z.todo /\ y = Rolled(w, t)
                    /\ sweep' = [sweep EXCEPT ![w] = y]
                    /\ z.rows[t].status = "trialing" \/ Issued(t, z.rows[t].start)
    BY <1>1, <1>8 DEF RollUnbilled, IsNext
  <2>2. /\ y.image = z.image /\ y.todo = z.todo \ {t} /\ y.stage = "next"
        /\ y.bills = z.bills /\ y.failed = z.failed
    BY <1>7, <2>1
  <2>. QED
    BY <1>4, <1>6, <2>1, <2>2 DEF Issued
<1>9. ASSUME z.stage = "insert"
      PROVE  z.cur \in z.todo /\ (z.cur \notin raced => z.image[z.cur].status = "active")
  BY <1>1, <1>3, <1>4, <1>9 DEF Sweeping, Done
<1>10. CASE InvoiceFails(w)
  <2>1. PICK t, r, y : /\ t = z.cur /\ z.stage = "insert" /\ r = Rolled(w, t)
                       /\ y = [r EXCEPT !.failed = @ \cup {t}]
                       /\ sweep' = [sweep EXCEPT ![w] = y]
    BY <1>1, <1>10 DEF InvoiceFails
  <2>2. /\ y.image = z.image /\ y.todo = z.todo \ {t} /\ y.stage = "next"
        /\ y.bills = z.bills /\ y.failed = z.failed \cup {t}
    BY <1>7, <1>9, <2>1
  <2>. QED
    BY <1>6, <1>9, <2>1, <2>2
<1>11. CASE Issue(w)
  <2>a. PICK t, r, bills : t = z.cur /\ r = Rolled(w, t) /\ bills = Billed(w, t)
    OBVIOUS
  <2>b. PICK y : y = [r EXCEPT !.bills = bills]
    OBVIOUS
  <2>1. /\ t = z.cur /\ z.stage = "insert" /\ r = Rolled(w, t)
        /\ bills = Billed(w, t) /\ y = [r EXCEPT !.bills = bills]
        /\ sweep' = [sweep EXCEPT ![w] = y]
    BY <1>1, <1>11, <2>a, <2>b DEF Issue
  <2>2. /\ y.image = z.image /\ y.todo = z.todo \ {t} /\ y.stage = "next"
        /\ y.bills = bills /\ y.failed = z.failed
    BY <1>7, <1>9, <2>1
  <2>3. bills = [k \in DOMAIN z.bills \cup {t} |->
                    IF k = t THEN InvoiceOf(z.rows[t], z.rows[t].end) ELSE z.bills[k]]
    BY <1>1, <2>1 DEF Billed, With
  <2>4. /\ DOMAIN bills = DOMAIN z.bills \cup {t} /\ bills[t].end = z.image[t].end
        /\ \A u \in DOMAIN z.bills : u # t => bills[u] = z.bills[u]
    <3>1. z.rows[t].end = z.image[t].end
      BY <1>4, <1>9, <2>1
    <3>2. bills[t].end = z.rows[t].end
      BY <2>3 DEF InvoiceOf
    <3>. QED
      BY <2>3, <3>1, <3>2
  <2>5. /\ DOMAIN y.bills = DOMAIN z.bills \cup {t} /\ y.bills[t].end = z.image[t].end
        /\ \A u \in DOMAIN z.bills : u # t => y.bills[u] = z.bills[u]
    BY <2>2, <2>4
  <2>6. t \in z.todo /\ (t \notin raced => z.image[t].status = "active")
    BY <1>9, <2>1
  <2>7. sweep' = [sweep EXCEPT ![w] = y] /\ y.failed = z.failed
    BY <2>1, <2>2
  <2>. QED
    BY <1>6, <2>2, <2>5, <2>6, <2>7
<1>. QED
  BY <1>5, <1>8, <1>10, <1>11

\* What a commit does to the row of a tenant it has read.
LEMMA CommitMoves ==
    ASSUME BillingInv, DayInv, NEW w \in Replicas, Commit(w),
           NEW t \in DOMAIN sweep[w].image, t \notin raced,
           NEW x, x = sweep[w].image[t]
    PROVE  /\ x.status = "active" /\ ~x.cancel =>
                /\ sub'[t].start = x.end
                /\ sub'[t].status = "active" => Succeeds(sub'[t], x)
           /\ ~(x.status = "active" /\ ~x.cancel) =>
                sub'[t].start = sub[t].start /\ sub'[t].status # "active"
           /\ sub'[t].status = "active" => sub[t].status = "active"
<1>1. PICK z : z = sweep[w] /\ Sweeping(z) /\ z.todo = {} /\ t \in Tenants
  BY DEF BillingInv, SubInv, Rows, Sweeping, Commit
<1>2. PICK now, new, row :
        /\ now = sub[t] /\ new = RollOver(x) /\ row = SubWritten(x, new, now)
  OBVIOUS
<1>3. z.rows[t] = new /\ IsRunning(x)
  BY <1>1, <1>2 DEF Sweeping
<1>4. row = sub'[t]
  BY <1>1, <1>2, <1>3 DEF Commit
<1>5. IsRow(x) /\ IsRow(now) /\ now.status # "none"
  BY <1>1, <1>2, <1>3 DEF BillingInv, SubInv, Rows, IsRunning
<1>6. /\ IsRow(new) /\ new.status # "none"
      /\ new.status = IF x.cancel THEN "cancelled"
                      ELSE IF x.status = "trialing" THEN "expired" ELSE x.status
  BY <1>2, <1>3, RollOverIsRow
<1>7. row.status = IF new.status = x.status THEN now.status ELSE new.status
  BY <1>2, <1>5, <1>6, SubWrittenIsRow
<1>8. CASE x.status = "active" /\ ~x.cancel
  <2>1. Fits(x, invoice[t]) /\ (now.status = "active" => OnOneLine(x, now))
    BY <1>1, <1>2, <1>8 DEF DayInv, Orderly, Seen
  <2>2. IsPeriod(x)
    BY <2>1 DEF Fits
  <2>3. /\ row.start = x.end /\ row.end = AddInterval(x.end, x.plan)
        /\ row.plan = now.plan /\ row.status = now.status
    BY <1>2, <1>3, <1>5, <1>8, <2>2, WrittenMoves
  <2>4. now.status = "active" => now.plan = x.plan
    BY <2>1 DEF OnOneLine, SamePeriod, Precedes
  <2>. QED
    BY <1>2, <1>4, <1>8, <2>3, <2>4 DEF Succeeds
<1>9. CASE ~(x.status = "active" /\ ~x.cancel)
  <2>1. row.start = now.start
    BY <1>2, <1>3, <1>5, <1>9, WrittenMoves
  <2>2. row.status # "active"
    BY <1>3, <1>6, <1>7, <1>9 DEF IsRunning
  <2>. QED
    BY <1>2, <1>4, <1>9, <2>1, <2>2
<1>. QED
  BY <1>8, <1>9

\* What a commit adds to the invoices of a row it has read, and what it does to
\* the day from which they are to be.
Adds(x, bills, more, was, from) ==
    /\ DOMAIN bills \subseteq DOMAIN more
    /\ \/ more = bills
       \/ /\ x.status = "active" /\ DOMAIN more = DOMAIN bills \cup {x.start}
          /\ \A d \in DOMAIN bills : d # x.start => more[d].end = bills[d].end
          /\ more[x.start].end = x.end
    /\ x.status = "active" => x.start \in DOMAIN more \/ from = Later(was, x.end)
    /\ \/ from = was
       \/ x.status = "active" /\ from = Later(was, x.end)

LEMMA CommitAdds ==
    ASSUME BillingInv, DayInv, NEW w \in Replicas, Commit(w),
           NEW t \in Tenants, t \notin raced
    PROVE  IF t \in DOMAIN sweep[w].image
           THEN Adds(sweep[w].image[t], invoice[t], invoice'[t],
                     billedFrom[t], billedFrom'[t])
           ELSE /\ invoice'[t] = invoice[t] /\ billedFrom'[t] = billedFrom[t]
                /\ sub'[t] = sub[t]
<1>0. PICK x, bills, more, was, from :
        /\ x = sweep[w].image[t] /\ bills = invoice[t] /\ more = invoice'[t]
        /\ was = billedFrom[t] /\ from = billedFrom'[t]
  OBVIOUS
<1>1. PICK z : /\ z = sweep[w] /\ Sweeping(z) /\ z.todo = {}
               /\ z.failed \subseteq DOMAIN z.image
  BY DEF BillingInv, SubInv, Rows, Commit, DayInv
<1>2. /\ more = IF t \in DOMAIN z.bills THEN With(bills, z.image[t].start, z.bills[t])
                ELSE bills
      /\ from = IF t \in z.failed THEN Later(was, z.image[t].end) ELSE was
      /\ t \notin DOMAIN z.image => sub'[t] = sub[t]
  BY <1>0, <1>1 DEF Commit
<1>3. CASE t \in DOMAIN z.image
  <2>1. Done(z, t)
    BY <1>1, <1>3 DEF DayInv, Orderly
  <2>2. /\ x.status = "active" =>
            /\ t \in DOMAIN z.bills => z.bills[t].end = x.end
            /\ t \in DOMAIN z.bills \/ t \in z.failed \/ x.start \in DOMAIN bills
        /\ t \in DOMAIN z.bills \cup z.failed => x.status = "active"
    BY <1>0, <1>1, <2>1 DEF Done
  <2>3. CASE t \in DOMAIN z.bills
    <3>1. more = [k \in DOMAIN bills \cup {x.start} |->
                    IF k = x.start THEN z.bills[t] ELSE bills[k]]
      BY <1>0, <1>1, <1>2, <2>3 DEF With
    <3>2. /\ DOMAIN more = DOMAIN bills \cup {x.start}
          /\ \A d \in DOMAIN bills : d # x.start => more[d].end = bills[d].end
          /\ more[x.start].end = x.end
      BY <2>2, <2>3, <3>1
    <3>3. Adds(x, bills, more, was, from)
      BY <1>0, <1>1, <1>2, <2>2, <2>3, <3>2 DEF Adds
    <3>. QED
      BY <1>0, <1>1, <1>3, <3>3
  <2>4. CASE t \notin DOMAIN z.bills
    <3>1. Adds(x, bills, more, was, from)
      BY <1>0, <1>1, <1>2, <2>2, <2>4 DEF Adds
    <3>. QED
      BY <1>0, <1>1, <1>3, <3>1
  <2>. QED
    BY <2>3, <2>4
<1>4. CASE t \notin DOMAIN z.image
  BY <1>0, <1>1, <1>2, <1>4 DEF Sweeping
<1>. QED
  BY <1>1, <1>3, <1>4

LEMMA CommitIsOrderly ==
    ASSUME BillingInv, DayInv, NEW w \in Replicas, Commit(w) PROVE DayInv'
<1>1. /\ sweep' = [sweep EXCEPT ![w] = Idle] /\ UNCHANGED <<today, owner, raced>>
      /\ billedFrom' = [t \in Tenants |-> billedFrom'[t]]
  BY DEF Commit
<1>2. sweep'[w] = Idle /\ \A v \in Replicas : v # w => sweep'[v] = sweep[v]
  BY <1>1 DEF BillingInv, SubInv, Rows
<1>3. \A v \in Replicas : \A t \in DOMAIN sweep'[v].image : v # w /\ sweep'[v] = sweep[v]
  BY <1>2, IdleSweeps
<1>4. ASSUME NEW t \in Tenants \ raced PROVE Orderly(t)'
  <2>1. Orderly(t) /\ today \in Date /\ t \in Tenants /\ t \notin raced
    BY DEF DayInv
  <2>2. PICK x, bills, more, now, row, from :
          /\ x = sweep[w].image[t] /\ bills = invoice[t] /\ more = invoice'[t]
          /\ now = sub[t] /\ row = sub'[t] /\ from = billedFrom'[t]
    OBVIOUS
  <2>5. IF t \in DOMAIN sweep[w].image
        THEN Adds(sweep[w].image[t], invoice[t], invoice'[t],
                  billedFrom[t], billedFrom'[t])
        ELSE /\ invoice'[t] = invoice[t] /\ billedFrom'[t] = billedFrom[t]
             /\ sub'[t] = sub[t]
    BY <2>1, CommitAdds
  <2>3. CASE t \notin DOMAIN sweep[w].image
    <3>1. Still(t)
      BY <2>3, <2>5 DEF Still
    <3>. QED
      BY <1>1, <1>3, <2>1, <3>1, OrderlyStays
  <2>4. CASE t \in DOMAIN sweep[w].image
    <3>1. /\ Invoiced(t) /\ Current(t) /\ Seen(x, t)
          /\ billedFrom[t] \in Date
      BY <2>1, <2>2, <2>4 DEF Orderly, Current
    <3>2. \A o \in Owners : owner[o].on # t
      BY <2>1, <2>4 DEF BillingInv, SubInv, Alone, HeldBySweep
    <3>3. x.status = "active" => /\ Fits(x, bills) /\ NotAfter(x.end, today)
                                 /\ Covered(t, x.start) /\ IsPeriod(x)
                                 /\ x.start \in Date /\ x.end \in Date
      BY <2>2, <3>1 DEF Seen, Fits, IsPeriod
    <3>4. /\ DOMAIN bills \subseteq DOMAIN more
          /\ \/ more = bills
             \/ /\ x.status = "active" /\ DOMAIN more = DOMAIN bills \cup {x.start}
                /\ \A d \in DOMAIN bills : d # x.start => more[d].end = bills[d].end
                /\ more[x.start].end = x.end
          /\ x.status = "active" =>
               x.start \in DOMAIN more \/ from = Later(billedFrom[t], x.end)
          /\ \/ from = billedFrom[t]
             \/ x.status = "active" /\ from = Later(billedFrom[t], x.end)
      <4>1. Adds(x, bills, more, billedFrom[t], from)
        BY <2>2, <2>4, <2>5
      <4>. QED
        BY <4>1 DEF Adds
    <3>5. from \in Date /\ NotAfter(billedFrom[t], from)
      <4>1. CASE from = billedFrom[t]
        BY <3>1, <4>1 DEF NotAfter
      <4>2. CASE x.status = "active" /\ from = Later(billedFrom[t], x.end)
        <5>1. \/ from = x.end /\ Before(billedFrom[t], x.end)
              \/ from = billedFrom[t]
          BY <4>2 DEF Later
        <5>. QED
          BY <3>1, <3>3, <4>2, <5>1 DEF NotAfter
      <4>. QED
        BY <3>4, <4>1, <4>2
    <3>6. ASSUME NEW y, Fits(y, bills), x.status = "active" => OnOneLine(x, y)
          PROVE  Fits(y, more)
      BY <3>3, <3>4, <3>6, MoreFits
    <3>7. x.status = "active" => Fits(x, more)
      BY <3>3, <3>6 DEF OnOneLine, SamePeriod
    <3>8. \A d \in DOMAIN bills : more[d].end = bills[d].end
      <4>1. ASSUME NEW d \in DOMAIN bills PROVE more[d].end = bills[d].end
        <5>1. CASE d = x.start /\ x.status = "active"
          BY <3>3, <3>4, <5>1 DEF Fits, Joins
        <5>. QED
          BY <3>4, <5>1
      <4>. QED
        BY <4>1
    <3>9. \A until : Covered(t, until) => Covered(t, until)'
      <4>1. ASSUME NEW until, Covered(t, until), NEW d \in Date,
                   NotAfter(from, d), Before(d, until)
            PROVE  \E e \in DOMAIN more : NotAfter(e, d) /\ Before(d, more[e].end)
        <5>1. NotAfter(billedFrom[t], d)
          BY <3>1, <3>5, <4>1, BeforeIsTransitive
        <5>2. Covering(t, d) # {}
          BY <4>1, <5>1 DEF Covered
        <5>3. PICK e \in DOMAIN bills : NotAfter(e, d) /\ Before(d, bills[e].end)
          BY <2>2, <5>2 DEF Covering
        <5>. QED
          BY <3>4, <3>8, <5>3
      <4>. QED
        BY <2>2, <4>1 DEF Covered, Covering
    <3>10. Invoiced(t)'
      <4>1. ASSUME NEW d \in DOMAIN more
            PROVE  /\ d \in Date /\ more[d].end \in Date
                   /\ Before(d, more[d].end) /\ NotAfter(more[d].end, today)
        <5>1. CASE d \in DOMAIN bills
          BY <2>2, <3>1, <3>8, <5>1 DEF Invoiced
        <5>2. CASE d \notin DOMAIN bills
          <6>1. d = x.start /\ x.status = "active" /\ more[d].end = x.end
            BY <3>4, <5>2
          <6>. QED
            BY <3>3, <6>1 DEF IsPeriod
        <5>. QED
          BY <5>1, <5>2
      <4>2. ASSUME NEW d \in DOMAIN more, NEW e \in DOMAIN more, Before(d, e)
            PROVE  NotAfter(more[d].end, e)
        <5>1. CASE d \in DOMAIN bills /\ e \in DOMAIN bills
          BY <2>2, <3>1, <3>8, <4>2, <5>1 DEF Invoiced
        <5>2. CASE d \notin DOMAIN bills
          <6>1. d = x.start /\ x.status = "active" /\ more[d].end = x.end
            BY <3>4, <5>2
          <6>2. e \in Following(x.end, x.plan)
            BY <3>7, <4>2, <6>1 DEF Fits, Joins
          <6>. QED
            BY <3>3, <6>1, <6>2, FollowingIsClosed
        <5>3. CASE e \notin DOMAIN bills
          <6>1. e = x.start /\ x.status = "active"
            BY <3>4, <5>3
          <6>. QED
            BY <3>7, <4>2, <6>1 DEF Fits, Joins
        <5>. QED
          BY <5>1, <5>2, <5>3
      <4>. QED
        BY <1>1, <2>2, <4>1, <4>2 DEF Invoiced
    <3>11. /\ x.status = "active" /\ ~x.cancel =>
                row.start = x.end /\ (row.status = "active" => Succeeds(row, x))
           /\ ~(x.status = "active" /\ ~x.cancel) =>
                row.start = now.start /\ row.status # "active"
           /\ row.status = "active" => now.status = "active"
      BY <2>1, <2>2, <2>4, CommitMoves
    <3>12. AreDates(more)
      BY <2>2, <3>10 DEF Invoiced, AreDates
    <3>13. Current(t)'
      <4>1. row.status = "active" => Fits(row, more)
        BY <3>7, <3>11, <3>12, NextFits
      <4>2. row.start \in Date
        BY <2>2, <3>1, <3>3, <3>11 DEF Current
      <4>3. Covered(t, row.start)'
        <5>1. CASE x.status = "active" /\ ~x.cancel
          <6>1. ASSUME NEW d \in Date, NotAfter(from, d), Before(d, x.end)
                PROVE  \E e \in DOMAIN more : NotAfter(e, d) /\ Before(d, more[e].end)
            <7>1. CASE Before(d, x.start)
              <8>1. Covered(t, x.start)'
                BY <3>3, <3>9, <5>1
              <8>. QED
                BY <2>2, <6>1, <7>1, <8>1 DEF Covered, Covering
            <7>2. CASE ~Before(d, x.start) /\ x.start \in DOMAIN more
              <8>1. more[x.start].end = x.end
                BY <3>7, <5>1, <7>2 DEF Fits, Joins
              <8>2. NotAfter(x.start, d)
                BY <3>3, <5>1, <7>2, DatesInOrder
              <8>. QED
                BY <6>1, <7>2, <8>1, <8>2
            <7>3. CASE x.start \notin DOMAIN more
              <8>1. from = Later(billedFrom[t], x.end)
                BY <3>4, <5>1, <7>3
              <8>2. NotAfter(x.end, from)
                BY <3>1, <3>3, <5>1, <8>1, DatesInOrder DEF Later, NotAfter
              <8>3. NotAfter(x.end, d)
                BY <3>3, <3>5, <5>1, <6>1, <8>2, BeforeIsTransitive
              <8>. QED
                BY <3>3, <5>1, <6>1, <8>3, DatesInOrder
            <7>. QED
              BY <7>1, <7>2, <7>3
          <6>2. row.start = x.end
            BY <3>11, <5>1
          <6>. QED
            BY <2>2, <6>1, <6>2 DEF Covered, Covering
        <5>2. CASE ~(x.status = "active" /\ ~x.cancel)
          <6>1. row.start = now.start /\ Covered(t, now.start)
            BY <2>2, <3>1, <3>11, <5>2 DEF Current
          <6>. QED
            BY <3>9, <6>1
        <5>. QED
          BY <5>1, <5>2
      <4>. QED
        BY <2>2, <3>5, <4>1, <4>2, <4>3 DEF Current
    <3>14. ASSUME NEW v \in Replicas, t \in DOMAIN sweep'[v].image
           PROVE  Seen(sweep[v].image[t], t)' /\ Done(sweep[v], t)'
      <4>1. PICK s, y : s = sweep'[v] /\ y = sweep'[v].image[t]
        OBVIOUS
      <4>2. s = sweep[v] /\ y = sweep[v].image[t] /\ t \in DOMAIN sweep[v].image
        BY <1>3, <3>14, <4>1
      <4>3. Seen(y, t) /\ Done(s, t)
        BY <2>1, <4>2 DEF Orderly
      <4>4. y.status = "active" /\ x.status = "active" => OnOneLine(x, y)
        BY <2>1, <2>2, <2>4, <4>2 DEF Orderly
      <4>5. ASSUME y.status = "active"
            PROVE  /\ Fits(y, more) /\ NotAfter(y.end, today) /\ Covered(t, y.start)'
                   /\ row.status = "active" => OnOneLine(y, row)
        <5>1. Fits(y, bills) /\ NotAfter(y.end, today) /\ Covered(t, y.start)
          BY <2>2, <4>3, <4>5 DEF Seen
        <5>2. Fits(y, more)
          BY <3>6, <4>4, <4>5, <5>1
        <5>3. ASSUME row.status = "active" PROVE OnOneLine(y, row)
          <6>1. x.status = "active" /\ Succeeds(row, x)
            BY <3>11, <5>3
          <6>2. OnOneLine(row, y)
            BY <3>3, <4>4, <4>5, <5>1, <6>1, NextOnLine DEF Fits
          <6>. QED
            BY <6>2 DEF OnOneLine, SamePeriod
        <5>. QED
          BY <3>9, <5>1, <5>2, <5>3
      <4>6. Seen(y, t)'
        BY <1>1, <2>2, <4>5 DEF Seen
      <4>7. Done(s, t)'
        BY <2>2, <3>4, <4>3 DEF Done
      <4>. QED
        BY <4>1, <4>6, <4>7
    <3>15. \A u, v \in Replicas :
            (/\ t \in DOMAIN sweep'[u].image /\ sweep'[u].image[t].status = "active"
             /\ t \in DOMAIN sweep'[v].image /\ sweep'[v].image[t].status = "active")
            => OnOneLine(sweep'[u].image[t], sweep'[v].image[t])
      BY <1>3, <2>1 DEF Orderly
    <3>. QED
      BY <1>1, <3>2, <3>10, <3>13, <3>14, <3>15 DEF Orderly
  <2>. QED
    BY <2>3, <2>4
<1>5. \A v \in Replicas : sweep'[v].failed \subseteq DOMAIN sweep'[v].image
  <2>1. Idle.failed = {}
    BY DEF Idle
  <2>. QED
    BY <1>2, <2>1 DEF DayInv
<1>. QED
  BY <1>1, <1>4, <1>5 DEF DayInv

LEMMA LostIsOrderly ==
    ASSUME BillingInv, DayInv, NEW w \in Replicas, Collide(w) \/ Crash(w) PROVE DayInv'
<1>1. /\ sweep' = [sweep EXCEPT ![w] = Idle]
      /\ UNCHANGED <<today, sub, invoice, owner, billedFrom, raced>>
  BY DEF Collide, Crash, RollBack, history
<1>2. DOMAIN Idle.image = {} /\ Idle.failed = {}
  BY DEF Idle
<1>. QED
  BY <1>1, <1>2, SweepIsOrderly

(* Staff and the clock                                                     *)

\* A step that leaves every row, the days of every invoice, the sweeps and the
\* requests as they are.
LEMMA StillIsOrderly ==
    ASSUME DayInv, UNCHANGED <<today, billedFrom, sweep, owner>>, raced \subseteq raced',
           \A t \in Tenants : Still(t)
    PROVE  DayInv'
<1>1. ASSUME NEW t \in Tenants \ raced' PROVE Orderly(t)'
  <2>1. t \in Tenants /\ Orderly(t) /\ Still(t) /\ today \in Date
    BY DEF DayInv
  <2>. QED
    BY <2>1, OrderlyStays
<1>. QED
  BY <1>1 DEF DayInv

LEMMA ClerksAreOrderly ==
    ASSUME BillingInv, DayInv, NEW k \in Clerks,
           ReadForPayment(k) \/ ReadForVoid(k) \/ Finish(k)
    PROVE  DayInv'
<1>1. UNCHANGED <<today, sub, billedFrom, sweep, owner>> /\ raced \subseteq raced'
  BY DEF ReadForPayment, ReadForVoid, Take, Finish, history
<1>2. CASE invoice' = invoice
  BY <1>1, <1>2, StillIsOrderly DEF Still
<1>3. CASE Finish(k)
  <2>1. PICK t, task, start, row :
          /\ t \in Tenants /\ task = clerk[k] /\ t = task.on /\ start = task.start
          /\ start \in DOMAIN invoice[t] /\ row = invoice[t][start]
    <3>1. Tasked(clerk[k]) /\ clerk[k].op # "idle"
      BY <1>3 DEF Finish, BillingInv, Tasks
    <3>. QED
      BY <3>1 DEF Tasked, IsTask, BelievesNoMore, Agrees
  <2>2. PICK new :
          /\ new = IF task.op = "pay" THEN Settled(row, task)
                   ELSE [row EXCEPT !.status = "void"]
          /\ invoice' = [invoice EXCEPT ![t][start] = new]
    BY <1>3, <2>1 DEF Finish
  <2>3. row = [end |-> row.end, due |-> row.due, paid |-> row.paid,
               status |-> row.status, received |-> row.received]
    BY <2>1 DEF BillingInv, Books, IsInvoice
  <2>4. new.end = row.end
    BY <2>2, <2>3 DEF Settled
  <2>5. \A u \in Tenants : Still(u)
    BY <1>1, <2>1, <2>2, <2>4 DEF BillingInv, Books, IsFunction, Still
  <2>. QED
    BY <1>1, <2>5, StillIsOrderly
<1>. QED
  BY <1>2, <1>3 DEF ReadForPayment, ReadForVoid, Take

\* At midnight no sweep and no request is under way.
LEMMA TickIsOrderly == ASSUME BillingInv, DayInv, Tick PROVE DayInv'
<1>1. /\ today' = NextDay(today)
      /\ UNCHANGED <<sub, invoice, sweep, owner, billedFrom, raced>>
      /\ \A w \in Replicas : sweep[w] = Idle
      /\ \A o \in Owners : owner[o] = NoRequest
  BY DEF Tick, history
<1>2. today \in Date /\ today' \in Date /\ NotAfter(today, today')
  BY <1>1, NextDayIsLater DEF DayInv, NotAfter
<1>3. ASSUME NEW t \in Tenants \ raced PROVE Orderly(t)'
  <2>1. Orderly(t) /\ Still(t) /\ t \in Tenants
    BY <1>1 DEF DayInv, Still
  <2>2. Invoiced(t)' /\ Current(t)'
    BY <1>2, <2>1, StillInvoiced, StillCurrent DEF Orderly
  <2>3. /\ \A w \in Replicas : t \notin DOMAIN sweep'[w].image
        /\ \A o \in Owners : owner'[o].on # t
    BY <1>1, <2>1, NoRequestAsks, IdleSweeps
  <2>. QED
    BY <2>2, <2>3 DEF Orderly
<1>4. \A w \in Replicas : sweep'[w].failed \subseteq DOMAIN sweep'[w].image
  BY <1>1 DEF DayInv
<1>. QED
  BY <1>1, <1>2, <1>3, <1>4 DEF DayInv

LEMMA DayStepKeeps == BillingInv /\ DayInv /\ [Next]_vars => DayInv'
<1> SUFFICES ASSUME BillingInv, DayInv, [Next]_vars PROVE DayInv'
  OBVIOUS
<1>1. ASSUME NEW o \in Owners, NEW t \in Tenants,
             \/ \E plan \in Plans : Start(o, t, plan) \/ ChangePlan(o, t, plan)
             \/ CancelAtPeriodEnd(o, t) \/ CancelImmediately(o, t) \/ Resume(o, t)
      PROVE  DayInv'
  BY <1>1, RequestsAreOrderly
<1>2. ASSUME NEW o \in Owners, Write(o) PROVE DayInv'
  BY <1>2, WriteIsOrderly
<1>3. ASSUME NEW w \in Replicas, SweepStep(w) \/ InvoiceFails(w) \/ Crash(w)
      PROVE  DayInv'
  BY <1>3, ReadDueIsOrderly, TurnsTo, LostIsOrderly, CommitIsOrderly DEF SweepStep
<1>4. ASSUME NEW k \in Clerks, ReadForPayment(k) \/ ReadForVoid(k) \/ Finish(k)
      PROVE  DayInv'
  BY <1>4, ClerksAreOrderly
<1>5. CASE UNCHANGED vars
  BY <1>5, StillIsOrderly DEF vars, Still
<1>. QED
  BY <1>1, <1>2, <1>3, <1>4, <1>5, TickIsOrderly DEF Next

\* No two invoices of a workspace fall on one day, and those there are leave none
\* out, whatever replicas swept and with whatever failures.
LEMMA DayHolds == Spec => [](BillingInv /\ DayInv)
<1>1. Init => BillingInv /\ DayInv
  BY BillingStarts, DayStarts
<1>2. (BillingInv /\ DayInv) /\ [Next]_vars => (BillingInv /\ DayInv)'
  BY BillingStepKeeps, DayStepKeeps
<1>. QED
  BY <1>1, <1>2, PTL DEF Spec

LEMMA DayInvBillsOnce == DayInv => EveryDayBilledOnce
<1> SUFFICES ASSUME DayInv, NEW t \in Tenants \ raced, NEW d \in Days,
                    NotAfter(billedFrom[t], d), Before(d, sub[t].start)
             PROVE  Cardinality(Covering(t, d)) = 1
  BY DEF EveryDayBilledOnce
<1>1. Invoiced(t) /\ Covered(t, sub[t].start)
  BY DEF DayInv, Orderly, Current
<1>2. d \in Date
  BY DaysInIsNat DEF Days, Date
<1>3. PICK e : e \in Covering(t, d)
  BY <1>1, <1>2 DEF Covered
<1>4. ASSUME NEW f \in Covering(t, d), NEW g \in Covering(t, d) PROVE ~Before(f, g)
  <2>1. /\ f \in DOMAIN invoice[t] /\ g \in DOMAIN invoice[t]
        /\ f \in Date /\ g \in Date /\ invoice[t][f].end \in Date
        /\ NotAfter(g, d) /\ Before(d, invoice[t][f].end)
    BY <1>1 DEF Covering, Invoiced
  <2>2. Before(f, g) => NotAfter(invoice[t][f].end, g)
    BY <1>1, <2>1 DEF Invoiced
  <2>3. Before(g, invoice[t][f].end)
    BY <1>2, <2>1, BeforeIsTransitive
  <2>. QED
    BY <2>1, <2>2, <2>3, DatesInOrder
<1>5. Covering(t, d) = {e}
  <2>1. \A f \in Covering(t, d) : f \in Date
    BY <1>1 DEF Covering, Invoiced
  <2>2. \A f \in Covering(t, d) : f = e
    BY <1>3, <1>4, <2>1, DatesInOrder
  <2>. QED
    BY <1>3, <2>2
<1>. QED
  BY <1>5, FS_Singleton

\* Every day of every period a workspace has left behind is on exactly one
\* invoice, on any calendar and whatever replicas sweep, collide or die, unless an
\* owner's request crossed with a sweep or with another request
\* (BillingWorker.run_once, InvoiceService.issue_for_period, roll_over).
THEOREM EveryDayIsBilledOnce == Spec => []EveryDayBilledOnce
  BY DayHolds, DayInvBillsOnce, PTL

-----------------------------------------------------------------------------
(* Types.  Whatever is rolled over, chosen or invoiced has dates.  A       *)
(* trial's end is counted day by day: a count that leaves the calendar     *)
(* would leave it at a first day.                                          *)

\* Among natural numbers there is a least one.
LEMMA Least == ASSUME NEW T, T \subseteq Nat, T # {} PROVE \E x \in T : \A y \in T : ~(y < x)
<1> DEFINE R == OpToRel(<, Nat)
<1>1. IsWellFoundedOn(R, Nat)
  BY NatLessThanWellFounded, Zenon
<1>2. \A x, y \in Nat : y < x => <<y, x>> \in R
  BY DEF OpToRel
<1> HIDE DEF R
<1>3. \E x \in T : \A y \in T : ~(<<y, x>> \in R)
  BY <1>1, WFMin, Zenon
<1>4. QED
  BY <1>2, <1>3

IsCount(f, d, n) == f = [k \in 0..n |-> IF k = 0 THEN d ELSE NextDay(f[k - 1])]

\* One can count the days from any date, and counts dates.
LEMMA CountExists == ASSUME NEW d PROVE \A n \in Nat : \E f : IsCount(f, d, n)
<1> DEFINE T == {n \in Nat : ~\E f : IsCount(f, d, n)}
<1> SUFFICES ASSUME T # {} PROVE FALSE
  OBVIOUS
<1>1. PICK n \in T : \A k \in T : ~(k < n)
  <2>1. T \subseteq Nat
    OBVIOUS
  <2> HIDE DEF T
  <2>2. QED
    BY <2>1, Least
<1>2. n # 0
  <2>1. SUFFICES ASSUME n = 0 PROVE \E f : IsCount(f, d, 0)
    OBVIOUS
  <2>2. IsCount([k \in 0..0 |-> d], d, 0)
    BY DEF IsCount
  <2>3. QED
    BY <2>2
<1>3. PICK f : IsCount(f, d, n - 1)
  <2>1. n - 1 \in Nat /\ n - 1 < n
    BY <1>2
  <2>2. n - 1 \notin T
    BY <1>1, <2>1
  <2>3. QED
    BY <2>1, <2>2
<1>4. PICK g : g = [k \in 0..n |-> IF k = n THEN NextDay(f[n - 1]) ELSE f[k]]
  OBVIOUS
<1>5. ASSUME NEW k \in 0..n PROVE g[k] = IF k = 0 THEN d ELSE NextDay(g[k - 1])
  <2>1. \A j \in 0..(n - 1) : f[j] = IF j = 0 THEN d ELSE NextDay(f[j - 1])
    BY <1>3 DEF IsCount
  <2>2. n \in Nat
    OBVIOUS
  <2>3. CASE k = n
    <3>1. n - 1 \in 0..n /\ n - 1 # n /\ g[n - 1] = f[n - 1]
      BY <1>2, <1>4, <2>2
    <3>2. QED
      BY <1>2, <1>4, <2>3, <3>1
  <2>4. CASE k # n
    <3>1. k \in 0..(n - 1) /\ g[k] = f[k]
      BY <1>4, <2>2, <2>4
    <3>2. k # 0 => k - 1 \in 0..n /\ k - 1 # n /\ g[k - 1] = f[k - 1]
      BY <1>4, <2>2, <3>1
    <3>3. QED
      BY <2>1, <3>1, <3>2
  <2>5. QED
    BY <2>3, <2>4
<1>6. IsCount(g, d, n)
  BY <1>4, <1>5 DEF IsCount
<1>7. QED
  BY <1>6

LEMMA AddDaysIsDate == ASSUME NEW d \in Date, NEW n \in Nat PROVE AddDays(d, n) \in Date
<1> DEFINE f == CHOOSE f : IsCount(f, d, n)
<1>1. AddDays(d, n) = f[n]
  BY DEF AddDays, IsCount
<1>2. IsCount(f, d, n)
  BY CountExists
<1> HIDE DEF f
<1> DEFINE T == {k \in 0..n : f[k] \notin Date}
<1>3. T = {}
  <2> SUFFICES ASSUME T # {} PROVE FALSE
    OBVIOUS
  <2>1. PICK k \in T : \A j \in T : ~(j < k)
    <3>1. T \subseteq Nat
      OBVIOUS
    <3> HIDE DEF T
    <3>2. QED
      BY <3>1, Least
  <2>2. k \in 0..n /\ f[k] = IF k = 0 THEN d ELSE NextDay(f[k - 1])
    BY <1>2 DEF IsCount
  <2>3. k # 0
    BY <2>2
  <2>4. k - 1 \in 0..n /\ k - 1 < k
    BY <2>2, <2>3
  <2>5. f[k - 1] \in Date
    BY <2>1, <2>4
  <2>6. QED
    BY <2>2, <2>3, <2>5, NextDayIsLater
<1>4. QED
  BY <1>1, <1>3

HasDates(row) == row.start \in Date /\ row.end \in Date

\* A sweep has read periods and writes their ends; what failed is not billed.
SweepDated(z) ==
    /\ \A t \in DOMAIN z.image : HasDates(z.image[t])
    /\ \A t \in DOMAIN z.bills : z.bills[t].end \in Date
    /\ z.failed \cap (DOMAIN z.bills \cup z.todo) = {}

Dated ==
    /\ today \in Date
    /\ \A t \in Tenants : HasDates(sub[t])
    /\ \A o \in Owners : HasDates(owner[o].read) /\ HasDates(owner[o].write)
    /\ \A w \in Replicas : SweepDated(sweep[w])
    /\ \A t \in Tenants : \A start \in DOMAIN invoice[t] :
            start \in Date /\ invoice[t][start].end \in Date
    /\ billedFrom \in [Tenants -> Date]
    /\ word \in [Tenants -> {"none", "start", "choose", "leave", "resume"}]

Counted == asked \in Nat /\ clerical \in Nat /\ failures \in Nat

LEMMA NoSubscriptionHasDates == HasDates(NoSubscription)
  BY DEF HasDates, NoSubscription, Dawn, Date

LEMMA StartedHasDates ==
    ASSUME today \in Date, NEW plan \in Plans PROVE HasDates(Started(plan))
<1>1. TrialDays[plan] \in Nat
  BY BillingAssumption
<1>2. AddDays(today, TrialDays[plan]) \in Date /\ AddInterval(today, plan) \in Date
  BY <1>1, AddDaysIsDate, AddIntervalIsLater
<1>3. QED
  BY <1>2 DEF Started, HasDates

LEMMA RollOverHasDates ==
    ASSUME NEW row, IsRow(row), HasDates(row) PROVE HasDates(RollOver(row))
<1>1. AddInterval(row.end, row.plan) \in Date
  BY AddIntervalIsLater DEF HasDates
<1>2. CASE row.cancel
  BY <1>2 DEF RollOver, HasDates, IsRow
<1>3. CASE ~row.cancel /\ row.status = "trialing"
  BY <1>3 DEF RollOver, HasDates, IsRow
<1>4. CASE ~row.cancel /\ row.status # "trialing"
  BY <1>1, <1>4 DEF RollOver, HasDates, IsRow
<1>5. QED
  BY <1>2, <1>3, <1>4

LEMMA SubWrittenHasDates ==
    ASSUME NEW read, NEW new, NEW now, IsRow(now), HasDates(new), HasDates(now)
    PROVE  HasDates(SubWritten(read, new, now))
<1>1. DOMAIN now = {"status", "plan", "start", "end", "cancel"}
  BY DEF IsRow
<1>2. /\ SubWritten(read, new, now).start = Written(read.start, new.start, now.start)
      /\ SubWritten(read, new, now).end = Written(read.end, new.end, now.end)
  BY <1>1 DEF SubWritten
<1>3. QED
  BY <1>2 DEF Written, HasDates

LEMMA IdleIsDated == SweepDated(Idle)
  BY IdleSweeps DEF SweepDated, Idle

LEMMA DatesBegin == Init => Dated /\ Counted
<1> SUFFICES ASSUME Init PROVE Dated /\ Counted
  OBVIOUS
<1>1. today \in Date
  BY DayStarts DEF DayInv
<1>2. \A t \in Tenants : HasDates(sub[t])
  BY <1>1, NoSubscriptionHasDates, StartedHasDates DEF Init
<1>3. \A o \in Owners : HasDates(owner[o].read) /\ HasDates(owner[o].write)
  BY NoSubscriptionHasDates DEF Init, NoRequest
<1>4. \A w \in Replicas : SweepDated(sweep[w])
  BY IdleIsDated DEF Init
<1>5. \A t \in Tenants : DOMAIN invoice[t] = {}
  BY IdleSweeps DEF Init, Idle
<1>6. billedFrom \in [Tenants -> Date]
  BY <1>2 DEF Init, HasDates
<1>7. QED
  BY <1>1, <1>2, <1>3, <1>4, <1>5, <1>6 DEF Init, Dated, Counted

LEMMA RequestsKeepDates ==
    ASSUME SubInv, Dated, NEW o \in Owners, NEW t \in Tenants,
           \/ \E plan \in Plans : Start(o, t, plan) \/ ChangePlan(o, t, plan)
           \/ CancelAtPeriodEnd(o, t) \/ CancelImmediately(o, t) \/ Resume(o, t)
    PROVE  Dated'
<1>1. IsRow(sub[t]) /\ HasDates(sub[t]) /\ today \in Date /\ owner = [p \in Owners |-> owner[p]]
  BY DEF SubInv, Rows, Dated
<1>2. ASSUME NEW op, NEW write, Begin(o, t, op, write), HasDates(write) PROVE Dated'
  <2>1. PICK q : q = [op |-> op, on |-> t, read |-> sub[t], write |-> write]
    OBVIOUS
  <2>2. owner' = [owner EXCEPT ![o] = q] /\ q.read = sub[t] /\ q.write = write
    BY <1>2, <2>1 DEF Begin
  <2>3. \A p \in Owners : HasDates(owner'[p].read) /\ HasDates(owner'[p].write)
    BY <1>1, <1>2, <2>2 DEF Dated
  <2>4. UNCHANGED <<today, sub, sweep, invoice, billedFrom, word>>
    BY <1>2 DEF Begin
  <2>5. QED
    BY <2>3, <2>4 DEF Dated
<1>3. ASSUME NEW plan \in Plans, Start(o, t, plan) PROVE Dated'
  BY <1>1, <1>2, <1>3, StartedHasDates DEF Start
<1>4. ASSUME NEW plan \in Plans, ChangePlan(o, t, plan) PROVE Dated'
  <2>1. AddInterval(today, plan) \in Date
    BY <1>1, AddIntervalIsLater
  <2>2. HasDates(Chosen(sub[t], plan))
    BY <1>1, <2>1 DEF Chosen, HasDates, IsRow
  <2>3. QED
    BY <1>2, <1>4, <2>2 DEF ChangePlan
<1>5. ASSUME NEW row, HasDates(row), \E op : Begin(o, t, op, row) PROVE Dated'
  BY <1>2, <1>5
<1>6. CASE CancelAtPeriodEnd(o, t)
  <2>1. HasDates([sub[t] EXCEPT !.cancel = TRUE])
    BY <1>1 DEF HasDates, IsRow
  <2>2. QED
    BY <1>5, <1>6, <2>1 DEF CancelAtPeriodEnd
<1>7. CASE CancelImmediately(o, t)
  <2>1. HasDates([sub[t] EXCEPT !.status = "cancelled", !.cancel = FALSE, !.end = today])
    BY <1>1 DEF HasDates, IsRow
  <2>2. QED
    BY <1>5, <1>7, <2>1 DEF CancelImmediately
<1>8. CASE Resume(o, t)
  <2>1. HasDates([sub[t] EXCEPT !.cancel = FALSE])
    BY <1>1 DEF HasDates, IsRow
  <2>2. QED
    BY <1>5, <1>8, <2>1 DEF Resume
<1>9. QED
  BY <1>3, <1>4, <1>6, <1>7, <1>8

LEMMA WriteKeepsDates == ASSUME SubInv, Dated, NEW o \in Owners, Write(o) PROVE Dated'
<1>1. PICK t, q : /\ q = owner[o] /\ t = q.on /\ t \in Tenants /\ Asking(q)
                  /\ q.op \in {"start", "choose", "leave", "resume"}
                  /\ HasDates(q.write) /\ IsRow(sub[t]) /\ HasDates(sub[t])
  BY DEF SubInv, Rows, Asking, Dated, Write
<1>2. /\ UNCHANGED <<today, invoice, sweep>>
      /\ owner' = [owner EXCEPT ![o] = NoRequest]
      /\ \/ UNCHANGED <<sub, word, billedFrom>>
         \/ /\ sub' = [sub EXCEPT ![t] = SubWritten(q.read, q.write, @)]
            /\ word' = [word EXCEPT ![t] = q.op]
            /\ billedFrom' = [billedFrom EXCEPT ![t] =
                                IF q.op \in {"start", "choose"} THEN today ELSE @]
  BY <1>1 DEF Write
<1>3. \A p \in Owners : HasDates(owner'[p].read) /\ HasDates(owner'[p].write)
  <2>1. HasDates(NoRequest.read) /\ HasDates(NoRequest.write)
    BY NoSubscriptionHasDates DEF NoRequest
  <2>2. \A p \in Owners : owner'[p] = NoRequest \/ owner'[p] = owner[p]
    BY <1>2 DEF SubInv, Rows
  <2>3. QED
    BY <2>1, <2>2 DEF Dated
<1>4. HasDates(SubWritten(q.read, q.write, sub[t]))
  BY <1>1, SubWrittenHasDates
<1>5. \A u \in Tenants : HasDates(sub'[u])
  BY <1>2, <1>4 DEF Dated, SubInv, Rows
<1>6. /\ billedFrom' \in [Tenants -> Date]
      /\ word' \in [Tenants -> {"none", "start", "choose", "leave", "resume"}]
  BY <1>1, <1>2 DEF Dated
<1>7. QED
  BY <1>2, <1>3, <1>5, <1>6 DEF Dated

\* What a sweep has in hand next has dates too.
LEMMA SweepMovesDated ==
    ASSUME SubInv, Dated, NEW w \in Replicas, NEW z, SweepDated(z),
           sweep' = [sweep EXCEPT ![w] = z],
           UNCHANGED <<today, sub, invoice, owner, billedFrom, word>>
    PROVE  Dated'
<1>1. \A v \in Replicas : SweepDated(sweep'[v])
  BY DEF SubInv, Rows, Dated
<1>2. QED
  BY <1>1 DEF Dated

LEMMA RolledIsDated ==
    ASSUME SubInv, Dated, NEW w \in Replicas, NEW t \in sweep[w].todo, NEW y,
           \/ y = Rolled(w, t)
           \/ y = [Rolled(w, t) EXCEPT !.bills = Billed(w, t)]
           \/ y = [Rolled(w, t) EXCEPT !.failed = @ \cup {t}]
    PROVE  SweepDated(y)
<1>1. PICK z : z = sweep[w] /\ Sweeping(z) /\ t \in z.todo /\ SweepDated(z)
  BY DEF SubInv, Rows, Dated
<1>2. PICK r : /\ r = Rolled(w, t)
               /\ r = [z EXCEPT !.stage = "next", !.cur = Nothing, !.todo = @ \ {t},
                                !.rows[t] = RollOver(@)]
  BY <1>1 DEF Rolled
<1>3. r = [stage |-> "next", todo |-> z.todo \ {t}, cur |-> Nothing,
           image |-> z.image, rows |-> [z.rows EXCEPT ![t] = RollOver(@)],
           bills |-> z.bills, failed |-> z.failed]
  <2>1. z = [stage |-> z.stage, todo |-> z.todo, cur |-> z.cur, image |-> z.image,
             rows |-> z.rows, bills |-> z.bills, failed |-> z.failed]
    BY <1>1 DEF Sweeping
  <2>2. QED
    BY <1>2, <2>1
<1>4. PICK bill : bill.end \in Date /\ Billed(w, t) = With(z.bills, t, bill)
  <2>1. z.rows[t] = z.image[t] /\ t \in DOMAIN z.image
    BY <1>1 DEF Sweeping
  <2>2. InvoiceOf(z.rows[t], z.rows[t].end).end \in Date
    BY <1>1, <2>1 DEF InvoiceOf, SweepDated, HasDates
  <2>3. QED
    BY <1>1, <2>2 DEF Billed
<1>5. \/ y = r
      \/ y = [r EXCEPT !.bills = With(z.bills, t, bill)]
      \/ y = [r EXCEPT !.failed = @ \cup {t}]
  BY <1>2, <1>4
<1>6. /\ y.todo = z.todo \ {t} /\ y.image = z.image
      /\ \/ y.bills = z.bills /\ y.failed \subseteq z.failed \cup {t}
         \/ y.bills = With(z.bills, t, bill) /\ y.failed = z.failed
  BY <1>3, <1>5
<1>7. DOMAIN z.bills \subseteq DOMAIN z.image \ z.todo
  BY <1>1 DEF Sweeping
<1>8. \A u \in DOMAIN y.bills : y.bills[u].end \in Date
  BY <1>1, <1>4, <1>6 DEF SweepDated, With
<1>9. y.failed \cap (DOMAIN y.bills \cup y.todo) = {}
  <2>1. z.failed \cap (DOMAIN z.bills \cup z.todo) = {}
    BY <1>1 DEF SweepDated
  <2>2. DOMAIN With(z.bills, t, bill) = DOMAIN z.bills \cup {t}
    BY DEF With
  <2>3. QED
    BY <1>1, <1>6, <1>7, <2>1, <2>2
<1>10. QED
  BY <1>1, <1>6, <1>8, <1>9 DEF SweepDated

LEMMA SweepsKeepDates ==
    ASSUME SubInv, Dated, NEW w \in Replicas,
           \/ ReadDue(w) \/ RollUnbilled(w) \/ Prepare(w) \/ Issue(w) \/ InvoiceFails(w)
           \/ Collide(w) \/ Crash(w)
    PROVE  Dated'
<1>1. PICK z : z = sweep[w] /\ Sweeping(z) /\ SweepDated(z)
  BY DEF SubInv, Rows, Dated
<1>2. UNCHANGED <<today, sub, invoice, owner, billedFrom, word>>
  BY DEF ReadDue, RollUnbilled, Prepare, Issue, InvoiceFails, Collide, Crash, RollBack,
         history
<1>3. CASE ReadDue(w)
  <2>1. PICK due, y : /\ due \subseteq Tenants
                      /\ y = [Idle EXCEPT !.stage = "next", !.todo = due,
                                          !.image = [t \in due |-> sub[t]],
                                          !.rows = [t \in due |-> sub[t]]]
                      /\ sweep' = [sweep EXCEPT ![w] = y]
    BY <1>3 DEF ReadDue
  <2>2. y.image = [t \in due |-> sub[t]] /\ y.bills = Idle.bills /\ y.failed = {}
    BY <2>1 DEF Idle
  <2>3. SweepDated(y)
    BY <2>1, <2>2, IdleSweeps DEF SweepDated, Dated
  <2>4. QED
    BY <1>2, <2>1, <2>3, SweepMovesDated
<1>4. CASE RollUnbilled(w)
  <2>1. PICK t \in z.todo : sweep' = [sweep EXCEPT ![w] = Rolled(w, t)]
    BY <1>1, <1>4 DEF RollUnbilled, IsNext
  <2>2. SweepDated(Rolled(w, t))
    BY <1>1, <2>1, RolledIsDated
  <2>3. QED
    BY <1>2, <2>1, <2>2, SweepMovesDated
<1>5. CASE Prepare(w)
  <2>1. PICK t \in Tenants : sweep' = [sweep EXCEPT ![w].stage = "insert", ![w].cur = t]
    BY <1>5 DEF Prepare
  <2>2. PICK y : y = [z EXCEPT !.stage = "insert", !.cur = t]
    OBVIOUS
  <2>3. sweep' = [sweep EXCEPT ![w] = y]
    BY <1>1, <2>1, <2>2 DEF SubInv, Rows, Sweeping
  <2>4. y.todo = z.todo /\ y.image = z.image /\ y.bills = z.bills /\ y.failed = z.failed
    BY <1>1, <2>2 DEF Sweeping
  <2>5. SweepDated(y)
    BY <1>1, <2>4 DEF SweepDated
  <2>6. QED
    BY <1>2, <2>3, <2>5, SweepMovesDated
<1>6. CASE Issue(w) \/ InvoiceFails(w)
  <2>1. PICK t \in z.todo :
          \/ sweep' = [sweep EXCEPT ![w] = [Rolled(w, t) EXCEPT !.bills = Billed(w, t)]]
          \/ sweep' = [sweep EXCEPT ![w] = [Rolled(w, t) EXCEPT !.failed = @ \cup {t}]]
    BY <1>1, <1>6 DEF Issue, InvoiceFails, Sweeping
  <2>2. PICK y : /\ sweep' = [sweep EXCEPT ![w] = y]
                 /\ \/ y = [Rolled(w, t) EXCEPT !.bills = Billed(w, t)]
                    \/ y = [Rolled(w, t) EXCEPT !.failed = @ \cup {t}]
    BY <2>1
  <2>3. SweepDated(y)
    BY <1>1, <2>2, RolledIsDated
  <2>4. QED
    BY <1>2, <2>2, <2>3, SweepMovesDated
<1>7. CASE Collide(w) \/ Crash(w)
  BY <1>2, <1>7, IdleIsDated, SweepMovesDated DEF Collide, Crash, RollBack
<1>8. QED
  BY <1>3, <1>4, <1>5, <1>6, <1>7

LEMMA CommitKeepsDates ==
    ASSUME SubInv, DayInv, Dated, NEW w \in Replicas, Commit(w) PROVE Dated'
<1>1. PICK s : s = sweep[w] /\ Sweeping(s) /\ SweepDated(s)
  BY DEF SubInv, Rows, Dated
<1>2. /\ s.todo = {}
      /\ sub' = [t \in Tenants |-> IF t \in DOMAIN s.image
                    THEN SubWritten(s.image[t], s.rows[t], sub[t]) ELSE sub[t]]
      /\ invoice' = [t \in Tenants |-> IF t \in DOMAIN s.bills
                    THEN With(invoice[t], s.image[t].start, s.bills[t])
                    ELSE invoice[t]]
      /\ billedFrom' = [t \in Tenants |-> IF t \in s.failed
                    THEN Later(billedFrom[t], s.image[t].end) ELSE billedFrom[t]]
      /\ sweep' = [sweep EXCEPT ![w] = Idle]
      /\ UNCHANGED <<today, owner, word>>
  BY <1>1 DEF Commit
<1>3. \A t \in Tenants : HasDates(sub'[t])
  <2> TAKE t \in Tenants
  <2>1. CASE t \in DOMAIN s.image
    <3>1. s.rows[t] = RollOver(s.image[t]) /\ IsRow(s.image[t]) /\ HasDates(s.image[t])
      BY <1>1, <1>2, <2>1 DEF Sweeping, SweepDated, IsRunning
    <3>2. HasDates(s.rows[t])
      BY <3>1, RollOverHasDates
    <3>3. IsRow(sub[t]) /\ HasDates(sub[t])
      BY DEF SubInv, Rows, Dated
    <3>4. QED
      BY <1>2, <2>1, <3>2, <3>3, SubWrittenHasDates
  <2>2. CASE t \notin DOMAIN s.image
    BY <1>2, <2>2 DEF Dated
  <2>3. QED
    BY <2>1, <2>2
<1>4. ASSUME NEW t \in Tenants, NEW start \in DOMAIN invoice'[t]
      PROVE  start \in Date /\ invoice'[t][start].end \in Date
  <2>1. CASE t \in DOMAIN s.bills
    <3>1. s.image[t].start \in Date /\ s.bills[t].end \in Date
      BY <1>1, <2>1 DEF Sweeping, SweepDated, HasDates
    <3>2. invoice'[t] = With(invoice[t], s.image[t].start, s.bills[t])
      BY <1>2, <2>1
    <3>3. /\ start \in DOMAIN invoice[t] \cup {s.image[t].start}
          /\ invoice'[t][start] = IF start = s.image[t].start THEN s.bills[t]
                                  ELSE invoice[t][start]
      BY <1>4, <3>2 DEF With
    <3>4. QED
      BY <3>1, <3>3 DEF Dated
  <2>2. CASE t \notin DOMAIN s.bills
    BY <1>2, <1>4, <2>2 DEF Dated
  <2>3. QED
    BY <2>1, <2>2
<1>5. billedFrom' \in [Tenants -> Date]
  <2>1. s.failed \subseteq DOMAIN s.image
    BY <1>1 DEF DayInv
  <2>2. \A t \in Tenants : billedFrom'[t] \in Date
    BY <1>1, <1>2, <2>1 DEF Later, Dated, SweepDated, HasDates
  <2>3. QED
    BY <1>2, <2>2
<1>6. \A v \in Replicas : SweepDated(sweep'[v])
  BY <1>2, IdleIsDated DEF SubInv, Rows, Dated
<1>7. QED
  BY <1>2, <1>3, <1>4, <1>5, <1>6 DEF Dated

LEMMA ClerksKeepDates ==
    ASSUME BillingInv, Dated, NEW k \in Clerks,
           ReadForPayment(k) \/ ReadForVoid(k) \/ Finish(k)
    PROVE  Dated'
<1>1. UNCHANGED <<today, sub, sweep, owner, billedFrom, word>>
  BY DEF ReadForPayment, ReadForVoid, Take, Finish, history
<1>2. CASE ReadForPayment(k) \/ ReadForVoid(k)
  <2>1. invoice' = invoice
    BY <1>2 DEF ReadForPayment, ReadForVoid, Take
  <2>2. QED
    BY <1>1, <2>1 DEF Dated
<1>3. CASE Finish(k)
  <2>1. PICK t, start, row :
            /\ t \in Tenants /\ start \in DOMAIN invoice[t]
            /\ invoice' = [invoice EXCEPT ![t][start] = row]
            /\ \/ row = Settled(invoice[t][start], clerk[k])
               \/ row = [invoice[t][start] EXCEPT !.status = "void"]
    <3>1. /\ clerk[k].on \in Tenants
          /\ clerk[k].start \in DOMAIN invoice[clerk[k].on]
      BY <1>3 DEF Finish, BillingInv, Tasks, Tasked, IsTask
    <3>2. QED
      BY <1>3, <3>1 DEF Finish
  <2>2. row.end = invoice[t][start].end
    BY <2>1 DEF BillingInv, Books, IsInvoice, Settled
  <2>3. /\ \A u \in Tenants : DOMAIN invoice'[u] = DOMAIN invoice[u]
        /\ \A u \in Tenants : \A d \in DOMAIN invoice[u] :
                invoice'[u][d] = IF u = t /\ d = start THEN row ELSE invoice[u][d]
    BY <2>1 DEF BillingInv, Books
  <2>4. \A u \in Tenants : \A d \in DOMAIN invoice'[u] :
            d \in Date /\ invoice'[u][d].end \in Date
    BY <2>2, <2>3 DEF Dated
  <2>5. QED
    BY <1>1, <2>4 DEF Dated
<1>4. QED
  BY <1>2, <1>3

LEMMA DatesStep == BillingInv /\ DayInv /\ Dated /\ [Next]_vars => Dated'
<1> SUFFICES ASSUME BillingInv, DayInv, Dated, [Next]_vars PROVE Dated'
  OBVIOUS
<1>1. SubInv
  BY DEF BillingInv
<1>2. ASSUME NEW o \in Owners, NEW t \in Tenants,
             \/ \E plan \in Plans : Start(o, t, plan) \/ ChangePlan(o, t, plan)
             \/ CancelAtPeriodEnd(o, t) \/ CancelImmediately(o, t) \/ Resume(o, t)
      PROVE  Dated'
  BY <1>1, <1>2, RequestsKeepDates
<1>3. ASSUME NEW o \in Owners, Write(o) PROVE Dated'
  BY <1>1, <1>3, WriteKeepsDates
<1>4. ASSUME NEW w \in Replicas, SweepStep(w) \/ InvoiceFails(w) \/ Crash(w)
      PROVE  Dated'
  BY <1>1, <1>4, SweepsKeepDates, CommitKeepsDates DEF SweepStep
<1>5. ASSUME NEW k \in Clerks, ReadForPayment(k) \/ ReadForVoid(k) \/ Finish(k)
      PROVE  Dated'
  BY <1>5, ClerksKeepDates
<1>6. CASE Tick
  <2>1. today' \in Date /\ UNCHANGED <<sub, invoice, sweep, owner, billedFrom, word>>
    BY <1>6, NextDayIsLater DEF Tick, Dated, history
  <2>2. QED
    BY <2>1 DEF Dated, SweepDated, HasDates
<1>7. CASE UNCHANGED vars
  BY <1>7 DEF vars, Dated
<1>8. QED
  BY <1>2, <1>3, <1>4, <1>5, <1>6, <1>7 DEF Next

LEMMA CountsStep == Counted /\ [Next]_vars => Counted'
<1> SUFFICES ASSUME Counted, [Next]_vars PROVE Counted'
  OBVIOUS
<1>1. ASSUME NEW o \in Owners, NEW t \in Tenants,
             \/ \E plan \in Plans : Start(o, t, plan) \/ ChangePlan(o, t, plan)
             \/ CancelAtPeriodEnd(o, t) \/ CancelImmediately(o, t) \/ Resume(o, t)
      PROVE  Counted'
  BY <1>1 DEF Start, ChangePlan, CancelAtPeriodEnd, CancelImmediately, Resume, Begin, Counted
<1>2. ASSUME NEW w \in Replicas, SweepStep(w) \/ InvoiceFails(w) \/ Crash(w)
      PROVE  Counted'
  <2>1. CASE InvoiceFails(w) \/ Crash(w)
    BY <2>1 DEF InvoiceFails, Crash, Failure, Counted
  <2>2. CASE SweepStep(w)
    <3>1. UNCHANGED bounds
      BY <2>2 DEF SweepStep, ReadDue, RollUnbilled, Prepare, Issue, Collide, Commit
    <3>2. QED
      BY <3>1 DEF bounds, Counted
  <2>3. QED
    BY <1>2, <2>1, <2>2
<1>3. ASSUME NEW k \in Clerks, ReadForPayment(k) \/ ReadForVoid(k) \/ Finish(k)
      PROVE  Counted'
  BY <1>3 DEF ReadForPayment, ReadForVoid, Take, Finish, bounds, Counted
<1>4. CASE (\E o \in Owners : Write(o)) \/ Tick \/ UNCHANGED vars
  BY <1>4 DEF Write, Tick, vars, bounds, Counted
<1>5. QED
  BY <1>1, <1>2, <1>3, <1>4 DEF Next

LEMMA RowIsSubscription ==
    ASSUME NEW row, IsRow(row), HasDates(row) PROVE row \in Subscription
  BY DEF IsRow, HasDates, NoSubscription, Subscription

\* Every variable keeps its type: what sweeps roll over and owners choose are
\* periods of dates, on any calendar and for trials of any length (add_interval,
\* SubscriptionService.start).
THEOREM BillingTypesCorrect == Spec => []TypeOK
<1>1. Init => BillingInv /\ DayInv /\ Dated /\ Counted
  BY BillingStarts, DayStarts, DatesBegin
<1>2. BillingInv /\ DayInv /\ Dated /\ Counted /\ [Next]_vars
        => (BillingInv /\ DayInv /\ Dated /\ Counted)'
  BY BillingStepKeeps, DayStepKeeps, DatesStep, CountsStep
<1>3. BillingInv /\ DayInv /\ Dated /\ Counted => TypeOK
  <2> SUFFICES ASSUME BillingInv, DayInv, Dated, Counted PROVE TypeOK
    OBVIOUS
  <2>1. sub \in [Tenants -> Subscription]
    BY RowIsSubscription DEF BillingInv, SubInv, Rows, Dated
  <2>2. \A t \in Tenants : \A start \in DOMAIN invoice[t] :
            start \in Date /\ invoice[t][start] \in Invoice
    <3>1. ASSUME NEW v, IsInvoice(v), v.end \in Date PROVE v \in Invoice
      BY <3>1 DEF IsInvoice, Invoice
    <3>2. QED
      BY <3>1 DEF BillingInv, Books, Dated
  <2>3. ASSUME NEW w \in Replicas
        PROVE  /\ sweep[w].stage \in {"idle", "next", "insert"}
               /\ sweep[w].todo \subseteq DOMAIN sweep[w].image
               /\ sweep[w].rows \in [DOMAIN sweep[w].image -> Subscription]
               /\ sweep[w].failed \cap DOMAIN sweep[w].bills = {}
    <3>1. PICK z : z = sweep[w] /\ Sweeping(z) /\ SweepDated(z)
      BY DEF BillingInv, SubInv, Rows, Dated
    <3>2. ASSUME NEW t \in DOMAIN z.image PROVE z.rows[t] \in Subscription
      <4>1. IsRunning(z.image[t]) /\ IsRow(z.image[t]) /\ HasDates(z.image[t])
        BY <3>1 DEF Sweeping, SweepDated, IsRunning
      <4>2. IsRow(RollOver(z.image[t])) /\ HasDates(RollOver(z.image[t]))
        BY <4>1, RollOverIsRow, RollOverHasDates
      <4>3. z.rows[t] = z.image[t] \/ z.rows[t] = RollOver(z.image[t])
        BY <3>1 DEF Sweeping
      <4>4. QED
        BY <4>1, <4>2, <4>3, RowIsSubscription
    <3>3. z.rows \in [DOMAIN z.image -> Subscription]
      BY <3>1, <3>2 DEF Sweeping, IsFunction
    <3>4. z.failed \cap DOMAIN z.bills = {}
      BY <3>1 DEF SweepDated
    <3>5. QED
      BY <3>1, <3>3, <3>4 DEF Sweeping
  <2>4. /\ \A o \in Owners :
            owner[o].op \in {"idle", "start", "choose", "leave", "resume"}
        /\ \A k \in Clerks : clerk[k].op \in {"idle", "pay", "void"}
    BY DEF BillingInv, SubInv, Rows, Asking, Tasks, Tasked, IsTask
  <2>5. QED
    BY <2>1, <2>2, <2>3, <2>4 DEF Dated, Counted, TypeOK
<1>4. QED
  BY <1>1, <1>2, <1>3, PTL DEF Spec
=============================================================================
