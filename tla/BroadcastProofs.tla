--------------------------- MODULE BroadcastProofs ---------------------------
(***************************************************************************)
(* Campaign implements Broadcast for any number of campaigns, contacts,    *)
(* replicas and requests, as long as no process dies and no answer is      *)
(* lost: LedgerInv of CampaignProofs tells which abstract step a step of   *)
(* the rows, locks and images is.                                          *)
(***************************************************************************)
EXTENDS CampaignProofs

Waiting(c) == PendingIn(Current(c))
Reached(c) == {p \in Contacts : accepted[c][p] > 0}
Dropped(c) == {p \in Contacts : Current(c)[p].status \in {"failed", "skipped"}}

\* The abstract step, told from what happens to each campaign.
LEMMA Stutters ==
    ASSUME \A c \in Campaigns : /\ Waiting(c)' = Waiting(c)
                                /\ Reached(c)' = Reached(c)
                                /\ Dropped(c)' = Dropped(c)
    PROVE  UNCHANGED Delivery!vars
  BY DEF Delivery!vars, Waiting, Reached, Dropped

LEMMA Enlists ==
    ASSUME NEW c \in Campaigns, NEW people \in SUBSET Contacts,
           people \cap (Waiting(c) \cup Reached(c) \cup Dropped(c)) = {},
           Waiting(c)' = Waiting(c) \cup people,
           \A d \in Campaigns \ {c} : Waiting(d)' = Waiting(d),
           \A d \in Campaigns : Reached(d)' = Reached(d) /\ Dropped(d)' = Dropped(d)
    PROVE  Delivery!Next
<1>1. Delivery!Enlist(c, people)
  BY DEF Delivery!Enlist, Waiting, Reached, Dropped
<1>. QED
  BY <1>1 DEF Delivery!Next

LEMMA Reaches ==
    ASSUME NEW c \in Campaigns, NEW p \in Contacts, p \in Waiting(c),
           Waiting(c)' = Waiting(c) \ {p}, Reached(c)' = Reached(c) \cup {p},
           \A d \in Campaigns \ {c} :
               Waiting(d)' = Waiting(d) /\ Reached(d)' = Reached(d),
           \A d \in Campaigns : Dropped(d)' = Dropped(d)
    PROVE  Delivery!Next
<1>1. Delivery!Reach(c, p)
  BY DEF Delivery!Reach, Waiting, Reached, Dropped
<1>. QED
  BY <1>1 DEF Delivery!Next

LEMMA Drops ==
    ASSUME NEW c \in Campaigns, NEW p \in Contacts, p \in Waiting(c),
           Waiting(c)' = Waiting(c) \ {p}, Dropped(c)' = Dropped(c) \cup {p},
           \A d \in Campaigns \ {c} :
               Waiting(d)' = Waiting(d) /\ Dropped(d)' = Dropped(d),
           \A d \in Campaigns : Reached(d)' = Reached(d)
    PROVE  Delivery!Next
<1>1. Delivery!Drop(c, p)
  BY DEF Delivery!Drop, Waiting, Reached, Dropped
<1>. QED
  BY <1>1 DEF Delivery!Next

LEMMA BeginsEmpty == Init => Delivery!Init
<1> SUFFICES ASSUME Init PROVE Delivery!Init
  OBVIOUS
<1>1. \A c \in Campaigns : Waiting(c) = {} /\ Reached(c) = {} /\ Dropped(c) = {}
  BY DEF Init, Waiting, Reached, Dropped, Current, PendingIn, NoRecipients, NoRecipient
<1>. QED
  BY <1>1 DEF Delivery!Init, Waiting, Reached, Dropped

\* The rows as their sweep sees them do not change: neither does the broadcast.
LEMMA SameRows ==
    ASSUME \A c \in Campaigns : Current(c)' = Current(c), accepted' = accepted
    PROVE  UNCHANGED Delivery!vars
<1>1. \A c \in Campaigns : /\ Waiting(c)' = Waiting(c)
                           /\ Reached(c)' = Reached(c)
                           /\ Dropped(c)' = Dropped(c)
  BY DEF Waiting, Reached, Dropped, PendingIn
<1>. QED
  BY <1>1, Stutters

LEMMA AudienceEnlists ==
    ASSUME TypeInv, LedgerInv, NEW r \in Requests, WriteAudience(r)
    PROVE  [Delivery!Next]_(Delivery!vars)
<1>0. PICK c \in Campaigns, new \in SUBSET Contacts :
        req[r].cmp = c /\ req[r].adds = new
  BY DEF WriteAudience, Finish, TypeInv, TypeOK, RequestShape, RequestState
<1>1. /\ holder[c] = None
      /\ rcpt \in [Campaigns -> [Contacts -> RecipientRow]]
      /\ accepted \in [Campaigns -> [Contacts -> 0..2]]
  BY <1>0 DEF WriteAudience, Finish, TypeInv, TypeOK
<1>2. UNCHANGED <<holder, wrcpt, accepted>>
  BY DEF WriteAudience, Finish, images, history
<1>3. CASE \A p \in new : rcpt[c][p].status = "absent"
  <2>1. rcpt' = [rcpt EXCEPT ![c] = [p \in Contacts |->
                    IF p \in new THEN [status |-> "pending", attempts |-> 0]
                                 ELSE rcpt[c][p]]]
    BY <1>0, <1>3 DEF WriteAudience
  <2>2. /\ \A d \in Campaigns \ {c} : Current(d)' = Current(d)
        /\ Current(c) = rcpt[c] /\ Current(c)' = rcpt'[c]
    BY <1>1, <1>2, <2>1 DEF Current
  <2>3. \A p \in Contacts :
            /\ p \in new => rcpt'[c][p].status = "pending"
            /\ p \notin new => rcpt'[c][p] = rcpt[c][p]
    BY <1>1, <2>1
  <2>4. \A p \in new : ~(accepted[c][p] > 0)
    BY <1>1, <1>3, <2>2 DEF LedgerInv, LedgerExact
  <2>5. /\ new \cap (Waiting(c) \cup Reached(c) \cup Dropped(c)) = {}
        /\ Waiting(c)' = Waiting(c) \cup new
        /\ Dropped(c)' = Dropped(c)
    BY <1>1, <1>3, <2>2, <2>3, <2>4 DEF Waiting, Reached, Dropped, PendingIn
  <2>6. /\ \A d \in Campaigns : Reached(d)' = Reached(d)
        /\ \A d \in Campaigns \ {c} :
              Waiting(d)' = Waiting(d) /\ Dropped(d)' = Dropped(d)
    BY <1>2, <2>2 DEF Waiting, Reached, Dropped, PendingIn
  <2>. QED
    BY <1>1, <2>5, <2>6, Enlists
<1>4. CASE ~(\A p \in new : rcpt[c][p].status = "absent")
  <2>1. rcpt' = rcpt
    BY <1>0, <1>4 DEF WriteAudience
  <2>. QED
    BY <1>2, <2>1, SameRows DEF Current
<1>. QED
  BY <1>3, <1>4

\* One recipient of the batch is dealt with.
LEMMA OneRow ==
    ASSUME TypeInv, LedgerInv, NEW w \in Workers,
           sweep[w].stage \in {"deliver", "send"},
           NEW c \in Campaigns, sweep[w].cur = c, NEW p \in sweep[w].batch,
           wrcpt' = [wrcpt EXCEPT ![c][p] = wrcpt'[c][p]],
           rcpt' = rcpt, holder' = holder
    PROVE  /\ p \in Contacts /\ p \in Waiting(c)
           /\ Current(c)'[p] = wrcpt'[c][p]
           /\ \A d \in Campaigns, q \in Contacts :
                <<d, q>> # <<c, p>> => Current(d)'[q] = Current(d)[q]
<1>1. /\ holder[c] = w /\ p \in Contacts /\ w # None
      /\ wrcpt \in [Campaigns -> [Contacts -> RecipientRow]]
  <2>1. holder[sweep[w].cur] = w /\ sweep[w].batch \subseteq Contacts
    BY AtRecipient
  <2>. QED
    BY <2>1, CampaignAssumption DEF TypeInv, TypeOK
<1>2. p \in Waiting(c)
  BY <1>1, BatchMember DEF Waiting, PendingIn, Current
<1>3. Current(c)'[p] = wrcpt'[c][p]
  BY <1>1 DEF Current
<1>4. \A d \in Campaigns, q \in Contacts :
        <<d, q>> # <<c, p>> => Current(d)'[q] = Current(d)[q]
  BY <1>1 DEF Current
<1>. QED
  BY <1>1, <1>2, <1>3, <1>4

LEMMA RowDrops ==
    ASSUME TypeInv, LedgerInv, NEW w \in Workers,
           sweep[w].stage \in {"deliver", "send"},
           NEW c \in Campaigns, sweep[w].cur = c, NEW p \in sweep[w].batch,
           wrcpt' = [wrcpt EXCEPT ![c][p] = wrcpt'[c][p]],
           wrcpt'[c][p].status \in {"pending", "failed", "skipped"},
           rcpt' = rcpt, holder' = holder, accepted' = accepted
    PROVE  [Delivery!Next]_(Delivery!vars)
<1>1. /\ p \in Contacts /\ p \in Waiting(c)
      /\ Current(c)'[p].status \in {"pending", "failed", "skipped"}
      /\ \A d \in Campaigns, q \in Contacts :
            <<d, q>> # <<c, p>> => Current(d)'[q] = Current(d)[q]
  BY OneRow
<1>2. \A d \in Campaigns : Reached(d)' = Reached(d)
  BY DEF Reached
<1>3. \A d \in Campaigns \ {c} : Waiting(d)' = Waiting(d) /\ Dropped(d)' = Dropped(d)
  BY <1>1 DEF Waiting, Dropped, PendingIn
<1>4. CASE Current(c)'[p].status = "pending"
  <2>1. Waiting(c)' = Waiting(c) /\ Dropped(c)' = Dropped(c)
    BY <1>1, <1>4 DEF Waiting, Dropped, PendingIn
  <2>. QED
    BY <1>2, <1>3, <2>1, Stutters
<1>5. CASE Current(c)'[p].status \in {"failed", "skipped"}
  <2>1. Waiting(c)' = Waiting(c) \ {p} /\ Dropped(c)' = Dropped(c) \cup {p}
    BY <1>1, <1>5 DEF Waiting, Dropped, PendingIn
  <2>. QED
    BY <1>1, <1>2, <1>3, <2>1, Drops
<1>. QED
  BY <1>1, <1>4, <1>5

LEMMA SkipDrops ==
    ASSUME TypeInv, LedgerInv, NEW w \in Workers, NEW p \in Contacts,
           SkipOptedOut(w, p)
    PROVE  [Delivery!Next]_(Delivery!vars)
<1>1. /\ sweep[w].stage = "deliver" /\ p \in sweep[w].batch
      /\ wrcpt \in [Campaigns -> [Contacts -> RecipientRow]]
      /\ rcpt' = rcpt /\ holder' = holder /\ accepted' = accepted
  BY DEF SkipOptedOut, rows, history, TypeInv, TypeOK
<1>2. PICK c \in Campaigns : sweep[w].cur = c
  BY <1>1, AtRecipient
<1>3. /\ wrcpt' = [wrcpt EXCEPT ![c][p] = wrcpt'[c][p]]
      /\ wrcpt'[c][p].status = "skipped"
  <2> DEFINE row == [wrcpt[c][p] EXCEPT !.status = "skipped"]
  <2>1. wrcpt' = [wrcpt EXCEPT ![c][p] = row] /\ row.status = "skipped"
    BY <1>1, <1>2 DEF SkipOptedOut, RecipientRow
  <2>. HIDE DEF row
  <2>2. wrcpt'[c][p] = row
    BY <1>1, <1>2, <2>1
  <2>. QED
    BY <2>1, <2>2
<1>. QED
  BY <1>1, <1>2, <1>3, RowDrops

LEMMA RefusedDrops ==
    ASSUME TypeInv, LedgerInv, NEW w \in Workers, Refused(w)
    PROVE  [Delivery!Next]_(Delivery!vars)
<1>1. PICK p \in sweep[w].batch : sweep[w].target = p
  BY DEF Refused, TypeInv, SweepShape, Shape
<1>2. /\ sweep[w].stage = "send"
      /\ wrcpt \in [Campaigns -> [Contacts -> RecipientRow]]
      /\ rcpt' = rcpt /\ holder' = holder /\ accepted' = accepted
  BY DEF Refused, rows, history, TypeInv, TypeOK
<1>3. PICK c \in Campaigns : sweep[w].cur = c /\ p \in Contacts
  BY <1>2, AtRecipient
<1>4. wrcpt[c][p].status = "pending"
  BY <1>2, <1>3, BatchMember
<1>5. /\ wrcpt' = [wrcpt EXCEPT ![c][p] = wrcpt'[c][p]]
      /\ wrcpt'[c][p] = FailRecipient(wrcpt[c][p])
  BY <1>1, <1>2, <1>3 DEF Refused
<1>6. wrcpt'[c][p].status \in {"pending", "failed", "skipped"}
  BY <1>4, <1>5 DEF FailRecipient
<1>. QED
  BY <1>2, <1>3, <1>5, <1>6, RowDrops

LEMMA SentReaches ==
    ASSUME TypeInv, LedgerInv, NEW w \in Workers, Sent(w)
    PROVE  Delivery!Next
<1>1. PICK p \in sweep[w].batch : sweep[w].target = p
  BY DEF Sent, TypeInv, SweepShape, Shape
<1>2. /\ sweep[w].stage = "send" /\ rcpt' = rcpt /\ holder' = holder
      /\ wrcpt \in [Campaigns -> [Contacts -> RecipientRow]]
      /\ accepted \in [Campaigns -> [Contacts -> 0..2]]
  BY DEF Sent, rows, TypeInv, TypeOK
<1>3. PICK c \in Campaigns : sweep[w].cur = c /\ p \in Contacts
  BY <1>2, AtRecipient
<1>4. accepted[c][p] = 0
  BY <1>2, <1>3, BatchMember
<1>5. /\ wrcpt' = [wrcpt EXCEPT ![c][p] = wrcpt'[c][p]]
      /\ wrcpt'[c][p].status = "sent"
      /\ accepted' = [accepted EXCEPT ![c][p] = 1]
  <2> DEFINE row == [wrcpt[c][p] EXCEPT !.status = "sent"]
  <2>1. wrcpt' = [wrcpt EXCEPT ![c][p] = row] /\ row.status = "sent"
    BY <1>1, <1>2, <1>3 DEF Sent, RecipientRow
  <2>. HIDE DEF row
  <2>2. wrcpt'[c][p] = row
    BY <1>2, <1>3, <2>1
  <2>3. accepted' = [accepted EXCEPT ![c][p] = 1]
    BY <1>1, <1>2, <1>3, <1>4 DEF Sent, WhatsAppAccepts, Least
  <2>. QED
    BY <2>1, <2>2, <2>3
<1>6. /\ p \in Waiting(c)
      /\ Current(c)'[p].status = "sent"
      /\ \A d \in Campaigns, q \in Contacts :
            <<d, q>> # <<c, p>> => Current(d)'[q] = Current(d)[q]
  <2>1. /\ sweep[w].stage \in {"deliver", "send"} /\ sweep[w].cur = c
        /\ wrcpt' = [wrcpt EXCEPT ![c][p] = wrcpt'[c][p]]
        /\ rcpt' = rcpt /\ holder' = holder
    BY <1>2, <1>3, <1>5
  <2>2. /\ p \in Waiting(c) /\ Current(c)'[p] = wrcpt'[c][p]
        /\ \A d \in Campaigns, q \in Contacts :
              <<d, q>> # <<c, p>> => Current(d)'[q] = Current(d)[q]
    BY <2>1, OneRow
  <2>. QED
    BY <2>2, <1>5
<1>7. /\ accepted'[c][p] > 0
      /\ \A d \in Campaigns, q \in Contacts :
            <<d, q>> # <<c, p>> => accepted'[d][q] = accepted[d][q]
  BY <1>2, <1>3, <1>5
<1>8. \A d \in Campaigns \ {c} : /\ Waiting(d)' = Waiting(d)
                                 /\ Reached(d)' = Reached(d)
                                 /\ Dropped(d)' = Dropped(d)
  BY <1>6, <1>7 DEF Waiting, Reached, Dropped, PendingIn
<1>9. /\ Waiting(c)' = Waiting(c) \ {p}
      /\ Reached(c)' = Reached(c) \cup {p}
  BY <1>3, <1>6, <1>7 DEF Waiting, Reached, PendingIn
<1>10. Dropped(c)' = Dropped(c)
  BY <1>6 DEF Waiting, Dropped, PendingIn
<1>. QED
  BY <1>3, <1>6, <1>8, <1>9, <1>10, Reaches

LEMMA ImagesAreRows ==
    ASSUME TypeInv, LedgerInv, NEW w \in Workers, Claim(w) \/ Commit(w)
    PROVE  UNCHANGED Delivery!vars
<1>1. CASE Claim(w)
  <2>1. PICK due \in SUBSET DueUnlocked :
          /\ holder' = [c \in Campaigns |-> IF c \in due THEN w ELSE holder[c]]
          /\ wrcpt' = [c \in Campaigns |-> IF c \in due THEN rcpt[c] ELSE wrcpt[c]]
    BY <1>1 DEF Claim
  <2>2. UNCHANGED <<rcpt, accepted>> /\ w # None
    BY <1>1, CampaignAssumption DEF Claim, rows, history
  <2>3. \A c \in Campaigns : Current(c)' = Current(c)
    BY <2>1, <2>2 DEF Current, DueUnlocked
  <2>. QED
    BY <2>2, <2>3, SameRows
<1>2. CASE Commit(w)
  <2>1. /\ rcpt' = [c \in Campaigns |-> IF holder[c] = w THEN wrcpt[c] ELSE rcpt[c]]
        /\ holder' = [c \in Campaigns |-> IF holder[c] = w THEN None ELSE holder[c]]
        /\ wrcpt' = [c \in Campaigns |->
                        IF holder[c] = w THEN NoRecipients ELSE wrcpt[c]]
        /\ UNCHANGED accepted /\ w # None
    BY <1>2, CampaignAssumption DEF Commit, Release, history
  <2>2. \A c \in Campaigns : Current(c)' = Current(c)
    BY <2>1 DEF Current
  <2>. QED
    BY <2>1, <2>2, SameRows
<1>. QED
  BY <1>1, <1>2

LEMMA StepImplements ==
    NothingLost /\ TypeInv /\ LedgerInv /\ [Next]_vars => [Delivery!Next]_(Delivery!vars)
<1> SUFFICES ASSUME NothingLost, TypeInv, LedgerInv, [Next]_vars
             PROVE  [Delivery!Next]_(Delivery!vars)
  OBVIOUS
<1>1. CASE UNCHANGED <<rcpt, wrcpt, holder, accepted>>
  BY <1>1, SameRows DEF Current
<1>2. ASSUME NEW r \in Requests, WriteAudience(r) PROVE [Delivery!Next]_(Delivery!vars)
  BY <1>2, AudienceEnlists
<1>3. ASSUME Api, \A r \in Requests : ~WriteAudience(r)
      PROVE  UNCHANGED <<rcpt, wrcpt, holder, accepted>>
  BY <1>3 DEF Api, Create, ReadAudience, ReadSchedule, ReadPause, ReadCancel,
              Remember, WriteSchedule, WritePause, WriteCancel, Finish, rows, images,
              history
<1>4. ASSUME Environment PROVE UNCHANGED <<rcpt, wrcpt, holder, accepted>>
  BY <1>4 DEF Environment, SetOptOut, ClearOptOut, ChangeSendable, Tick, rows, images,
              history
<1>5. ASSUME NEW w \in Workers, SweepStep(w) \/ Failure(w)
      PROVE  [Delivery!Next]_(Delivery!vars)
  <2>1. ~Crash(w) /\ ~Unanswered(w)
    BY DEF NothingLost, Crash, Unanswered
  <2>2. CASE \E c \in Campaigns :
                BlockedBatch(w, c) \/ EmptyBatch(w, c) \/ StartBatch(w, c)
    BY <1>1, <2>2 DEF BlockedBatch, EmptyBatch, StartBatch, rows, history
  <2>3. CASE NoCredential(w) \/ BatchRaises(w) \/ EndBatch(w)
    BY <1>1, <2>3 DEF NoCredential, BatchRaises, EndBatch, rows, images, history
  <2>4. CASE \E p \in Contacts : Address(w, p)
    BY <1>1, <2>4 DEF Address, rows, images, history
  <2>5. CASE \E p \in Contacts : SkipOptedOut(w, p)
    BY <2>5, SkipDrops
  <2>6. CASE Sent(w)
    BY <2>6, SentReaches
  <2>7. CASE Refused(w)
    BY <2>7, RefusedDrops
  <2>8. CASE Claim(w) \/ Commit(w)
    BY <2>8, ImagesAreRows
  <2>. QED
    BY <1>5, <2>1, <2>2, <2>3, <2>4, <2>5, <2>6, <2>7, <2>8 DEF SweepStep, Failure
<1>6. CASE UNCHANGED vars
  BY <1>1, <1>6 DEF vars
<1>. QED
  BY <1>1, <1>2, <1>3, <1>4, <1>5, <1>6 DEF Next

\* As long as no process dies and no answer is lost, the rows, locks and images
\* together do what a broadcast promises: everybody on the list is reached once
\* or dropped once, and nobody is both.
THEOREM CampaignIsABroadcast == NothingLost => (Spec => ImplementsBroadcast)
<1> SUFFICES ASSUME NothingLost PROVE Spec => ImplementsBroadcast
  OBVIOUS
<1>1. TypeInv /\ LedgerInv /\ [Next]_vars => (TypeInv /\ LedgerInv)'
  BY NextTypeInv, NextLedgerInv
<1>2. TypeInv /\ LedgerInv /\ [Next]_vars => [Delivery!Next]_(Delivery!vars)
  BY StepImplements
<1>. QED
  BY <1>1, <1>2, InitTypeInv, InitLedgerInv, BeginsEmpty, PTL
  DEF Spec, ImplementsBroadcast, Delivery!Spec
=============================================================================
