------------------------------ MODULE Delivery ------------------------------
(***************************************************************************)
(* One outgoing message: from the request that sends it, through WhatsApp, *)
(* to the delivery statuses that come back for it.                         *)
(*                                                                         *)
(* Source: app/services/messaging_service.py,                              *)
(* app/integrations/whatsapp/client.py,                                    *)
(* app/repositories/conversation_repository.py (MessageRepository),        *)
(* app/services/conversation_service.py (statuses),                        *)
(* app/services/whatsapp_service.py (ingest),                              *)
(* app/services/whatsapp_account_service.py and credential_service.py.     *)
(*                                                                         *)
(* The row of a message is flushed before the call to WhatsApp and visible *)
(* to others only after the transaction's commit, which follows the call.  *)
(* Statuses come in other transactions, in any order, more than once, and  *)
(* possibly before that commit; nobody locks the row.                      *)
(***************************************************************************)
EXTENDS Integers, FiniteSets

CONSTANTS
    Messages,       \* rows of messages
    Senders,        \* transactions that send: requests and workers
    Couriers,       \* webhook requests that carry a status
    NoMessage,
    MaxPosts,       \* MAX_ATTEMPTS of the client
    MaxMishaps,     \* bound: crashes, exceptions and lost answers
    MaxSwitches,    \* bound: changes of the number's status
    MaxRepeats      \* bound: deliveries of a status that is already under way

ASSUME DeliveryAssumption ==
    /\ NoMessage \notin Messages
    /\ MaxPosts \in Nat \ {0}

VARIABLES
    message,     \* the committed rows
    files,       \* messages whose file is in the store
    number,      \* the workspace's number
    sending,     \* where each sender is
    courier,     \* where each webhook is
    recorded,    \* the committed status events
    owed,        \* status events WhatsApp has not had a 200 for
    held,        \* history: how often WhatsApp has the message
    ignored,     \* history: events recorded while their message was unknown
    crossed,     \* history: messages two webhooks had read at once
    mishaps,     \* bound: mishaps so far
    switches,    \* bound: changes of the number so far
    repeats      \* bound: overlapping deliveries so far

deliveryVars == <<message, files, number, sending, courier, recorded, owed,
                  held, ignored, crossed, mishaps, switches, repeats>>

MessageStatus == {"absent", "sent", "delivered", "read", "failed"}
Reports == {"sent", "delivered", "read", "failed"}

\* known: the row has WhatsApp's identifier; delivered and read are the two
\* timestamps; copy: there is a media row that names the stored file.
Message == [status : MessageStatus, known : BOOLEAN, delivered : BOOLEAN,
            read : BOOLEAN, copy : BOOLEAN]

Unsent == [status |-> "absent", known |-> FALSE, delivered |-> FALSE,
           read |-> FALSE, copy |-> FALSE]

NoSend == [stage |-> "idle", on |-> NoMessage, media |-> FALSE, posts |-> 0,
           row |-> Unsent]
NoCourier == [stage |-> "idle", event |-> <<>>, image |-> Unsent]

DeliveryInit ==
    /\ message = [m \in Messages |-> Unsent]
    /\ files = {}
    /\ number = "absent"
    /\ sending = [s \in Senders |-> NoSend]
    /\ courier = [c \in Couriers |-> NoCourier]
    /\ recorded = {}
    /\ owed = {}
    /\ held = [m \in Messages |-> 0]
    /\ ignored = {}
    /\ crossed = {}
    /\ mishaps = 0
    /\ switches = 0
    /\ repeats = 0

Mishaps == mishaps < MaxMishaps /\ mishaps' = mishaps + 1

-----------------------------------------------------------------------------
(* The number: WhatsAppAccountService                                      *)

Switch(to) ==
    /\ switches < MaxSwitches
    /\ switches' = switches + 1
    /\ number' = to
    /\ UNCHANGED <<message, files, sending, courier, recorded, owed, held,
                   ignored, crossed, mishaps, repeats>>

Connect == number = "absent" /\ Switch("active")
Disable == number = "active" /\ Switch("disabled")
Enable == number = "disabled" /\ Switch("active")

-----------------------------------------------------------------------------
(* Sending: MessagingService._dispatch and WhatsAppClient._post            *)

\* The number is looked at once; the 24-hour window is the clock's business, and
\* a send it refuses changes nothing.  The new row is flushed.
StageOutbound(s) ==
    \E m \in Messages, media \in BOOLEAN :
        /\ sending[s] = NoSend
        /\ number = "active"
        /\ message[m] = Unsent
        /\ \A o \in Senders : sending[o].on # m
        /\ held[m] = 0
        /\ sending' = [sending EXCEPT ![s] =
                [NoSend EXCEPT !.stage = IF media THEN "upload" ELSE "post",
                               !.on = m, !.media = media]]
        /\ UNCHANGED <<message, files, number, courier, recorded, owed, held,
                       ignored, crossed, mishaps, switches, repeats>>

InSession(s, stage, row) ==
    /\ sending' = [sending EXCEPT ![s].stage = stage, ![s].row = row]
    /\ UNCHANGED <<message, files, number, courier, recorded, owed, ignored,
                   crossed, switches, repeats>>

\* mark_failed keeps the row without an identifier.
MarkFailed(s) == InSession(s, "done", [Unsent EXCEPT !.status = "failed"])

\* mark_sent; a file is recorded once it has been transmitted.
MarkSent(s) ==
    InSession(s, IF sending[s].media THEN "keep" ELSE "done",
              [Unsent EXCEPT !.status = "sent", !.known = TRUE])

Upload(s) ==
    /\ sending[s].stage = "upload"
    /\ InSession(s, "post", Unsent)
    /\ UNCHANGED <<held, mishaps>>

UploadFails(s) ==
    /\ sending[s].stage = "upload"
    /\ MarkFailed(s)
    /\ UNCHANGED <<held, mishaps>>

\* WhatsApp has the message, and will report on it.
Taken(m) == held' = [held EXCEPT ![m] = @ + 1]

Accepted(s) ==
    /\ sending[s].stage = "post"
    /\ Taken(sending[s].on)
    /\ MarkSent(s)
    /\ UNCHANGED mishaps

Rejected(s) ==
    /\ sending[s].stage = "post"
    /\ MarkFailed(s)
    /\ UNCHANGED <<held, mishaps>>

\* Nothing reached WhatsApp, or it had no capacity: another post, if any is left.
Unreachable(s) ==
    /\ sending[s].stage = "post"
    /\ IF sending[s].posts + 1 >= MaxPosts THEN MarkFailed(s)
       ELSE /\ sending' = [sending EXCEPT ![s].posts = @ + 1]
            /\ UNCHANGED <<message, files, number, courier, recorded, owed,
                           ignored, crossed, switches, repeats>>
    /\ UNCHANGED <<held, mishaps>>

\* Mutant: an answer that does not come is treated like a connection that fails.
RetryAmbiguous(s) ==
    IF sending[s].posts + 1 >= MaxPosts THEN MarkFailed(s)
    ELSE /\ sending' = [sending EXCEPT ![s].posts = @ + 1]
         /\ UNCHANGED <<message, files, number, courier, recorded, owed,
                        ignored, crossed, switches, repeats>>

\* No answer in time, a server error, an answer without an identifier: whether or
\* not the message was taken, there is no second post.
GiveUpAmbiguous(s) == MarkFailed(s)

Ambiguous(s) ==
    /\ sending[s].stage = "post"
    /\ Mishaps
    /\ Taken(sending[s].on)
    /\ GiveUpAmbiguous(s)

\* _record_attachment after a send that did not fail.  The file is written at
\* once; a store that fails costs only the copy.
KeepCopy(s) ==
    /\ sending[s].stage = "keep"
    /\ \E stored \in BOOLEAN :
        /\ sending' = [sending EXCEPT ![s].stage = "done", ![s].row.copy = stored]
        /\ files' = IF stored THEN files \cup {sending[s].on} ELSE files
    /\ UNCHANGED <<message, number, courier, recorded, owed, held, ignored,
                   crossed, mishaps, switches, repeats>>

CommitSend(s) ==
    /\ sending[s].stage = "done"
    /\ message' = [message EXCEPT ![sending[s].on] = sending[s].row]
    /\ sending' = [sending EXCEPT ![s] = NoSend]
    /\ UNCHANGED <<files, number, courier, recorded, owed, held, ignored,
                   crossed, mishaps, switches, repeats>>

\* A crash, or an exception other than the two that are caught: an unreadable
\* credential before the post, a connection that breaks after it.  The flushed
\* row is rolled back.
Vanish(s) ==
    /\ sending[s] # NoSend
    /\ Mishaps
    /\ \/ UNCHANGED held
       \/ sending[s].stage = "post" /\ Taken(sending[s].on)
    /\ sending' = [sending EXCEPT ![s] = NoSend]
    /\ UNCHANGED <<message, files, number, courier, recorded, owed, ignored,
                   crossed, switches, repeats>>

-----------------------------------------------------------------------------
(* WhatsApp reports                                                        *)

\* Sent, delivered and read in this order of events, or failed.
Follows(m, report) ==
    LET happened(r) == <<m, r>> \in recorded \cup owed IN
    CASE report = "sent" -> TRUE
      [] report = "delivered" -> happened("sent") /\ ~happened("failed")
      [] report = "read" -> happened("delivered")
      [] report = "failed" -> ~happened("delivered")

Report(m, report) ==
    /\ held[m] > 0
    /\ <<m, report>> \notin recorded \cup owed \cup ignored
    /\ Follows(m, report)
    /\ owed' = owed \cup {<<m, report>>}
    /\ UNCHANGED <<message, files, number, sending, courier, recorded, held,
                   ignored, crossed, mishaps, switches, repeats>>

-----------------------------------------------------------------------------
(* Statuses: WhatsAppIngestionService.ingest and project_status            *)

InProgress(m) == {c \in Couriers : courier[c].stage = "read"
                                   /\ courier[c].event[1] = m}

\* A new event: the message is read, and its row may be unknown.  WhatsApp may
\* send an event again while the first delivery is under way.
ReadEvent(c) ==
    \E e \in owed :
        /\ courier[c] = NoCourier
        /\ number = "active"
        /\ e \notin recorded
        /\ IF \E o \in Couriers : courier[o].event = e
           THEN repeats < MaxRepeats /\ repeats' = repeats + 1
           ELSE UNCHANGED repeats
        /\ courier' = [courier EXCEPT ![c] = [stage |-> "read", event |-> e,
                                              image |-> message[e[1]]]]
        /\ crossed' = IF InProgress(e[1]) = {} THEN crossed
                      ELSE crossed \cup {e[1]}
        /\ UNCHANGED <<message, files, number, sending, recorded, owed, held,
                       ignored, mishaps, switches>>

\* An event that is recorded, or for a number that is disabled or unknown, is
\* acknowledged and nothing else.
Acknowledge ==
    \E e \in owed :
        /\ number # "active" \/ e \in recorded
        /\ owed' = owed \ {e}
        /\ ignored' = IF e \in recorded THEN ignored ELSE ignored \cup {e}
        /\ UNCHANGED <<message, files, number, sending, courier, recorded, held,
                       crossed, mishaps, switches, repeats>>

Order(status) ==
    CASE status = "absent" -> 0 [] status = "sent" -> 1
      [] status = "delivered" -> 2 [] status = "read" -> 3
      [] status = "failed" -> 4

\* Mutant: every report is the new status.
AppliedUnordered(row, report) ==
    [row EXCEPT !.delivered = @ \/ report = "delivered",
                !.read = @ \/ report = "read",
                !.status = report]

\* apply_status
Applied(row, report) ==
    [row EXCEPT !.delivered = @ \/ report = "delivered",
                !.read = @ \/ report = "read",
                !.status = IF report = "failed" \/ Order(report) > Order(@)
                           THEN report ELSE @]

\* Mutant: the whole row is written back.
WrittenWhole(read, new, now) == new

\* SQLAlchemy writes a column only if it differs from what the session read.
ColumnsWritten(read, new, now) ==
    [column \in DOMAIN now |-> IF new[column] = read[column] THEN now[column]
                               ELSE new[column]]

\* The commit.  The second of two deliveries of an event fails on the unique
\* constraint and is answered with an error: WhatsApp sends it again.
ProjectStatus(c) ==
    LET e == courier[c].event  image == courier[c].image IN
    /\ courier[c].stage = "read"
    /\ courier' = [courier EXCEPT ![c] = NoCourier]
    /\ IF e \in recorded THEN UNCHANGED <<message, recorded, owed, ignored>>
       ELSE /\ recorded' = recorded \cup {e}
            /\ owed' = owed \ {e}
            /\ IF image.known
               THEN /\ message' = [message EXCEPT ![e[1]] =
                            ColumnsWritten(image, Applied(image, e[2]), @)]
                    /\ UNCHANGED ignored
               ELSE /\ ignored' = ignored \cup {e}
                    /\ UNCHANGED message
    /\ UNCHANGED <<files, number, sending, held, crossed, mishaps, switches,
                   repeats>>

\* A webhook that dies records nothing and is sent again.
LoseWebhook(c) ==
    /\ courier[c].stage = "read"
    /\ Mishaps
    /\ courier' = [courier EXCEPT ![c] = NoCourier]
    /\ UNCHANGED <<message, files, number, sending, recorded, owed, held,
                   ignored, crossed, switches, repeats>>

-----------------------------------------------------------------------------

SendStep(s) ==
    \/ StageOutbound(s) \/ Upload(s) \/ UploadFails(s) \/ Accepted(s)
    \/ Rejected(s) \/ Unreachable(s) \/ Ambiguous(s) \/ KeepCopy(s)
    \/ CommitSend(s) \/ Vanish(s)

DeliveryNext ==
    \/ Connect \/ Disable \/ Enable
    \/ \E s \in Senders : SendStep(s)
    \/ \E m \in Messages, report \in Reports : Report(m, report)
    \/ \E c \in Couriers : ReadEvent(c) \/ ProjectStatus(c) \/ LoseWebhook(c)
    \/ Acknowledge

DeliverySpec == DeliveryInit /\ [][DeliveryNext]_deliveryVars

-----------------------------------------------------------------------------
(* Properties                                                              *)

\* Every variable has its type.
DeliveryTypeOK ==
    /\ message \in [Messages -> Message]
    /\ files \subseteq Messages
    /\ number \in {"absent", "active", "disabled"}
    /\ \A s \in Senders :
        /\ sending[s].stage \in {"idle", "upload", "post", "keep", "done"}
        /\ sending[s].on \in Messages \cup {NoMessage}
        /\ sending[s].posts \in 0..(MaxPosts - 1)
        /\ sending[s].row \in Message
    /\ \A c \in Couriers : courier[c].stage \in {"idle", "read"}
                           /\ courier[c].image \in Message
    /\ recorded \cup owed \cup ignored \subseteq Messages \X Reports
    /\ held \in [Messages -> Nat]
    /\ crossed \subseteq Messages
    /\ mishaps \in Nat /\ switches \in Nat /\ repeats \in Nat

\* No retry of the client ever hands WhatsApp a message twice: it posts again
\* only when the post before cannot have arrived.
OneSendPerRow == \A m \in Messages : held[m] <= 1

\* What WhatsApp reported of a message that was known is on its row for good,
\* in whatever order, however often and however concurrently it came: the
\* timestamps always, the status unless two webhooks crossed.
EvidenceKept ==
    \A e \in recorded \ ignored :
        LET row == message[e[1]] IN
        /\ e[2] = "delivered" => row.delivered
        /\ e[2] = "read" => row.read
        /\ e[1] \notin crossed => Order(row.status) >= Order(e[2])

\* A row that says more than failed is of a message WhatsApp has, and one that
\* names a stored file of a file that is there, whatever was rolled back.
RowsTellTheTruth ==
    \A m \in Messages :
        /\ message[m].status \notin {"absent", "failed"} => held[m] > 0
        /\ message[m].copy => m \in files /\ held[m] > 0

\* What WhatsApp reported of a message is on its row, and a row says no more of
\* it than is true.
RowsHold == EvidenceKept /\ RowsTellTheTruth

\* Violated: "Written first ... so a send that never completes still leaves
\* evidence it was attempted rather than vanishing"
\* (conversation_repository.py, stage_outbound).
AttemptLeavesEvidence ==
    \A m \in Messages :
        held[m] > 0 => \/ message[m].status # "absent"
                       \/ \E s \in Senders : sending[s].on = m

=============================================================================
