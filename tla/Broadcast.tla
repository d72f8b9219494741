----------------------------- MODULE Broadcast ------------------------------
(***************************************************************************)
(* What a campaign promises, with no rows, locks, sweeps or requests: every *)
(* person on a list is waiting until exactly one of two things happens,    *)
(* once: the message reaches WhatsApp, or the person is dropped.           *)
(* Campaign implements this specification as long as no process dies and   *)
(* no answer is lost.                                                      *)
(***************************************************************************)
CONSTANTS Campaigns, Contacts

VARIABLES
    waiting,   \* per campaign, who is still owed the message
    reached,   \* per campaign, whose message WhatsApp accepted
    dropped    \* per campaign, who will not get it: opted out, or gave up on

vars == <<waiting, reached, dropped>>

Init ==
    /\ waiting = [c \in Campaigns |-> {}]
    /\ reached = [c \in Campaigns |-> {}]
    /\ dropped = [c \in Campaigns |-> {}]

Enlist(c, people) ==
    /\ people \cap (waiting[c] \cup reached[c] \cup dropped[c]) = {}
    /\ waiting' = [waiting EXCEPT ![c] = waiting[c] \cup people]
    /\ UNCHANGED <<reached, dropped>>

Reach(c, p) ==
    /\ p \in waiting[c]
    /\ waiting' = [waiting EXCEPT ![c] = waiting[c] \ {p}]
    /\ reached' = [reached EXCEPT ![c] = reached[c] \cup {p}]
    /\ UNCHANGED dropped

Drop(c, p) ==
    /\ p \in waiting[c]
    /\ waiting' = [waiting EXCEPT ![c] = waiting[c] \ {p}]
    /\ dropped' = [dropped EXCEPT ![c] = dropped[c] \cup {p}]
    /\ UNCHANGED reached

Next ==
    \E c \in Campaigns :
        \/ \E people \in SUBSET Contacts : Enlist(c, people)
        \/ \E p \in Contacts : Reach(c, p) \/ Drop(c, p)

Spec == Init /\ [][Next]_vars
=============================================================================
