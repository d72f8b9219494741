----------------------------- MODULE Invitations -----------------------------
(***************************************************************************)
(* How a person comes into one workspace: invited, perhaps uninvited, and  *)
(* let in by the link they were sent.                                      *)
(*                                                                         *)
(* Source: app/services/invitation_service.py,                             *)
(* app/repositories/invitation_repository.py,                              *)
(* app/repositories/membership_repository.py, app/api/v1/invitations.py,   *)
(* AuthService.register of app/services/auth_service.py.                   *)
(*                                                                         *)
(* A request reads at its beginning, without locks, and writes and commits *)
(* at its end.  Only the rows' unique constraints stand between two        *)
(* requests: one account per address, one membership per account.          *)
(***************************************************************************)
EXTENDS Naturals, FiniteSets

CONSTANTS
    People,         \* addresses
    Invites,        \* invitations that may be issued
    Roles,          \* roles an invitation may carry
    Visitors,       \* requests: of administrators and of invited people
    Nobody          \* no invitation, no role

ASSUME InvitationsAssumption == Nobody \notin Invites \cup Roles

VARIABLES
    invite,       \* the committed invitations
    account,      \* people who have an account
    role,         \* the role each person has in the workspace, or Nobody
    visit,        \* where each request is
    usedTo,       \* history: invitations that have let somebody in
    withdrawn,    \* history: invitations that have been revoked
    doubled,      \* history: people two invitations were being issued for at once
    disputed      \* history: invitations that were revoked and accepted at once

inviteVars == <<invite, account, role, visit, usedTo, withdrawn, doubled,
                disputed>>

NoInvite == [status |-> "absent", to |-> Nobody, role |-> Nobody, expired |-> FALSE]

\* joined: whether the person had an account, and a role, when the request looked.
NoVisit == [kind |-> "none", on |-> Nobody, account |-> FALSE, member |-> FALSE]

InvitationsInit ==
    /\ invite = [i \in Invites |-> NoInvite]
    /\ account = {}
    /\ role = [p \in People |-> Nobody]
    /\ visit = [v \in Visitors |-> NoVisit]
    /\ usedTo = {}
    /\ withdrawn = {}
    /\ doubled = {}
    /\ disputed = {}

\* get_pending_for_email: one that has expired is still pending.
PendingFor(p) == {i \in Invites : invite[i].status = "pending" /\ invite[i].to = p}

Visiting(i) == {v \in Visitors : visit[v].on = i}

\* is_open
IsOpen(i) == invite[i].status = "pending" /\ ~invite[i].expired

-----------------------------------------------------------------------------
(* Requests: what they read                                                *)

\* issue: an address with no pending invitation that is not a member's.  The new
\* row is flushed; nobody sees it until the commit.
Invite(v) ==
    \E i \in Invites, p \in People, r \in Roles :
        /\ visit[v] = NoVisit
        /\ invite[i] = NoInvite
        /\ role[p] = Nobody
        /\ PendingFor(p) = {}
        /\ invite' = [invite EXCEPT ![i] = [status |-> "staged", to |-> p,
                                            role |-> r, expired |-> FALSE]]
        /\ visit' = [visit EXCEPT ![v] = [NoVisit EXCEPT !.kind = "issue", !.on = i]]
        /\ doubled' = IF \E j \in Invites : invite[j].status = "staged"
                                            /\ invite[j].to = p
                      THEN doubled \cup {p} ELSE doubled
        /\ UNCHANGED <<account, role, usedTo, withdrawn, disputed>>

Dispute(i, kind) ==
    disputed' = IF \E v \in Visiting(i) : visit[v].kind = kind
                THEN disputed \cup {i} ELSE disputed

\* revoke: of a pending one only.
Withdraw(v) ==
    \E i \in Invites :
        /\ visit[v] = NoVisit
        /\ invite[i].status = "pending"
        /\ visit' = [visit EXCEPT ![v] = [NoVisit EXCEPT !.kind = "revoke", !.on = i]]
        /\ Dispute(i, "accept")
        /\ UNCHANGED <<invite, account, role, usedTo, withdrawn, doubled>>

\* Mutant: an invitation is looked up by its token alone.
CanAcceptAny(i) == invite[i].status # "absent" /\ invite[i].status # "staged"

\* accept: the link of an open invitation; whether there is an account, and a
\* membership, is read here.
CanAccept(i) == IsOpen(i)

Follow(v) ==
    \E i \in Invites :
        LET p == invite[i].to IN
        /\ visit[v] = NoVisit
        /\ CanAccept(i)
        /\ visit' = [visit EXCEPT ![v] =
                [kind |-> "accept", on |-> i, account |-> p \in account,
                 member |-> role[p] # Nobody]]
        /\ Dispute(i, "revoke")
        /\ UNCHANGED <<invite, account, role, usedTo, withdrawn, doubled>>

-----------------------------------------------------------------------------
(* Requests: what they write                                               *)

\* Who is a member keeps the role they have.
RoleAfter(p, i) == IF role[p] = Nobody THEN [role EXCEPT ![p] = invite[i].role]
                   ELSE role

\* The flush fails on a unique constraint if somebody else has made the account,
\* or the membership, in the meantime: nothing is changed.
BeatenToIt(v) ==
    LET p == invite[visit[v].on].to IN
    \/ ~visit[v].account /\ p \in account
    \/ ~visit[v].member /\ role[p] # Nobody

\* The invitation's status is written whatever it has become.
FinishVisit(v) ==
    LET i == visit[v].on  p == invite[i].to IN
    /\ visit[v] # NoVisit
    /\ visit' = [visit EXCEPT ![v] = NoVisit]
    /\ \/ /\ visit[v].kind = "issue"
          /\ invite' = [invite EXCEPT ![i].status = "pending"]
          /\ UNCHANGED <<account, role, usedTo, withdrawn>>
       \/ /\ visit[v].kind = "revoke"
          /\ invite' = [invite EXCEPT ![i].status = "revoked"]
          /\ withdrawn' = withdrawn \cup {i}
          /\ UNCHANGED <<account, role, usedTo>>
       \/ /\ visit[v].kind = "accept" /\ BeatenToIt(v)
          /\ UNCHANGED <<invite, account, role, usedTo, withdrawn>>
       \/ /\ visit[v].kind = "accept" /\ ~BeatenToIt(v)
          /\ invite' = [invite EXCEPT ![i].status = "accepted"]
          /\ account' = account \cup {p}
          /\ role' = RoleAfter(p, i)
          /\ usedTo' = usedTo \cup {i}
          /\ UNCHANGED withdrawn
    /\ UNCHANGED <<doubled, disputed>>

\* A request that fails; what it had flushed is gone.
AbandonVisit(v) ==
    /\ visit[v] # NoVisit
    /\ visit' = [visit EXCEPT ![v] = NoVisit]
    /\ invite' = IF visit[v].kind = "issue"
                 THEN [invite EXCEPT ![visit[v].on] = NoInvite] ELSE invite
    /\ UNCHANGED <<account, role, usedTo, withdrawn, doubled, disputed>>

\* INVITATION_TTL_DAYS.
Expire ==
    \E i \in Invites :
        /\ invite[i].status = "pending" /\ ~invite[i].expired
        /\ invite' = [invite EXCEPT ![i].expired = TRUE]
        /\ UNCHANGED <<account, role, visit, usedTo, withdrawn, doubled, disputed>>

\* AuthService.register: an account, and a workspace of its own.
Register ==
    \E p \in People \ account :
        /\ account' = account \cup {p}
        /\ UNCHANGED <<invite, role, visit, usedTo, withdrawn, doubled, disputed>>

InvitationsNext ==
    \/ \E v \in Visitors : \/ Invite(v) \/ Withdraw(v) \/ Follow(v)
                           \/ FinishVisit(v) \/ AbandonVisit(v)
    \/ Expire \/ Register

InvitationsSpec == InvitationsInit /\ [][InvitationsNext]_inviteVars

-----------------------------------------------------------------------------
(* Properties                                                              *)

\* Every variable has its type.
InvitationsTypeOK ==
    /\ invite \in [Invites ->
            [status : {"absent", "staged", "pending", "revoked", "accepted"},
             to : People \cup {Nobody}, role : Roles \cup {Nobody}, expired : BOOLEAN]]
    /\ account \subseteq People
    /\ role \in [People -> Roles \cup {Nobody}]
    /\ visit \in [Visitors -> [kind : {"none", "issue", "revoke", "accept"},
                              on : Invites \cup {Nobody}, account : BOOLEAN,
                              member : BOOLEAN]]
    /\ usedTo \cup withdrawn \subseteq Invites /\ disputed \subseteq Invites
    /\ doubled \subseteq People

\* Everybody who is in came by an invitation to them, with the role of one that
\* let them in.  One that is revoked lets nobody in and one that is accepted has,
\* unless it was revoked and accepted at once: then the later commit has the last
\* word on its status, and the person is in all the same.  Nobody has two
\* invitations pending, unless they were being issued at once.
DoorIsKept ==
    /\ \A p \in People :
        role[p] # Nobody =>
            \E i \in usedTo : invite[i].to = p /\ invite[i].role = role[p]
    /\ \A i \in Invites \ disputed :
        /\ i \in withdrawn => i \notin usedTo
        /\ invite[i].status = "accepted" <=> i \in usedTo
    /\ \A p \in People \ doubled : Cardinality(PendingFor(p)) <= 1

=============================================================================
