----------------------------- MODULE Memberships -----------------------------
(***************************************************************************)
(* Who belongs to one makerspace: membership rows, the requests and        *)
(* invitations that lead to them, and the presence sessions of members.    *)
(* The membership services lock the makerspace row, presence and the       *)
(* deletion of a row the membership, so each is one step.  A person stands *)
(* for an e-mail address and the account that may come to have it; roles,  *)
(* verification, dues and suspended accounts are left out.                 *)
(***************************************************************************)
EXTENDS Integers, FiniteSets

CONSTANTS
    Persons,
    MembershipRequests, \* primary keys of MembershipRequest rows
    MemberLimit,        \* resource_limit "members"
    StaffLimit          \* resource_limit "staff"

ASSUME MembershipsAssumption ==
    /\ MembershipRequests \subseteq Nat
    /\ MemberLimit \in Nat /\ StaffLimit \in Nat

VARIABLES
    makerspace, \* membership_policy
    account,    \* what the person's account is
    membership, \* the MakerspaceMembership rows
    request,    \* the MembershipRequest rows
    session,    \* the latest PresenceSession of each membership
    stale       \* history: requests that were open when a person was revoked
                \* whose membership they or another request had led to

membershipVars ==
    <<makerspace, account, membership, request, session, stale>>

Policies == {"open", "request", "invite_only"}
\* via is history: the request that activated the membership, none when the
\* person joined an open makerspace, or attach_staff_membership.
NoRequest == -1
Staff == -2
MembershipRow == [status : {"absent", "active", "revoked"}, can_refer : BOOLEAN,
                  via : MembershipRequests \cup {NoRequest, Staff}]
NoMembership == [status |-> "absent", can_refer |-> FALSE, via |-> NoRequest]

\* person is who has invite_email, linked whether user is set.
RequestRow == [state : {"absent", "requested", "invited", "active", "revoked"},
               person : Persons, linked : BOOLEAN, auto : BOOLEAN]

MembershipsTypeOK ==
    /\ makerspace \in Policies
    /\ account \in [Persons -> {"none", "unverified", "verified"}]
    /\ membership \in [Persons -> MembershipRow]
    /\ request \in [MembershipRequests -> RequestRow]
    /\ session \in [Persons -> {"none", "live", "over"}]
    /\ stale \subseteq MembershipRequests

\* One person manages the makerspace; attach_staff_membership made them so.
MembershipsInit ==
    /\ makerspace \in Policies
    /\ \E manager \in Persons :
          /\ account = [p \in Persons |-> IF p = manager THEN "verified" ELSE "none"]
          /\ membership = [p \in Persons |->
                IF p = manager
                THEN [status |-> "active", can_refer |-> TRUE, via |-> Staff]
                ELSE NoMembership]
          /\ request = [r \in MembershipRequests |->
                [state |-> "absent", person |-> manager,
                 linked |-> FALSE, auto |-> FALSE]]
    /\ session = [p \in Persons |-> "none"]
    /\ stale = {}

-----------------------------------------------------------------------------
IsOpen(r) == request[r].state \in {"requested", "invited"}
IsMember(p) == membership[p].status = "active"

Members == {p \in Persons : IsMember(p)}
\* _staff counts the rows of any status.
MembershipRows == {p \in Persons : membership[p].status # "absent"}

OpenRequests(p) == {r \in MembershipRequests : IsOpen(r) /\ request[r].person = p}

\* Those of the account.
OpenLinked(p) == {r \in OpenRequests(p) : request[r].linked}

\* What an activation decides: those of the account or of its e-mail address.
\* (OpenLinked in its place is the fault: only those of the account.)
Activated(p) == OpenRequests(p)

Decide(S, to) ==
    [r \in MembershipRequests |->
        IF r \in S THEN [request[r] EXCEPT !.state = to] ELSE request[r]]

\* can_refer is TRUE by default; a reactivated row loses it.
\* The driving request r is linked first, so it is always decided.
Activate(p, r) ==
    /\ ~IsMember(p) => Cardinality(Members) + 1 <= MemberLimit
    /\ membership' = IF IsMember(p) THEN membership
                     ELSE [membership EXCEPT ![p] =
                        [status |-> "active", can_refer |-> @.status = "absent", via |-> r]]
    /\ request' = LET closed == Decide(Activated(p) \cup ({r} \ {NoRequest}), "active")
                  IN  IF r = NoRequest THEN closed ELSE [closed EXCEPT ![r].linked = TRUE]

\* uniq_open_membership_request_email, and the one per user with it.
CreateRequest(r, row) ==
    /\ request[r].state = "absent" /\ OpenRequests(row.person) = {}
    /\ \A q \in MembershipRequests : q < r => request[q].state # "absent"
    /\ request' = [request EXCEPT ![r] = row]
    /\ UNCHANGED membership

-----------------------------------------------------------------------------
request_membership(p, r) ==
    /\ account[p] = "verified"
    /\ \/ makerspace = "open" /\ Activate(p, NoRequest)
       \/ /\ makerspace = "request" /\ ~IsMember(p)
          /\ CreateRequest(r, [state |-> "requested", person |-> p,
                               linked |-> TRUE, auto |-> FALSE])
    /\ UNCHANGED <<makerspace, account, session, stale>>

Invite(r, p, auto) ==
    /\ CreateRequest(r, [state |-> "invited", person |-> p,
                         linked |-> account[p] # "none", auto |-> auto])
    /\ UNCHANGED <<makerspace, account, session, stale>>

invite_membership(r, p) == Invite(r, p, FALSE)

\* referrals_enabled may be set at any time.
refer_membership(actor, r, p) ==
    /\ IsMember(actor) /\ membership[actor].can_refer
    /\ account[p] # "none" => ~IsMember(p)
    /\ Invite(r, p, TRUE)

\* A referral activates; any other invitation is linked and waits for staff.
claim_invitation(r) ==
    LET p == request[r].person
    IN  /\ request[r].state = "invited" /\ account[p] # "none"
        /\ \/ request[r].auto /\ account[p] = "verified" /\ Activate(p, r)
           \/ /\ ~request[r].auto
              /\ request' = [request EXCEPT ![r].linked = TRUE]
              /\ UNCHANGED membership
        /\ UNCHANGED <<makerspace, account, session, stale>>

approve_request(r) ==
    /\ IsOpen(r) /\ request[r].linked
    /\ Activate(request[r].person, r)
    /\ UNCHANGED <<makerspace, account, session, stale>>

-----------------------------------------------------------------------------
\* Fault: the sessions of a revoked member go on.
SessionsGoOn(p) == session

\* end_sessions_for_membership
SessionsEnded(p) == [session EXCEPT ![p] = IF @ = "live" THEN "over" ELSE @]

Revoke(p) ==
    /\ membership' = [membership EXCEPT ![p].status = "revoked", ![p].can_refer = FALSE]
    /\ session' = SessionsEnded(p)
    /\ request' = Decide(OpenLinked(p), "revoked")
    /\ stale' = IF membership[p].via = Staff THEN stale ELSE stale \cup OpenRequests(p)
    /\ UNCHANGED <<makerspace, account>>

revoke_membership(p) == membership[p].status # "absent" /\ Revoke(p)

\* Whatever the state of a request without a membership, it is revoked.
revoke_request(r) ==
    LET p == request[r].person
    IN  /\ request[r].state # "absent"
        /\ IF request[r].state = "active" /\ request[r].linked /\ membership[p].status # "absent"
           THEN Revoke(p)
           ELSE /\ request' = Decide({r}, "revoked")
                /\ UNCHANGED <<makerspace, account, membership, session, stale>>

\* _set_capability, whatever the status of the row.
set_can_refer(p, value) ==
    /\ membership[p].status # "absent"
    /\ membership' = [membership EXCEPT ![p].can_refer = value]
    /\ UNCHANGED <<makerspace, account, request, session, stale>>

\* attach_staff_membership: creates the account when there is none, and leaves
\* the person's requests open.
attach_staff(p) ==
    /\ ~IsMember(p) => Cardinality(MembershipRows) + 1 <= StaffLimit
    /\ account' = [account EXCEPT ![p] = IF @ = "none" THEN "unverified" ELSE @]
    /\ membership' = [membership EXCEPT ![p] =
          [status |-> "active", via |-> IF IsMember(p) THEN @.via ELSE Staff,
           can_refer |-> IF @.status = "absent" THEN TRUE ELSE @.can_refer]]
    /\ UNCHANGED <<makerspace, request, session, stale>>

\* MembershipRevokeView.delete; a session of the row protects it.
delete_membership(p) ==
    /\ membership[p].status # "absent" /\ session[p] = "none"
    /\ membership' = [membership EXCEPT ![p] = NoMembership]
    /\ UNCHANGED <<makerspace, account, request, session, stale>>

-----------------------------------------------------------------------------
\* A session of another duration supersedes a live one.
start_session(p) ==
    /\ IsMember(p)
    /\ session' = [session EXCEPT ![p] = "live"]
    /\ UNCHANGED <<makerspace, account, membership, request, stale>>

\* end_session, or expires_at passes.
end_session(p) ==
    /\ session[p] = "live"
    /\ session' = [session EXCEPT ![p] = "over"]
    /\ UNCHANGED <<makerspace, account, membership, request, stale>>

\* The person registers, or verifies the address.
verify_email(p) ==
    /\ account[p] # "verified"
    /\ account' = [account EXCEPT ![p] = "verified"]
    /\ UNCHANGED <<makerspace, membership, request, session, stale>>

set_policy(policy) ==
    /\ makerspace' = policy
    /\ UNCHANGED <<account, membership, request, session, stale>>

RequestSteps ==
    \E r \in MembershipRequests :
       \/ claim_invitation(r) \/ approve_request(r) \/ revoke_request(r)
       \/ \E p \in Persons :
             \/ request_membership(p, r) \/ invite_membership(r, p)
             \/ \E actor \in Persons : refer_membership(actor, r, p)

MemberSteps ==
    \E p \in Persons :
       \/ revoke_membership(p) \/ attach_staff(p) \/ delete_membership(p)
       \/ \E value \in BOOLEAN : set_can_refer(p, value)
       \/ start_session(p) \/ end_session(p) \/ verify_email(p)

MembershipsNext ==
    \/ RequestSteps \/ MemberSteps
    \/ \E policy \in Policies : set_policy(policy)

MembershipsSpec == MembershipsInit /\ [][MembershipsNext]_membershipVars

-----------------------------------------------------------------------------
\* A request or an invitation left open when a membership is revoked never
\* brings the person back, unless staff had attached them past it: revocation
\* closes the requests of the account only, and relies on the activation to
\* have closed those of the address.
RevokedStaysOut == \A p \in Persons : IsMember(p) => membership[p].via \notin stale

\* Whoever is present is a member; only revocation ends a session early.
PresentAreMembers == \A p \in Persons : session[p] = "live" => IsMember(p)
=============================================================================
