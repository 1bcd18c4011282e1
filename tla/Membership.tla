----------------------------- MODULE Membership -----------------------------
(***************************************************************************)
(* Organizations and who belongs to them: backend/routers/organizations.py.*)
(*                                                                         *)
(* Every handler reads what it checks and commits later, in a READ         *)
(* COMMITTED session without autoflush: other handlers commit in between.  *)
(* So a request is two steps, the handler's checks, which leave its unit   *)
(* of work in open[q], and Commit, which flushes it.  A request refused by *)
(* a check changes nothing and is not a step.  Rows of                     *)
(* organization_memberships have ids of their own and no constraint keeps  *)
(* (org_id, user_id) unique, so the model keeps rows, not a function.      *)
(***************************************************************************)
EXTENDS Absent, Naturals, FiniteSets

CONSTANTS Users,        \* persons, each with one e-mail address
          Superadmins,  \* those whose platform_role is superadmin
          Orgs,         \* the organizations that are followed; others may exist
          Rows,         \* membership row ids (bound: rows alive at one time)
          Invites,      \* invite row ids (bound: invites alive at one time)
          Requests,     \* handlers that can be open at one time
          Asked,        \* the roles that requests ask for
          Expiry,       \* INVITE_EXPIRY_SECONDS, in ticks
          MaxTime       \* bound on the clock

Roles == {"owner", "admin", "viewer"}

VARIABLES
    known,      \* the users who have an account
    made,       \* the organizations that exist
    row,        \* OrganizationMembership by row id
    invite,     \* OrganizationInvite by row id
    open,       \* requests between their checks and their commit
    now,        \* unix_now()
    outdated    \* history: organizations where a commit rested on outdated reads

vars == <<known, made, row, invite, open, now, outdated>>

Membership == [org: Orgs, user: Users, role: Roles]
Invite == [org: Orgs, user: Users, role: Roles, expires: Nat, accepted: BOOLEAN]

(* What a session flushes: rows inserted, updated (with the new role) and  *)
(* deleted, invites inserted, marked accepted and deleted.                 *)
Write == [add: SUBSET Membership, set: SUBSET (Rows \X Roles), drop: SUBSET Rows,
          offer: SUBSET Invite, accept: SUBSET Invites, withdraw: SUBSET Invites]
NoWrite == [add |-> {}, set |-> {}, drop |-> {}, offer |-> {}, accept |-> {}, withdraw |-> {}]
Request == [by: Users, org: Orgs, fresh: BOOLEAN, write: Write]

ASSUME MembershipAssumption ==
    /\ Superadmins \subseteq Users
    /\ Expiry \in Nat /\ MaxTime \in Nat
    /\ None \notin Rows \cup Invites \cup Membership \cup Invite \cup Request

TypeOK ==
    /\ known \subseteq Users
    /\ made \subseteq Orgs
    /\ row \in [Rows -> Membership \cup {None}]
    /\ invite \in [Invites -> Invite \cup {None}]
    /\ open \in [Requests -> Request \cup {None}]
    /\ now \in 0..MaxTime
    /\ outdated \subseteq made

Init ==
    /\ known = {} /\ made = {}
    /\ row = [r \in Rows |-> None]
    /\ invite = [i \in Invites |-> None]
    /\ open = [q \in Requests |-> None]
    /\ now = 0
    /\ outdated = {}

-----------------------------------------------------------------------------
RowsOf(o) == {r \in Rows : row[r] # None /\ row[r].org = o}
Of(o, u) == {r \in RowsOf(o) : row[r].user = u}
OwnerRows(o) == {r \in RowsOf(o) : row[r].role = "owner"}
Owners(o) == {row[r].user : r \in OwnerRows(o)}

(* (Bug variant: off by one.)                                              *)
NoOwner(o) == Cardinality(OwnerRows(o)) < 1
(* _count_owners <= 1                                                      *)
SoleOwner(o) == Cardinality(OwnerRows(o)) <= 1

(* _require_membership: a member with one of the roles, or a superadmin.   *)
Passes(u, o, roles) ==
    u \in Superadmins \/ \E r \in Of(o, u) : row[r].role \in roles

(* (Bug variant: any role will do.)                                        *)
AnyRole(role) == TRUE
(* _validate_role                                                          *)
ValidRole(role) == role \in Roles

(* (Bug variant: an admin may confer any role.)                            *)
ConfersAny(u, o, role) == Passes(u, o, {"owner", "admin"})
(* Officers confer roles, and only owners that of an owner.                *)
MayConfer(u, o, role) ==
    /\ Passes(u, o, {"owner", "admin"})
    /\ role = "owner" => Passes(u, o, {"owner"})

Pending(i) == invite[i] # None /\ ~invite[i].accepted
Live(i) == Pending(i) /\ invite[i].expires > now

(* A pending invite exists for the address.                                *)
Waiting(o, v) == \E i \in Invites : Live(i) /\ invite[i].org = o /\ invite[i].user = v

(* A new row's id is one no open session knows of.                         *)
Mentioned == UNION {LET w == open[q].write IN w.drop \cup {p[1] : p \in w.set} :
                       q \in {p \in Requests : open[p] # None}}
FreeRows == {r \in Rows : row[r] = None} \ Mentioned
FreeInvites ==
    {i \in Invites : invite[i] = None}
        \ UNION {open[q].write.accept \cup open[q].write.withdraw :
                    q \in {p \in Requests : open[p] # None}}

(* Which of the free ids a row gets does not matter.                       *)
NewId(free) == IF free = {} THEN {} ELSE {CHOOSE r \in free : TRUE}

(* The checks passed: the handler goes on to its commit.                   *)
Begin(u, o, w) ==
    /\ \E q \in Requests : open[q] = None
    /\ LET q == CHOOSE q \in Requests : open[q] = None
       IN  open' = [open EXCEPT ![q] = [by |-> u, org |-> o, fresh |-> TRUE, write |-> w]]
    /\ UNCHANGED <<known, made, row, invite, now, outdated>>

-----------------------------------------------------------------------------
(* A new organization and its owner's row are one commit, with nothing to  *)
(* check: the last part of signup and of a first Google sign-in, and the   *)
(* whole of create_organization.  It may be one that is not followed.      *)
Found(u) ==
    /\ \/ \E o \in Orgs \ made, r \in NewId(FreeRows) :
             /\ made' = made \cup {o}
             /\ row' = [row EXCEPT ![r] = [org |-> o, user |-> u, role |-> "owner"]]
       \/ UNCHANGED <<made, row>>
    /\ UNCHANGED <<invite, open, now, outdated>>

SignUp(u) == u \in Users \ known /\ known' = known \cup {u} /\ Found(u)
CreateOrganization(u) == u \in known /\ Found(u) /\ UNCHANGED known

(* invite_member: someone with an account is made a member at once, anyone *)
(* else is sent an invite.                                                 *)
InviteMember(u, o, v, role) ==
    /\ u \in known /\ ValidRole(role) /\ MayConfer(u, o, role)
    /\ IF v \in known
       THEN /\ Of(o, v) = {}
            /\ Begin(u, o, [NoWrite EXCEPT !.add = {[org |-> o, user |-> v, role |-> role]}])
       ELSE /\ ~Waiting(o, v)
            /\ Begin(u, o, [NoWrite EXCEPT !.offer =
                   {[org |-> o, user |-> v, role |-> role,
                     expires |-> now + Expiry, accepted |-> FALSE]}])

RevokeInvite(u, i) ==
    /\ u \in known /\ Pending(i) /\ Passes(u, invite[i].org, {"owner", "admin"})
    /\ Begin(u, invite[i].org, [NoWrite EXCEPT !.withdraw = {i}])

(* (Bug variant: an invite always makes a row.)                            *)
JoinsAgain(o, u, role) == {[org |-> o, user |-> u, role |-> role]}
(* The row an invite makes: none for a member.                             *)
Joins(o, u, role) == IF Of(o, u) = {} THEN {[org |-> o, user |-> u, role |-> role]} ELSE {}

AcceptInvite(u, i) ==
    /\ u \in known /\ Pending(i) /\ invite[i].expires >= now /\ invite[i].user = u
    /\ Begin(u, invite[i].org, [NoWrite EXCEPT
                 !.accept = {i}, !.add = Joins(invite[i].org, u, invite[i].role)])

LeaveOrganization(u, o) ==
    \E r \in Of(o, u) :
        /\ u \in known /\ ~(row[r].role = "owner" /\ SoleOwner(o))
        /\ Begin(u, o, [NoWrite EXCEPT !.drop = {r}])

(* transfer_ownership needs a row of the caller's, superadmin or not.      *)
TransferOwnership(u, o, v) ==
    \E c \in Of(o, u), t \in Of(o, v) :
        /\ u \in known /\ u # v /\ row[c].role = "owner"
        /\ Begin(u, o, [NoWrite EXCEPT !.set =
               {<<c, "admin">>} \cup {p \in {<<t, "owner">>} : row[t].role # "owner"}])

UpdateMemberRole(u, o, v, role) ==
    \E r \in Of(o, v) :
        /\ u \in known /\ Passes(u, o, {"owner"}) /\ ValidRole(role) /\ row[r].role # role
        /\ ~(row[r].role = "owner" /\ SoleOwner(o))
        /\ Begin(u, o, [NoWrite EXCEPT !.set = {<<r, role>>}])

(* (Bug variant: any admin may put an owner out.)                          *)
MayRemoveAnyone(u, o, r) ==
    /\ Passes(u, o, {"owner", "admin"})
    /\ ~(row[r].role = "owner" /\ SoleOwner(o))

(* remove_member's checks: not the sole owner, and no owner by an admin.   *)
MayRemove(u, o, r) ==
    /\ Passes(u, o, {"owner", "admin"})
    /\ ~(row[r].role = "owner" /\ SoleOwner(o))
    /\ \/ Of(o, u) = {}
       \/ \E c \in Of(o, u) : ~(row[c].role = "admin" /\ row[r].role = "owner")

RemoveMember(u, o, v) ==
    \E r \in Of(o, v) :
        /\ u \in known /\ MayRemove(u, o, r)
        /\ Begin(u, o, [NoWrite EXCEPT !.drop = {r}])

-----------------------------------------------------------------------------
(* The flush.  An UPDATE that finds its row gone raises and rolls the      *)
(* session back; a DELETE that does not is only a warning.                 *)
(* (Bug variant first: an invite that is gone is not missed.)              *)
VanishedRow(w) == \E p \in w.set : row[p[1]] = None
Vanished(w) ==
    \/ \E p \in w.set : row[p[1]] = None
    \/ \E i \in w.accept : invite[i] = None

Written(w, r) ==
    IF \E p \in w.set : p[1] = r
    THEN [row[r] EXCEPT !.role = (CHOOSE p \in w.set : p[1] = r)[2]]
    ELSE row[r]

(* The id an inserted row gets, None when nothing is inserted.             *)
Place(inserted, free) == IF inserted = {} THEN {None} ELSE NewId(free)

Flush(w) ==
    \E r \in Place(w.add, FreeRows), i \in Place(w.offer, FreeInvites) :
        /\ row' = [x \in Rows |-> IF x \in w.drop THEN None
                                  ELSE IF x = r THEN CHOOSE m \in w.add : TRUE
                                  ELSE Written(w, x)]
        /\ invite' = [x \in Invites |->
                         IF x \in w.withdraw THEN None
                         ELSE IF x = i THEN CHOOSE m \in w.offer : TRUE
                         ELSE IF x \in w.accept /\ invite[x] # None
                              THEN [invite[x] EXCEPT !.accepted = TRUE]
                         ELSE invite[x]]

(* After a commit the other requests on the organization rest on outdated  *)
(* reads.                                                                  *)
Outdate(q) ==
    [p \in Requests |-> IF p = q THEN None
                        ELSE IF open[p] # None /\ open[p].org = open[q].org
                             THEN [open[p] EXCEPT !.fresh = FALSE]
                             ELSE open[p]]

Commit(q) ==
    /\ open[q] # None
    /\ IF Vanished(open[q].write)
       THEN /\ open' = [open EXCEPT ![q] = None]
            /\ UNCHANGED <<row, invite, outdated>>
       ELSE /\ Flush(open[q].write)
            /\ open' = Outdate(q)
            /\ outdated' = IF open[q].fresh THEN outdated ELSE outdated \cup {open[q].org}
    /\ UNCHANGED <<known, made, now>>

Tick == now < MaxTime /\ now' = now + 1 /\ UNCHANGED <<known, made, row, invite, open, outdated>>

Handle(u) ==
    \/ CreateOrganization(u)
    \/ \E o \in made, v \in Users, role \in Asked : InviteMember(u, o, v, role)
    \/ \E o \in made, v \in Users, role \in Asked : UpdateMemberRole(u, o, v, role)
    \/ \E i \in Invites : RevokeInvite(u, i) \/ AcceptInvite(u, i)
    \/ \E o \in made : LeaveOrganization(u, o)
    \/ \E o \in made, v \in Users : TransferOwnership(u, o, v) \/ RemoveMember(u, o, v)

Next ==
    \/ \E u \in Users : SignUp(u) \/ Handle(u)
    \/ \E q \in Requests : Commit(q)
    \/ Tick

Spec == Init /\ [][Next]_vars

-----------------------------------------------------------------------------
(* Where every commit rested on current reads, an organization has an owner*)
(* (no sequence of leaving, demoting, removing and transferring loses it), *)
(* and nobody is a member of it twice, whether added or invited.           *)
OwnersHold ==
    \A o \in made \ outdated :
        /\ OwnerRows(o) # {}
        /\ \A u \in Users : Cardinality(Of(o, u)) <= 1

(* A revoked invite admits nobody: a request that had already read it when *)
(* it was revoked adds no member.                                          *)
RevokedAdmitsNobody ==
    \A q \in Requests :
        open[q] # None /\ open'[q] = None /\ row' # row
            => \A i \in open[q].write.accept : invite[i] # None

(* The requests whose commit this step is, on reads still current.         *)
Settling(o) == {q \in Requests : /\ open[q] # None /\ open[q].org = o /\ open[q].fresh
                                 /\ open'[q] = None}

(* Somebody stops being an owner only by their own request, another owner's*)
(* or a superadmin's, and never by an admin's; and becomes one by such a   *)
(* request or by an invite that an owner or superadmin sent.               *)
OwnersMakeOwners ==
    \A o \in made \ outdated : \A q \in Settling(o) :
        LET entitled == open[q].by \in Owners(o) \cup Superadmins
            offers   == {i \in Invites : invite[i] = None /\ invite'[i] # None
                                             /\ invite'[i].role = "owner"}
        IN  /\ Owners(o) \ Owners(o)' # {} => entitled
            /\ Owners(o)' \ Owners(o) # {} \/ offers # {} =>
                  entitled \/ \E i \in open[q].write.accept : invite[i].role = "owner"

(* The two of every step: rights in an organization move by the right hand.*)
OwnersDecide == [][RevokedAdmitsNobody /\ OwnersMakeOwners]_vars
=============================================================================
